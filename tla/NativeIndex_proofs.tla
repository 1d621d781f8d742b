------------------------- MODULE NativeIndex_proofs -------------------------
(***************************************************************************)
(* Proofs about NativeIndex, for any threads, labels, tokens, hash         *)
(* function, table size, edge pool and number of calls.                    *)
(***************************************************************************)
EXTENDS NativeIndex, FiniteSetTheorems, TLAPS

USE CapacityAssumption, HomeAssumption, NoneAssumption

-----------------------------------------------------------------------------
\* Linear probing

\* How far slot s is from slot h, in the direction of the probes.
Distance(h, s) == IF h <= s THEN s - h ELSE s + Capacity - h

\* The slots a probe for label l has passed when it is at slot s.
Passed(l, s) == {q \in Slots : Distance(Home[l], q) < Distance(Home[l], s)}

LEMMA DistanceType ==
    ASSUME NEW h \in Slots, NEW s \in Slots
    PROVE  /\ Distance(h, s) \in 0 .. Capacity - 1
           /\ \A q \in Slots : Distance(h, q) = Distance(h, s) => q = s
BY DEF Distance, Slots

LEMMA NextSlot ==
    ASSUME NEW s \in Slots
    PROVE  (s + 1) % Capacity = IF s = Capacity - 1 THEN 0 ELSE s + 1
<1>1. CASE s = Capacity - 1
    BY <1>1 DEF Slots
<1>2. CASE s # Capacity - 1
    <2>1. s + 1 \in 0 .. Capacity - 1
        BY <1>2 DEF Slots
    <2> QED
        BY <1>2, <2>1
<1> QED
    BY <1>1, <1>2

\* A probe that goes on has passed the slot it was at, and one that cannot go on has
\* passed all the others.
LEMMA ProbeAdvances ==
    ASSUME NEW l \in Labels, NEW s \in Slots
    PROVE  LET next == (s + 1) % Capacity IN
           /\ next \in Slots
           /\ next # Home[l] => Passed(l, next) = Passed(l, s) \cup {s}
           /\ next = Home[l] => Slots = Passed(l, s) \cup {s}
<1> DEFINE h == Home[l]
           next == (s + 1) % Capacity
<1>1. h \in Slots
    BY DEF Slots
<1>2. next = IF s = Capacity - 1 THEN 0 ELSE s + 1
    BY NextSlot
<1>3. next \in Slots
    BY <1>2 DEF Slots
<1> HIDE DEF h, next
<1>4. next # h => Distance(h, next) = Distance(h, s) + 1
    BY <1>1, <1>2 DEF Slots, Distance
<1>5. next = h => Distance(h, s) = Capacity - 1
    BY <1>1, <1>2 DEF Slots, Distance
<1>6. \A q \in Slots : Distance(h, q) \in 0 .. Capacity - 1
                       /\ (Distance(h, q) = Distance(h, s) => q = s)
    BY <1>1, DistanceType
<1>7. next # h => \A q \in Slots : Distance(h, q) < Distance(h, next)
                                    <=> Distance(h, q) < Distance(h, s) \/ q = s
    BY <1>4, <1>6
<1>8. next = h => \A q \in Slots : Distance(h, q) < Distance(h, s) \/ q = s
    BY <1>5, <1>6
<1> QED
    BY <1>3, <1>7, <1>8 DEF Passed, h, next

\* Of two different slots one is passed on the way to the other.
LEMMA OnePassed ==
    ASSUME NEW l \in Labels, NEW s \in Slots, NEW q \in Slots
    PROVE  q \in Passed(l, s) \/ q = s \/ s \in Passed(l, q)
<1>1. Home[l] \in Slots
    BY DEF Slots
<1>2. /\ Distance(Home[l], s) \in 0 .. Capacity - 1
      /\ Distance(Home[l], q) \in 0 .. Capacity - 1
      /\ Distance(Home[l], q) = Distance(Home[l], s) => q = s
    BY <1>1, DistanceType
<1> QED
    BY <1>2 DEF Passed

-----------------------------------------------------------------------------
\* Linked lists

\* The links p[0], p[1], ... of the list that starts at h: n edges, all different,
\* each but the last followed by the one its next field g names.
Path(p, n, h, g) ==
    /\ n \in Nat
    /\ p \in [0 .. n -> Links]
    /\ p[0] = h
    /\ p[n] = NoLink
    /\ \A i \in 0 .. n - 1 : p[i] # NoLink /\ p[i + 1] = g[p[i]]
    /\ \A i, j \in 0 .. n - 1 : p[i] = p[j] => i = j

\* The edges of the list that starts at h are those of S.
Chain(h, g, S) ==
    \E n, p : Path(p, n, h, g) /\ S = {p[i] : i \in 0 .. n - 1}

LEMMA SetInduction ==
    ASSUME NEW S, 0 \in S, \A n \in Nat : n \in S => n + 1 \in S
    PROVE  Nat \subseteq S
<1> DEFINE T == Nat \ S
           R == OpToRel(<, Nat)
<1> SUFFICES ASSUME T # {}
             PROVE  FALSE
    OBVIOUS
<1>1. IsWellFoundedOn(R, Nat)
    BY NatLessThanWellFounded
<1>2. \A x, y \in Nat : y < x => <<y, x>> \in R
    BY DEF OpToRel
<1> HIDE DEF R
<1>3. PICK x \in T : \A y \in T : ~(<<y, x>> \in R)
    <2>1. T \subseteq Nat
        OBVIOUS
    <2> HIDE DEF T
    <2> QED
        BY <1>1, <2>1, WFMin
<1>4. x # 0 /\ x - 1 \in Nat /\ x - 1 < x
    BY <1>3
<1>5. x - 1 \in S
    BY <1>2, <1>3, <1>4
<1> QED
    BY <1>3, <1>4, <1>5

LEMMA ChainEmpty ==
    ASSUME NEW g
    PROVE  Chain(NoLink, g, {})
<1> DEFINE p == [i \in 0 .. 0 |-> NoLink]
<1>1. Path(p, 0, NoLink, g)
    BY DEF Path, Links
<1>2. {} = {p[i] : i \in 0 .. 0 - 1}
    OBVIOUS
<1> QED
    BY <1>1, <1>2 DEF Chain

\* An edge that points at the head may become the head.
LEMMA ChainPush ==
    ASSUME NEW h, NEW g, NEW S, Chain(h, g, S),
           NEW e \in EdgeIds, e \notin S, g[e] = h
    PROVE  Chain(e, g, S \cup {e})
<1>1. PICK n, p : Path(p, n, h, g) /\ S = {p[i] : i \in 0 .. n - 1}
    BY DEF Chain
<1>2. n \in Nat /\ n + 1 \in Nat
    BY <1>1 DEF Path
<1> DEFINE q == [i \in 0 .. n + 1 |-> IF i = 0 THEN e ELSE p[i - 1]]
<1>3. e \in Links /\ e # NoLink
    BY DEF Links, EdgeIds, NoLink
<1>4. q \in [0 .. n + 1 -> Links]
    BY <1>1, <1>2, <1>3 DEF Path
<1>5. q[0] = e /\ \A i \in 0 .. n : i + 1 \in 0 .. n + 1 /\ q[i + 1] = p[i]
    BY <1>2
<1> HIDE DEF q
<1>6. \A i \in 0 .. n : i = 0 \/ \E j \in 0 .. n - 1 : i = j + 1
    <2> SUFFICES ASSUME NEW i \in 0 .. n, i # 0
                 PROVE  \E j \in 0 .. n - 1 : i = j + 1
        OBVIOUS
    <2>1. i - 1 \in 0 .. n - 1 /\ i = (i - 1) + 1
        BY <1>2
    <2> QED
        BY <2>1
<1>7. p[0] = h /\ p[n] = NoLink /\ 0 \in 0 .. n /\ n \in 0 .. n
      /\ \A j \in 0 .. n - 1 : j \in 0 .. n /\ p[j] # NoLink /\ p[j + 1] = g[p[j]]
                               /\ j + 1 \in 0 .. n /\ p[j] \in S
    BY <1>1, <1>2 DEF Path
<1>8. \A i, j \in 0 .. n - 1 : p[i] = p[j] => i = j
    BY <1>1 DEF Path
<1>9. ASSUME NEW i \in 0 .. n
      PROVE  q[i] # NoLink /\ q[i + 1] = g[q[i]]
    <2>1. CASE i = 0
        BY <1>3, <1>5, <1>7, <2>1
    <2>2. ASSUME NEW j \in 0 .. n - 1, i = j + 1
          PROVE  q[i] # NoLink /\ q[i + 1] = g[q[i]]
        <3>1. q[i] = p[j] /\ q[i + 1] = p[j + 1]
            BY <1>5, <1>7, <2>2
        <3> QED
            BY <1>7, <3>1
    <2> QED
        BY <1>6, <2>1, <2>2
<1>10. ASSUME NEW i \in 0 .. n, NEW j \in 0 .. n, q[i] = q[j]
       PROVE  i = j
    <2>1. \A m \in 0 .. n - 1 : q[m + 1] = p[m] /\ q[m + 1] # e
        BY <1>5, <1>7
    <2>2. CASE i = 0 \/ j = 0
        BY <1>5, <1>6, <1>10, <2>1, <2>2
    <2>3. ASSUME NEW k \in 0 .. n - 1, NEW m \in 0 .. n - 1, i = k + 1, j = m + 1
          PROVE  i = j
        BY <1>8, <1>10, <2>1, <2>3
    <2> QED
        BY <1>6, <2>2, <2>3
<1>11. Path(q, n + 1, e, g)
    <2>1. q[n + 1] = NoLink /\ (n + 1) - 1 = n
        BY <1>2, <1>5, <1>7
    <2> QED
        BY <1>2, <1>4, <1>5, <1>9, <1>10, <2>1 DEF Path
<1>12. S \cup {e} = {q[i] : i \in 0 .. (n + 1) - 1}
    <2>1. (n + 1) - 1 = n
        BY <1>2
    <2>2. \A x \in S : \E i \in 0 .. n : x = q[i]
        BY <1>1, <1>5, <1>7
    <2>3. \A i \in 0 .. n : q[i] = e \/ q[i] \in S
        BY <1>5, <1>6, <1>7
    <2> QED
        BY <1>5, <1>7, <2>1, <2>2, <2>3
<1> DEFINE m == n + 1
<1>13. Path(q, m, e, g) /\ S \cup {e} = {q[i] : i \in 0 .. m - 1}
    BY <1>11, <1>12
<1> HIDE DEF m
<1> QED
    BY <1>13 DEF Chain

\* A list does not depend on the next fields of other edges.
LEMMA ChainKeep ==
    ASSUME NEW h, NEW g, NEW f, NEW S, Chain(h, g, S), \A e \in S : f[e] = g[e]
    PROVE  Chain(h, f, S)
<1>1. PICK n, p : Path(p, n, h, g) /\ S = {p[i] : i \in 0 .. n - 1}
    BY DEF Chain
<1>2. Path(p, n, h, f)
    BY <1>1 DEF Path
<1> QED
    BY <1>1, <1>2 DEF Chain

\* What Link computes: the function walk of its definition.
Walk(w, n, h, g) ==
    w = [i \in 0 .. n |-> IF i = 0 THEN h
                          ELSE IF w[i - 1] = NoLink THEN NoLink ELSE g[w[i - 1]]]

LEMMA WalkExists ==
    ASSUME NEW h, NEW g, NEW n \in Nat
    PROVE  \E w : Walk(w, n, h, g)
<1> DEFINE S == {m \in Nat : \E w : Walk(w, m, h, g)}
<1>1. 0 \in S
    <2>1. Walk([i \in 0 .. 0 |-> h], 0, h, g)
        BY DEF Walk
    <2> QED
        BY <2>1
<1>2. ASSUME NEW m \in Nat, m \in S
      PROVE  m + 1 \in S
    <2>1. PICK w : Walk(w, m, h, g)
        BY <1>2
    <2> DEFINE last == IF w[m] = NoLink THEN NoLink ELSE g[w[m]]
               v == [i \in 0 .. m + 1 |-> IF i = m + 1 THEN last ELSE w[i]]
    <2>2. \A i \in 0 .. m : v[i] = w[i]
        OBVIOUS
    <2>3. v[m + 1] = last
        OBVIOUS
    <2>4. \A i \in 0 .. m : w[i] = IF i = 0 THEN h
                                   ELSE IF w[i - 1] = NoLink THEN NoLink ELSE g[w[i - 1]]
        BY <2>1 DEF Walk
    <2>5. ASSUME NEW i \in 0 .. m + 1
          PROVE  v[i] = IF i = 0 THEN h
                        ELSE IF v[i - 1] = NoLink THEN NoLink ELSE g[v[i - 1]]
        <3>1. CASE i = m + 1
            <4>1. i # 0 /\ i - 1 = m /\ v[m] = w[m]
                BY <2>2, <3>1
            <4> QED
                BY <2>3, <3>1, <4>1
        <3>2. CASE i \in 0 .. m
            <4>1. i = 0 \/ (i - 1 \in 0 .. m /\ v[i - 1] = w[i - 1])
                BY <2>2, <3>2
            <4> QED
                BY <2>2, <2>4, <3>2, <4>1
        <3> QED
            BY <3>1, <3>2
    <2>6. v = [i \in 0 .. m + 1 |-> v[i]]
        OBVIOUS
    <2> HIDE DEF v
    <2>7. Walk(v, m + 1, h, g)
        BY <2>5, <2>6 DEF Walk
    <2> QED
        BY <2>7
<1> HIDE DEF S
<1>3. Nat \subseteq S
    BY <1>1, <1>2, SetInduction
<1> QED
    BY <1>3 DEF S

\* All that matters of it.
Follows(w, m, h, g) ==
    /\ w[0] = h
    /\ \A i \in 0 .. m - 1 :
          /\ w[i] = NoLink => w[i + 1] = NoLink
          /\ w[i] \in EdgeIds => w[i + 1] = g[w[i]]

LEMMA WalkFollowsPath ==
    ASSUME NEW h, NEW g, NEW n, NEW p, Path(p, n, h, g), NEW m \in Nat, NEW w,
           Follows(w, m, h, g)
    PROVE  \A i \in 0 .. m : w[i] = IF i < n THEN p[i] ELSE NoLink
<1> DEFINE At_(i) == i \in 0 .. m => w[i] = IF i < n THEN p[i] ELSE NoLink
           S == {i \in Nat : At_(i)}
<1>0. n \in Nat /\ p[0] = h /\ p[n] = NoLink
      /\ \A i \in 0 .. n - 1 : p[i] \in EdgeIds /\ p[i + 1] = g[p[i]]
    BY DEF Path, Links
<1>1. 0 \in S
    BY <1>0 DEF Follows
<1>2. ASSUME NEW i \in Nat, i \in S
      PROVE  i + 1 \in S
    <2> SUFFICES ASSUME i + 1 \in 0 .. m
                 PROVE  w[i + 1] = IF i + 1 < n THEN p[i + 1] ELSE NoLink
        OBVIOUS
    <2>1. i \in 0 .. m /\ i \in 0 .. m - 1
        OBVIOUS
    <2>2. w[i] = IF i < n THEN p[i] ELSE NoLink
        BY <1>2, <2>1
    <2>3. /\ w[i] = NoLink => w[i + 1] = NoLink
          /\ w[i] \in EdgeIds => w[i + 1] = g[w[i]]
        BY <2>1 DEF Follows
    <2>4. CASE i < n
        <3>1. i \in 0 .. n - 1
            BY <1>0, <2>4
        <3>2. w[i + 1] = p[i + 1]
            BY <1>0, <2>2, <2>3, <2>4, <3>1
        <3> QED
            BY <1>0, <2>4, <3>2
    <2>5. CASE ~(i < n)
        <3>1. ~(i + 1 < n)
            BY <1>0, <2>5
        <3> QED
            BY <2>2, <2>3, <2>5, <3>1
    <2> QED
        BY <2>4, <2>5
<1> HIDE DEF S
<1>3. Nat \subseteq S
    BY <1>1, <1>2, SetInduction
<1> QED
    BY <1>3 DEF S

LEMMA WalkFollows ==
    ASSUME NEW h, NEW g, NEW m \in Nat, NEW w, Walk(w, m, h, g)
    PROVE  Follows(w, m, h, g)
<1>1. w[0] = h
    BY DEF Walk
<1>2. ASSUME NEW i \in 0 .. m - 1
      PROVE  w[i + 1] = IF w[i] = NoLink THEN NoLink ELSE g[w[i]]
    <2>1. i + 1 \in 0 .. m /\ i + 1 # 0 /\ (i + 1) - 1 = i
        OBVIOUS
    <2> QED
        BY <2>1 DEF Walk
<1>3. NoLink \notin EdgeIds
    BY DEF NoLink, EdgeIds
<1> QED
    BY <1>1, <1>2, <1>3 DEF Follows

\* A list has no more edges than the pool.
LEMMA PathIsShort ==
    ASSUME NEW h, NEW g, NEW n, NEW p, Path(p, n, h, g)
    PROVE  n <= MaxEdges
<1> SUFFICES ASSUME n > MaxEdges
             PROVE  FALSE
    BY DEF Path
<1>1. n \in Nat /\ n # 0 /\ p \in [0 .. n -> Links]
    BY DEF Path
<1> DEFINE f == [i \in 0 .. n - 1 |-> p[i]]
<1>2. f \in [0 .. n - 1 -> EdgeIds]
    BY <1>1 DEF Path, Links
<1>3. IsFiniteSet(0 .. n - 1) /\ Cardinality(0 .. n - 1) = n
    BY <1>1, FS_Interval
<1>4. IsFiniteSet(EdgeIds) /\ Cardinality(EdgeIds) = MaxEdges
    BY FS_Interval DEF EdgeIds
<1> HIDE DEF f
<1>5. Cardinality(EdgeIds) < Cardinality(0 .. n - 1)
    BY <1>1, <1>3, <1>4
<1>6. \E i, j \in 0 .. n - 1 : i # j /\ f[i] = f[j]
    BY <1>2, <1>3, <1>4, <1>5, FS_PigeonHole
<1> QED
    BY <1>6 DEF Path, f

\* ListOf visits the edges of a list, all of them and no others.
LEMMA ListOfWalk ==
    ASSUME NEW h, NEW g, NEW S, Chain(h, g, S), NEW L,
           \A i \in 0 .. MaxEdges : \E w : Follows(w, i, h, g) /\ L[i] = w[i]
    PROVE  {L[i] : i \in 0 .. MaxEdges} \ {NoLink} = S
<1>1. PICK n, p : Path(p, n, h, g) /\ S = {p[i] : i \in 0 .. n - 1}
    BY DEF Chain
<1>2. n \in Nat /\ n <= MaxEdges
    <2>1. n \in Nat
        BY <1>1 DEF Path
    <2> QED
        BY <1>1, <2>1, PathIsShort
<1>3. \A i \in 0 .. MaxEdges : L[i] = IF i < n THEN p[i] ELSE NoLink
    <2> SUFFICES ASSUME NEW i \in 0 .. MaxEdges
                 PROVE  L[i] = IF i < n THEN p[i] ELSE NoLink
        OBVIOUS
    <2>1. PICK w : Follows(w, i, h, g) /\ L[i] = w[i]
        OBVIOUS
    <2>2. i \in Nat /\ i \in 0 .. i
        OBVIOUS
    <2> QED
        BY <1>1, <2>1, <2>2, WalkFollowsPath
<1>4. \A i \in 0 .. n - 1 : p[i] # NoLink /\ i \in 0 .. MaxEdges /\ i < n
    BY <1>1, <1>2 DEF Path
<1>5. \A i \in 0 .. MaxEdges : i < n => i \in 0 .. n - 1
    BY <1>2
<1> QED
    BY <1>1, <1>3, <1>4, <1>5

NextTasks == [e \in EdgeIds |-> edges[e].nextTask]
NextUsers == [e \in EdgeIds |-> edges[e].nextUser]

LEMMA ListOfTask ==
    ASSUME NEW h, NEW S, Chain(h, NextTasks, S)
    PROVE  ListOf(h, NextTask) = S
<1> DEFINE L == [i \in 0 .. MaxEdges |-> Link(h, NextTask, i)]
<1>1. ASSUME NEW i \in 0 .. MaxEdges
      PROVE  \E w : Follows(w, i, h, NextTasks) /\ L[i] = w[i]
    <2> DEFINE Recursion(w) ==
                   w = [j \in 0 .. i |-> IF j = 0 THEN h
                                         ELSE IF w[j - 1] = NoLink THEN NoLink
                                         ELSE edges[w[j - 1]].nextTask]
    <2>1. PICK w : Walk(w, i, h, NextTasks)
        BY WalkExists
    <2>2. \A j \in 0 .. i : w[j] \in Links
        <3>1. Follows(w, i, h, NextTasks)
            BY <2>1, WalkFollows
        <3>2. PICK n, p : Path(p, n, h, NextTasks)
            BY DEF Chain
        <3>3. \A j \in 0 .. i : w[j] = IF j < n THEN p[j] ELSE NoLink
            BY <3>1, <3>2, WalkFollowsPath
        <3>4. n \in Nat /\ p \in [0 .. n -> Links]
            BY <3>2 DEF Path
        <3> QED
            BY <3>3, <3>4 DEF Links
    <2>3. Recursion(w)
        <3>1. \A j \in 0 .. i : j # 0 =>
                  j - 1 \in 0 .. i /\ (w[j - 1] # NoLink => w[j - 1] \in EdgeIds)
            BY <2>2 DEF Links
        <3> QED
            BY <2>1, <3>1 DEF Walk, NextTasks
    <2> DEFINE c == CHOOSE w_ : Recursion(w_)
    <2>4. Recursion(c)
        BY <2>3
    <2>5. L[i] = c[i]
        BY DEF Link, NextTask
    <2> HIDE DEF c, L
    <2>6. Follows(c, i, h, NextTasks)
        <3>1. c[0] = h
            BY <2>4
        <3>2. ASSUME NEW j \in 0 .. i - 1
              PROVE  c[j + 1] = IF c[j] = NoLink THEN NoLink ELSE edges[c[j]].nextTask
            <4>1. j + 1 \in 0 .. i /\ j + 1 # 0 /\ (j + 1) - 1 = j
                OBVIOUS
            <4> QED
                BY <2>4, <4>1
        <3>3. NoLink \notin EdgeIds
            BY DEF NoLink, EdgeIds
        <3> QED
            BY <3>1, <3>2, <3>3 DEF Follows, NextTasks
    <2> QED
        BY <2>5, <2>6
<1> HIDE DEF L
<1>2. {L[i] : i \in 0 .. MaxEdges} \ {NoLink} = S
    BY <1>1, ListOfWalk
<1> QED
    BY <1>2 DEF ListOf, L

LEMMA ListOfUser ==
    ASSUME NEW h, NEW S, Chain(h, NextUsers, S)
    PROVE  ListOf(h, NextUser) = S
<1> DEFINE L == [i \in 0 .. MaxEdges |-> Link(h, NextUser, i)]
<1>1. ASSUME NEW i \in 0 .. MaxEdges
      PROVE  \E w : Follows(w, i, h, NextUsers) /\ L[i] = w[i]
    <2> DEFINE Recursion(w) ==
                   w = [j \in 0 .. i |-> IF j = 0 THEN h
                                         ELSE IF w[j - 1] = NoLink THEN NoLink
                                         ELSE edges[w[j - 1]].nextUser]
    <2>1. PICK w : Walk(w, i, h, NextUsers)
        BY WalkExists
    <2>2. \A j \in 0 .. i : w[j] \in Links
        <3>1. Follows(w, i, h, NextUsers)
            BY <2>1, WalkFollows
        <3>2. PICK n, p : Path(p, n, h, NextUsers)
            BY DEF Chain
        <3>3. \A j \in 0 .. i : w[j] = IF j < n THEN p[j] ELSE NoLink
            BY <3>1, <3>2, WalkFollowsPath
        <3>4. n \in Nat /\ p \in [0 .. n -> Links]
            BY <3>2 DEF Path
        <3> QED
            BY <3>3, <3>4 DEF Links
    <2>3. Recursion(w)
        <3>1. \A j \in 0 .. i : j # 0 =>
                  j - 1 \in 0 .. i /\ (w[j - 1] # NoLink => w[j - 1] \in EdgeIds)
            BY <2>2 DEF Links
        <3> QED
            BY <2>1, <3>1 DEF Walk, NextUsers
    <2> DEFINE c == CHOOSE w_ : Recursion(w_)
    <2>4. Recursion(c)
        BY <2>3
    <2>5. L[i] = c[i]
        BY DEF Link, NextUser
    <2> HIDE DEF c, L
    <2>6. Follows(c, i, h, NextUsers)
        <3>1. c[0] = h
            BY <2>4
        <3>2. ASSUME NEW j \in 0 .. i - 1
              PROVE  c[j + 1] = IF c[j] = NoLink THEN NoLink ELSE edges[c[j]].nextUser
            <4>1. j + 1 \in 0 .. i /\ j + 1 # 0 /\ (j + 1) - 1 = j
                OBVIOUS
            <4> QED
                BY <2>4, <4>1
        <3>3. NoLink \notin EdgeIds
            BY DEF NoLink, EdgeIds
        <3> QED
            BY <3>1, <3>2, <3>3 DEF Follows, NextUsers
    <2> QED
        BY <2>5, <2>6
<1> HIDE DEF L
<1>2. {L[i] : i \in 0 .. MaxEdges} \ {NoLink} = S
    BY <1>1, ListOfWalk
<1> QED
    BY <1>2 DEF ListOf, L

-----------------------------------------------------------------------------
\* The inductive invariant

Linking == {"ownerLoad", "ownerPush", "userLoad", "userPush"}
Holding == {"check", "reserve", "return"} \cup Linking
Probing == {"probe", "claimSlot", "fill", "publish", "lookup"}
In(th, P) == thread[th].pc \in P

Ready(s) == lifecycle[s] = "READY"
Holds(s, l) == Ready(s) /\ slotLabel[s] = l
\* No slot before s in the probe sequence of label l is free for it, or has it.
Cleared(l, s) == \A q \in Passed(l, s) : Ready(q) /\ slotLabel[q] # l

\* The calls have the arguments they were made with.
Arguments ==
    \A th \in Threads :
        /\ ~At(th, "idle") => thread[th].label \in Labels
        /\ In(th, Registering) => thread[th].token \in Tokens

\* A slot that is being written belongs to one thread.
Claims ==
    /\ \A th \in Threads :
          /\ In(th, {"fill", "publish"}) => lifecycle[thread[th].slot] = "WRITING"
          /\ At(th, "publish") => slotLabel[thread[th].slot] = thread[th].label
    /\ \A th, u \in Threads :
          (/\ In(th, {"fill", "publish"}) /\ In(u, {"fill", "publish"})
           /\ thread[th].slot = thread[u].slot) => th = u

\* Every label is where its probe sequence leads, and every probe is on its way there.
Placed == \A s \in Slots : Ready(s) => slotLabel[s] \in Labels /\ Cleared(slotLabel[s], s)
Probed == \A th \in Threads : In(th, Probing) => Cleared(thread[th].label, thread[th].slot)
Located ==
    \A th \in Threads :
        In(th, {"gate"} \cup Holding) => Holds(thread[th].slot, thread[th].label)

\* Of the threads at work on one task one has its gate.
Gated ==
    /\ \A th \in Threads : In(th, Holding) => gate[thread[th].slot]
    /\ \A th, u \in Threads :
          In(th, Holding) /\ In(u, Holding) /\ thread[th].slot = thread[u].slot => th = u

\* The edges that have been drawn, and those that are not yet linked.
Drawn(e) == e \in EdgeIds /\ e < nextEdge
EdgeOf(e, s, k) == Drawn(e) /\ edges[e].task = s /\ edges[e].token = k
Unlinked(e, P) == \E th \in Threads : In(th, P) /\ thread[th].edge = e
Reserved ==
    /\ \A th \in Threads :
          /\ In(th, Linking) => EdgeOf(thread[th].edge, thread[th].slot, thread[th].token)
          /\ At(th, "ownerPush") => edges[thread[th].edge].nextTask = thread[th].head
          /\ At(th, "userPush") => edges[thread[th].edge].nextUser = thread[th].head
    /\ \A th, u \in Threads :
          In(th, Linking) /\ In(u, Linking) /\ thread[th].edge = thread[u].edge => th = u
EdgesNamed ==
    \A e \in EdgeIds : Drawn(e) => Ready(edges[e].task) /\ edges[e].token \in Tokens

\* The two lists through the edges have the edges that are linked.
OwnerSet(s) ==
    {e \in EdgeIds : Drawn(e) /\ edges[e].task = s /\ ~Unlinked(e, {"ownerLoad", "ownerPush"})}
UserSet(k) ==
    {e \in EdgeIds : Drawn(e) /\ edges[e].token = k /\ ~Unlinked(e, Linking)}
OwnerLists == \A s \in Slots : Chain(ownerHead[s], NextTasks, OwnerSet(s))
UserLists == \A k \in Tokens : Chain(inverseHead[k], NextUsers, UserSet(k))

\* Under the gate the answer to the ownership question stays right.
Asked ==
    \A th \in Threads :
        At(th, "reserve") => \A e \in EdgeIds : ~EdgeOf(e, thread[th].slot, thread[th].token)
Answered ==
    \A th \in Threads :
        At(th, "return") =>
            \E e \in UserSet(thread[th].token) : edges[e].task = thread[th].slot

\* What was registered stays, and a lookup it precedes is owed its slot.
Kept ==
    \A r \in registered :
        Holds(r.task, r.label) /\ \E e \in UserSet(r.token) : edges[e].task = r.task
Owed ==
    \A th \in Threads :
        /\ thread[th].owed /\ In(th, LookingUp) =>
              \E r \in registered : r.label = thread[th].label
        /\ At(th, "missed") => ~thread[th].owed

IInv ==
    /\ TypeOK
    /\ Arguments /\ Claims /\ Placed /\ Probed /\ Located /\ Gated
    /\ Reserved /\ EdgesNamed /\ OwnerLists /\ UserLists
    /\ Asked /\ OneEdgePerOwner /\ Answered /\ Kept /\ Owed

-----------------------------------------------------------------------------
\* What a step does, piece by piece

\* Thread th is at place p of its call, with these arguments and locals.
Moved(th, p, l, k, s, e, h, o) ==
    /\ thread' \in [Threads -> Thread]
    /\ \A u \in Threads : u # th => thread'[u] = thread[u]
    /\ thread'[th].pc = p /\ thread'[th].label = l /\ thread'[th].token = k
    /\ thread'[th].slot = s /\ thread'[th].edge = e /\ thread'[th].head = h
    /\ thread'[th].owed = o
Moves(th, p) ==
    Moved(th, p, thread[th].label, thread[th].token, thread[th].slot, thread[th].edge,
          thread[th].head, thread[th].owed)

Places == {"idle"} \cup Registering \cup LookingUp

LEMMA MovedByExcept ==
    ASSUME thread \in [Threads -> Thread], NEW th \in Threads, NEW v \in Thread,
           thread' = [thread EXCEPT ![th] = v]
    PROVE  Moved(th, v.pc, v.label, v.token, v.slot, v.edge, v.head, v.owed)
BY DEF Moved

LEMMA FieldsSet ==
    ASSUME NEW r \in Thread
    PROVE  /\ \A p \in Places : [r EXCEPT !.pc = p] \in Thread
           /\ \A s \in Slots : [r EXCEPT !.slot = s] \in Thread
           /\ \A p \in Places, e \in Links : [r EXCEPT !.pc = p, !.edge = e] \in Thread
           /\ \A p \in Places, h \in Links : [r EXCEPT !.head = h, !.pc = p] \in Thread
BY DEF Thread, Places

LEMMA GoMoves ==
    ASSUME thread \in [Threads -> Thread], NEW th \in Threads, NEW p \in Places, Go(th, p)
    PROVE  Moves(th, p)
<1> DEFINE v == [thread[th] EXCEPT !.pc = p]
<1>1. v \in Thread
    BY FieldsSet
<1>2. /\ v.pc = p /\ v.label = thread[th].label /\ v.token = thread[th].token
      /\ v.slot = thread[th].slot /\ v.edge = thread[th].edge /\ v.head = thread[th].head
      /\ v.owed = thread[th].owed
    BY DEF Thread
<1>3. thread' = [thread EXCEPT ![th] = v]
    BY DEF Go
<1> HIDE DEF v
<1>4. Moved(th, v.pc, v.label, v.token, v.slot, v.edge, v.head, v.owed)
    BY <1>1, <1>3, MovedByExcept
<1> QED
    BY <1>2, <1>4 DEF Moves

LEMMA IdleMoves ==
    ASSUME thread \in [Threads -> Thread], NEW th \in Threads,
           thread' = [thread EXCEPT ![th] = Idle]
    PROVE  Moved(th, "idle", None, None, 0, NoLink, NoLink, FALSE)
<1>1. Idle \in Thread
    BY DEF Idle, Thread, Slots, Links
<1>2. /\ Idle.pc = "idle" /\ Idle.label = None /\ Idle.token = None /\ Idle.slot = 0
      /\ Idle.edge = NoLink /\ Idle.head = NoLink /\ Idle.owed = FALSE
    BY DEF Idle
<1>3. Moved(th, Idle.pc, Idle.label, Idle.token, Idle.slot, Idle.edge, Idle.head, Idle.owed)
    BY <1>1, MovedByExcept
<1> QED
    BY <1>2, <1>3

\* A published slot stays published, with its label.
LEMMA SlotsGrow ==
    ASSUME \A s \in Slots : Ready(s) => Ready(s)' /\ slotLabel'[s] = slotLabel[s]
    PROVE  /\ \A s \in Slots, l \in Labels : Holds(s, l) => Holds(s, l)'
           /\ \A s \in Slots, l \in Labels : Cleared(l, s) => Cleared(l, s)'
BY DEF Holds, Cleared, Passed

LEMMA SlotsSame ==
    ASSUME UNCHANGED <<lifecycle, slotLabel>>
    PROVE  /\ \A s : Ready(s)' <=> Ready(s)
           /\ \A s, l : Holds(s, l)' <=> Holds(s, l)
           /\ \A s, l : Cleared(l, s)' <=> Cleared(l, s)
BY DEF Holds, Cleared, Passed, Ready

LEMMA EdgesSame ==
    ASSUME UNCHANGED <<edges, nextEdge>>
    PROVE  /\ \A e : Drawn(e)' <=> Drawn(e)
           /\ \A e, s, k : EdgeOf(e, s, k)' <=> EdgeOf(e, s, k)
           /\ NextTasks' = NextTasks
           /\ NextUsers' = NextUsers
BY DEF EdgeOf, Drawn, NextTasks, NextUsers

\* A thread that neither links an edge nor begins to leaves the lists' edges alone.
LEMMA SetsSame ==
    ASSUME NEW th \in Threads, \A u \in Threads : u # th => thread'[u] = thread[u],
           ~In(th, Linking), ~In(th, Linking)', UNCHANGED <<edges, nextEdge>>
    PROVE  /\ \A s : OwnerSet(s)' = OwnerSet(s)
           /\ \A k : UserSet(k)' = UserSet(k)
<1>1. \A e : Unlinked(e, Linking)' <=> Unlinked(e, Linking)
    BY DEF Unlinked, In
<1>2. \A e : Unlinked(e, {"ownerLoad", "ownerPush"})' <=>
            Unlinked(e, {"ownerLoad", "ownerPush"})
    BY DEF Unlinked, In, Linking
<1>3. \A e : Drawn(e)' <=> Drawn(e)
    BY EdgesSame
<1> QED
    BY <1>1, <1>2, <1>3 DEF OwnerSet, UserSet

\* Of the edges nothing changes, for a step that is not about edges.
LEMMA EdgesUntouched ==
    ASSUME IInv, NEW th \in Threads, \A u \in Threads : u # th => thread'[u] = thread[u],
           ~In(th, Linking), ~In(th, Linking)', UNCHANGED <<ownerHead, edgeVars>>,
           \A s \in Slots : Ready(s) => Ready(s)'
    PROVE  Reserved' /\ EdgesNamed' /\ OwnerLists' /\ UserLists' /\ OneEdgePerOwner'
<1>1. UNCHANGED <<edges, nextEdge, inverseHead, ownerHead>>
    BY DEF edgeVars
<1>2. /\ \A s : OwnerSet(s)' = OwnerSet(s)
      /\ \A k : UserSet(k)' = UserSet(k)
    BY <1>1, SetsSame
<1>3. /\ \A e : Drawn(e)' <=> Drawn(e)
      /\ \A e, s, k : EdgeOf(e, s, k)' <=> EdgeOf(e, s, k)
      /\ NextTasks' = NextTasks
      /\ NextUsers' = NextUsers
    BY <1>1, EdgesSame
<1>4. Reserved'
    BY <1>1, <1>3 DEF IInv, Reserved, In, At, Linking
<1>5. EdgesNamed'
    <2>1. \A e \in EdgeIds : edges[e].task \in Slots
        BY DEF IInv, TypeOK, Edge
    <2> QED
        BY <1>1, <1>3, <2>1 DEF IInv, EdgesNamed
<1>6. OwnerLists' /\ UserLists'
    BY <1>1, <1>2, <1>3 DEF IInv, OwnerLists, UserLists
<1>7. OneEdgePerOwner'
    BY <1>1 DEF IInv, OneEdgePerOwner
<1> QED
    BY <1>4, <1>5, <1>6, <1>7

\* A token that the owner list of a task has has drawn an edge for the task, and no
\* other has.
LEMMA OwnersAre ==
    ASSUME IInv, NEW s \in Slots
    PROVE  Owners(s) = {edges[e].token : e \in OwnerSet(s)}
<1>1. ListOf(ownerHead[s], NextTask) = OwnerSet(s)
    BY ListOfTask DEF IInv, OwnerLists
<1> QED
    BY <1>1 DEF Owners

LEMMA ClientTasksAre ==
    ASSUME IInv, NEW k \in Tokens
    PROVE  ClientTasks(k) = {edges[e].task : e \in UserSet(k)}
<1>1. ListOf(inverseHead[k], NextUser) = UserSet(k)
    BY ListOfUser DEF IInv, UserLists
<1> QED
    BY <1>1 DEF ClientTasks

-----------------------------------------------------------------------------
\* Steps of the calls

LEMMA IndexStart == Init => IInv
<1> SUFFICES ASSUME Init
             PROVE  IInv
    OBVIOUS
<1>1. \A th \in Threads : thread[th] = Idle
    BY DEF Init
<1>2. Idle.pc = "idle" /\ Idle.owed = FALSE
    BY DEF Idle
<1>3. \A e : ~Drawn(e)
    BY DEF Init, Drawn, EdgeIds
<1>4. \A s \in Slots : ~Ready(s)
    BY DEF Init, Ready
<1>5. TypeOK
    <2>1. Idle \in Thread
        BY DEF Idle, Thread, Slots, Links
    <2>2. [token |-> None, task |-> 0, nextTask |-> NoLink, nextUser |-> NoLink] \in Edge
        BY DEF Edge, Slots, Links
    <2>3. thread \in [Threads -> Thread]
        BY <2>1 DEF Init
    <2>4. edges \in [EdgeIds -> Edge]
        BY <2>2 DEF Init
    <2>5. /\ ownerHead \in [Slots -> Links] /\ inverseHead \in [Tokens -> Links]
        BY DEF Init, Links
    <2>6. gate \in [Slots -> BOOLEAN]
        BY DEF Init
    <2>7. registered \subseteq [label : Labels, token : Tokens, task : Slots]
        BY DEF Init
    <2>8. nextEdge \in 0 .. MaxEdges /\ calls \in [Threads -> 0 .. MaxCalls]
        BY BoundsAssumption DEF Init
    <2>9. /\ lifecycle \in [Slots -> {"EMPTY", "WRITING", "READY"}]
          /\ slotLabel \in [Slots -> Labels \cup {None}]
        BY DEF Init
    <2> QED
        BY <2>3, <2>4, <2>5, <2>6, <2>7, <2>8, <2>9 DEF TypeOK
<1>6. Arguments /\ Claims /\ Located
    BY <1>1, <1>2 DEF Arguments, Claims, Located, In, At, Registering, Holding, Linking
<1>7. Placed
    BY <1>4 DEF Placed
<1>8. Probed /\ Gated
    BY <1>1, <1>2 DEF Probed, Gated, In, Probing, Holding, Linking
<1>9. Reserved /\ EdgesNamed
    BY <1>1, <1>2, <1>3 DEF Reserved, EdgesNamed, In, At, Linking
<1>10. OwnerLists /\ UserLists
    <2>1. \A s : OwnerSet(s) = {}
        BY <1>3 DEF OwnerSet
    <2>2. \A k : UserSet(k) = {}
        BY <1>3 DEF UserSet
    <2>3. Chain(NoLink, NextTasks, {}) /\ Chain(NoLink, NextUsers, {})
        BY ChainEmpty
    <2> QED
        BY <2>1, <2>2, <2>3 DEF Init, OwnerLists, UserLists
<1>11. Asked /\ Answered /\ Owed
    BY <1>1, <1>2 DEF Asked, Answered, Owed, In, At, LookingUp
<1>12. OneEdgePerOwner
    BY DEF Init, OneEdgePerOwner
<1>13. Kept
    BY DEF Init, Kept
<1> QED
    BY <1>5, <1>6, <1>7, <1>8, <1>9, <1>10, <1>11, <1>12, <1>13 DEF IInv

\* A call that is not at work on edges only moves on: what its new place requires
\* follows from the old one and what the step has seen.
LEMMA ProbeHitInv ==
    ASSUME IInv, NEW th \in Threads, At(th, "probe"), Go(th, "gate"),
           Holds(thread[th].slot, thread[th].label),
           UNCHANGED <<slotVars, edgeVars, calls, registered>>
    PROVE  IInv'
<1>1. Moves(th, "gate")
    BY GoMoves DEF IInv, TypeOK, Places, Registering, LookingUp
<1>2. /\ \A u \in Threads : u # th => thread'[u] = thread[u]
      /\ ~In(th, Linking) /\ ~In(th, Linking)'
    BY <1>1 DEF Moves, Moved, In, At, Linking
<1>3. UNCHANGED <<slotVars, edgeVars>>
    OBVIOUS
<1>4. UNCHANGED <<lifecycle, slotLabel, ownerHead, gate, edges, nextEdge, inverseHead>>
    BY <1>3 DEF slotVars, edgeVars
<1>5. /\ \A s : Ready(s)' <=> Ready(s)
      /\ \A s, l : Holds(s, l)' <=> Holds(s, l)
      /\ \A s, l : Cleared(l, s)' <=> Cleared(l, s)
    BY <1>4, SlotsSame
<1>6. /\ \A s : OwnerSet(s)' = OwnerSet(s)
      /\ \A k : UserSet(k)' = UserSet(k)
    BY <1>2, <1>4, SetsSame
<1>7. \A e, s, k : EdgeOf(e, s, k)' <=> EdgeOf(e, s, k)
    BY <1>4, EdgesSame
<1>8. TypeOK'
    BY <1>1, <1>4 DEF IInv, TypeOK, Moves, Moved
<1>9. Arguments'
    BY <1>1 DEF IInv, Arguments, Moves, Moved, In, At, Registering
<1>10. Claims'
    BY <1>1, <1>4 DEF IInv, Claims, Moves, Moved, In, At
<1>11. Placed'
    BY <1>4, <1>5 DEF IInv, Placed
<1>12. Probed'
    BY <1>1, <1>5 DEF IInv, Probed, Moves, Moved, In, At, Probing
<1>13. Located'
    BY <1>1, <1>5 DEF IInv, Located, Moves, Moved, In, At, Holding, Linking
<1>14. Gated'
    BY <1>1, <1>4 DEF IInv, Gated, Moves, Moved, In, At, Holding, Linking
<1>15. Asked'
    BY <1>1, <1>7 DEF IInv, Asked, Moves, Moved, At
<1>16. Answered'
    BY <1>1, <1>4, <1>6 DEF IInv, Answered, Moves, Moved, At
<1>17. Kept'
    BY <1>4, <1>5, <1>6 DEF IInv, Kept
<1>18. Owed'
    BY <1>1 DEF IInv, Owed, Moves, Moved, In, At, LookingUp
<1>19. Reserved' /\ EdgesNamed' /\ OwnerLists' /\ UserLists' /\ OneEdgePerOwner'
    BY <1>2, <1>3, <1>4, <1>5, EdgesUntouched
<1> QED
    BY <1>8, <1>9, <1>10, <1>11, <1>12, <1>13, <1>14, <1>15,
       <1>16, <1>17, <1>18, <1>19 DEF IInv

LEMMA ProbeEmptyInv ==
    ASSUME IInv, NEW th \in Threads, At(th, "probe"), Go(th, "claimSlot"),
           UNCHANGED <<slotVars, edgeVars, calls, registered>>
    PROVE  IInv'
<1>1. Moves(th, "claimSlot")
    BY GoMoves DEF IInv, TypeOK, Places, Registering, LookingUp
<1>2. /\ \A u \in Threads : u # th => thread'[u] = thread[u]
      /\ ~In(th, Linking) /\ ~In(th, Linking)'
    BY <1>1 DEF Moves, Moved, In, At, Linking
<1>3. UNCHANGED <<slotVars, edgeVars>>
    OBVIOUS
<1>4. UNCHANGED <<lifecycle, slotLabel, ownerHead, gate, edges, nextEdge, inverseHead>>
    BY <1>3 DEF slotVars, edgeVars
<1>5. /\ \A s : Ready(s)' <=> Ready(s)
      /\ \A s, l : Holds(s, l)' <=> Holds(s, l)
      /\ \A s, l : Cleared(l, s)' <=> Cleared(l, s)
    BY <1>4, SlotsSame
<1>6. /\ \A s : OwnerSet(s)' = OwnerSet(s)
      /\ \A k : UserSet(k)' = UserSet(k)
    BY <1>2, <1>4, SetsSame
<1>7. \A e, s, k : EdgeOf(e, s, k)' <=> EdgeOf(e, s, k)
    BY <1>4, EdgesSame
<1>8. TypeOK'
    BY <1>1, <1>4 DEF IInv, TypeOK, Moves, Moved
<1>9. Arguments'
    BY <1>1 DEF IInv, Arguments, Moves, Moved, In, At, Registering
<1>10. Claims'
    BY <1>1, <1>4 DEF IInv, Claims, Moves, Moved, In, At
<1>11. Placed'
    BY <1>4, <1>5 DEF IInv, Placed
<1>12. Probed'
    BY <1>1, <1>5 DEF IInv, Probed, Moves, Moved, In, At, Probing
<1>13. Located'
    BY <1>1, <1>5 DEF IInv, Located, Moves, Moved, In, At, Holding, Linking
<1>14. Gated'
    BY <1>1, <1>4 DEF IInv, Gated, Moves, Moved, In, At, Holding, Linking
<1>15. Asked'
    BY <1>1, <1>7 DEF IInv, Asked, Moves, Moved, At
<1>16. Answered'
    BY <1>1, <1>4, <1>6 DEF IInv, Answered, Moves, Moved, At
<1>17. Kept'
    BY <1>4, <1>5, <1>6 DEF IInv, Kept
<1>18. Owed'
    BY <1>1 DEF IInv, Owed, Moves, Moved, In, At, LookingUp
<1>19. Reserved' /\ EdgesNamed' /\ OwnerLists' /\ UserLists' /\ OneEdgePerOwner'
    BY <1>2, <1>3, <1>4, <1>5, EdgesUntouched
<1> QED
    BY <1>8, <1>9, <1>10, <1>11, <1>12, <1>13, <1>14, <1>15,
       <1>16, <1>17, <1>18, <1>19 DEF IInv

LEMMA ProbeFailsInv ==
    ASSUME IInv, NEW th \in Threads, At(th, "probe"), Go(th, "fail"),
           UNCHANGED <<slotVars, edgeVars, calls, registered>>
    PROVE  IInv'
<1>1. Moves(th, "fail")
    BY GoMoves DEF IInv, TypeOK, Places, Registering, LookingUp
<1>2. /\ \A u \in Threads : u # th => thread'[u] = thread[u]
      /\ ~In(th, Linking) /\ ~In(th, Linking)'
    BY <1>1 DEF Moves, Moved, In, At, Linking
<1>3. UNCHANGED <<slotVars, edgeVars>>
    OBVIOUS
<1>4. UNCHANGED <<lifecycle, slotLabel, ownerHead, gate, edges, nextEdge, inverseHead>>
    BY <1>3 DEF slotVars, edgeVars
<1>5. /\ \A s : Ready(s)' <=> Ready(s)
      /\ \A s, l : Holds(s, l)' <=> Holds(s, l)
      /\ \A s, l : Cleared(l, s)' <=> Cleared(l, s)
    BY <1>4, SlotsSame
<1>6. /\ \A s : OwnerSet(s)' = OwnerSet(s)
      /\ \A k : UserSet(k)' = UserSet(k)
    BY <1>2, <1>4, SetsSame
<1>7. \A e, s, k : EdgeOf(e, s, k)' <=> EdgeOf(e, s, k)
    BY <1>4, EdgesSame
<1>8. TypeOK'
    BY <1>1, <1>4 DEF IInv, TypeOK, Moves, Moved
<1>9. Arguments'
    BY <1>1 DEF IInv, Arguments, Moves, Moved, In, At, Registering
<1>10. Claims'
    BY <1>1, <1>4 DEF IInv, Claims, Moves, Moved, In, At
<1>11. Placed'
    BY <1>4, <1>5 DEF IInv, Placed
<1>12. Probed'
    BY <1>1, <1>5 DEF IInv, Probed, Moves, Moved, In, At, Probing
<1>13. Located'
    BY <1>1, <1>5 DEF IInv, Located, Moves, Moved, In, At, Holding, Linking
<1>14. Gated'
    BY <1>1, <1>4 DEF IInv, Gated, Moves, Moved, In, At, Holding, Linking
<1>15. Asked'
    BY <1>1, <1>7 DEF IInv, Asked, Moves, Moved, At
<1>16. Answered'
    BY <1>1, <1>4, <1>6 DEF IInv, Answered, Moves, Moved, At
<1>17. Kept'
    BY <1>4, <1>5, <1>6 DEF IInv, Kept
<1>18. Owed'
    BY <1>1 DEF IInv, Owed, Moves, Moved, In, At, LookingUp
<1>19. Reserved' /\ EdgesNamed' /\ OwnerLists' /\ UserLists' /\ OneEdgePerOwner'
    BY <1>2, <1>3, <1>4, <1>5, EdgesUntouched
<1> QED
    BY <1>8, <1>9, <1>10, <1>11, <1>12, <1>13, <1>14, <1>15,
       <1>16, <1>17, <1>18, <1>19 DEF IInv

LEMMA ClaimLostInv ==
    ASSUME IInv, NEW th \in Threads, At(th, "claimSlot"), Go(th, "probe"),
           UNCHANGED <<slotVars, edgeVars, calls, registered>>
    PROVE  IInv'
<1>1. Moves(th, "probe")
    BY GoMoves DEF IInv, TypeOK, Places, Registering, LookingUp
<1>2. /\ \A u \in Threads : u # th => thread'[u] = thread[u]
      /\ ~In(th, Linking) /\ ~In(th, Linking)'
    BY <1>1 DEF Moves, Moved, In, At, Linking
<1>3. UNCHANGED <<slotVars, edgeVars>>
    OBVIOUS
<1>4. UNCHANGED <<lifecycle, slotLabel, ownerHead, gate, edges, nextEdge, inverseHead>>
    BY <1>3 DEF slotVars, edgeVars
<1>5. /\ \A s : Ready(s)' <=> Ready(s)
      /\ \A s, l : Holds(s, l)' <=> Holds(s, l)
      /\ \A s, l : Cleared(l, s)' <=> Cleared(l, s)
    BY <1>4, SlotsSame
<1>6. /\ \A s : OwnerSet(s)' = OwnerSet(s)
      /\ \A k : UserSet(k)' = UserSet(k)
    BY <1>2, <1>4, SetsSame
<1>7. \A e, s, k : EdgeOf(e, s, k)' <=> EdgeOf(e, s, k)
    BY <1>4, EdgesSame
<1>8. TypeOK'
    BY <1>1, <1>4 DEF IInv, TypeOK, Moves, Moved
<1>9. Arguments'
    BY <1>1 DEF IInv, Arguments, Moves, Moved, In, At, Registering
<1>10. Claims'
    BY <1>1, <1>4 DEF IInv, Claims, Moves, Moved, In, At
<1>11. Placed'
    BY <1>4, <1>5 DEF IInv, Placed
<1>12. Probed'
    BY <1>1, <1>5 DEF IInv, Probed, Moves, Moved, In, At, Probing
<1>13. Located'
    BY <1>1, <1>5 DEF IInv, Located, Moves, Moved, In, At, Holding, Linking
<1>14. Gated'
    BY <1>1, <1>4 DEF IInv, Gated, Moves, Moved, In, At, Holding, Linking
<1>15. Asked'
    BY <1>1, <1>7 DEF IInv, Asked, Moves, Moved, At
<1>16. Answered'
    BY <1>1, <1>4, <1>6 DEF IInv, Answered, Moves, Moved, At
<1>17. Kept'
    BY <1>4, <1>5, <1>6 DEF IInv, Kept
<1>18. Owed'
    BY <1>1 DEF IInv, Owed, Moves, Moved, In, At, LookingUp
<1>19. Reserved' /\ EdgesNamed' /\ OwnerLists' /\ UserLists' /\ OneEdgePerOwner'
    BY <1>2, <1>3, <1>4, <1>5, EdgesUntouched
<1> QED
    BY <1>8, <1>9, <1>10, <1>11, <1>12, <1>13, <1>14, <1>15,
       <1>16, <1>17, <1>18, <1>19 DEF IInv

LEMMA LookupHitInv ==
    ASSUME IInv, NEW th \in Threads, At(th, "lookup"), Go(th, "found"),
           UNCHANGED <<slotVars, edgeVars, calls, registered>>
    PROVE  IInv'
<1>1. Moves(th, "found")
    BY GoMoves DEF IInv, TypeOK, Places, Registering, LookingUp
<1>2. /\ \A u \in Threads : u # th => thread'[u] = thread[u]
      /\ ~In(th, Linking) /\ ~In(th, Linking)'
    BY <1>1 DEF Moves, Moved, In, At, Linking
<1>3. UNCHANGED <<slotVars, edgeVars>>
    OBVIOUS
<1>4. UNCHANGED <<lifecycle, slotLabel, ownerHead, gate, edges, nextEdge, inverseHead>>
    BY <1>3 DEF slotVars, edgeVars
<1>5. /\ \A s : Ready(s)' <=> Ready(s)
      /\ \A s, l : Holds(s, l)' <=> Holds(s, l)
      /\ \A s, l : Cleared(l, s)' <=> Cleared(l, s)
    BY <1>4, SlotsSame
<1>6. /\ \A s : OwnerSet(s)' = OwnerSet(s)
      /\ \A k : UserSet(k)' = UserSet(k)
    BY <1>2, <1>4, SetsSame
<1>7. \A e, s, k : EdgeOf(e, s, k)' <=> EdgeOf(e, s, k)
    BY <1>4, EdgesSame
<1>8. TypeOK'
    BY <1>1, <1>4 DEF IInv, TypeOK, Moves, Moved
<1>9. Arguments'
    BY <1>1 DEF IInv, Arguments, Moves, Moved, In, At, Registering
<1>10. Claims'
    BY <1>1, <1>4 DEF IInv, Claims, Moves, Moved, In, At
<1>11. Placed'
    BY <1>4, <1>5 DEF IInv, Placed
<1>12. Probed'
    BY <1>1, <1>5 DEF IInv, Probed, Moves, Moved, In, At, Probing
<1>13. Located'
    BY <1>1, <1>5 DEF IInv, Located, Moves, Moved, In, At, Holding, Linking
<1>14. Gated'
    BY <1>1, <1>4 DEF IInv, Gated, Moves, Moved, In, At, Holding, Linking
<1>15. Asked'
    BY <1>1, <1>7 DEF IInv, Asked, Moves, Moved, At
<1>16. Answered'
    BY <1>1, <1>4, <1>6 DEF IInv, Answered, Moves, Moved, At
<1>17. Kept'
    BY <1>4, <1>5, <1>6 DEF IInv, Kept
<1>18. Owed'
    BY <1>1 DEF IInv, Owed, Moves, Moved, In, At, LookingUp
<1>19. Reserved' /\ EdgesNamed' /\ OwnerLists' /\ UserLists' /\ OneEdgePerOwner'
    BY <1>2, <1>3, <1>4, <1>5, EdgesUntouched
<1> QED
    BY <1>8, <1>9, <1>10, <1>11, <1>12, <1>13, <1>14, <1>15,
       <1>16, <1>17, <1>18, <1>19 DEF IInv

LEMMA LookupMissesInv ==
    ASSUME IInv, NEW th \in Threads, At(th, "lookup"), Go(th, "missed"),
           ~thread[th].owed,
           UNCHANGED <<slotVars, edgeVars, calls, registered>>
    PROVE  IInv'
<1>1. Moves(th, "missed")
    BY GoMoves DEF IInv, TypeOK, Places, Registering, LookingUp
<1>2. /\ \A u \in Threads : u # th => thread'[u] = thread[u]
      /\ ~In(th, Linking) /\ ~In(th, Linking)'
    BY <1>1 DEF Moves, Moved, In, At, Linking
<1>3. UNCHANGED <<slotVars, edgeVars>>
    OBVIOUS
<1>4. UNCHANGED <<lifecycle, slotLabel, ownerHead, gate, edges, nextEdge, inverseHead>>
    BY <1>3 DEF slotVars, edgeVars
<1>5. /\ \A s : Ready(s)' <=> Ready(s)
      /\ \A s, l : Holds(s, l)' <=> Holds(s, l)
      /\ \A s, l : Cleared(l, s)' <=> Cleared(l, s)
    BY <1>4, SlotsSame
<1>6. /\ \A s : OwnerSet(s)' = OwnerSet(s)
      /\ \A k : UserSet(k)' = UserSet(k)
    BY <1>2, <1>4, SetsSame
<1>7. \A e, s, k : EdgeOf(e, s, k)' <=> EdgeOf(e, s, k)
    BY <1>4, EdgesSame
<1>8. TypeOK'
    BY <1>1, <1>4 DEF IInv, TypeOK, Moves, Moved
<1>9. Arguments'
    BY <1>1 DEF IInv, Arguments, Moves, Moved, In, At, Registering
<1>10. Claims'
    BY <1>1, <1>4 DEF IInv, Claims, Moves, Moved, In, At
<1>11. Placed'
    BY <1>4, <1>5 DEF IInv, Placed
<1>12. Probed'
    BY <1>1, <1>5 DEF IInv, Probed, Moves, Moved, In, At, Probing
<1>13. Located'
    BY <1>1, <1>5 DEF IInv, Located, Moves, Moved, In, At, Holding, Linking
<1>14. Gated'
    BY <1>1, <1>4 DEF IInv, Gated, Moves, Moved, In, At, Holding, Linking
<1>15. Asked'
    BY <1>1, <1>7 DEF IInv, Asked, Moves, Moved, At
<1>16. Answered'
    BY <1>1, <1>4, <1>6 DEF IInv, Answered, Moves, Moved, At
<1>17. Kept'
    BY <1>4, <1>5, <1>6 DEF IInv, Kept
<1>18. Owed'
    BY <1>1 DEF IInv, Owed, Moves, Moved, In, At, LookingUp
<1>19. Reserved' /\ EdgesNamed' /\ OwnerLists' /\ UserLists' /\ OneEdgePerOwner'
    BY <1>2, <1>3, <1>4, <1>5, EdgesUntouched
<1> QED
    BY <1>8, <1>9, <1>10, <1>11, <1>12, <1>13, <1>14, <1>15,
       <1>16, <1>17, <1>18, <1>19 DEF IInv

LEMMA CheckOwnedInv ==
    ASSUME IInv, NEW th \in Threads, At(th, "check"), Go(th, "return"),
           \E e \in UserSet(thread[th].token) : edges[e].task = thread[th].slot,
           UNCHANGED <<slotVars, edgeVars, calls, registered>>
    PROVE  IInv'
<1>1. Moves(th, "return")
    BY GoMoves DEF IInv, TypeOK, Places, Registering, LookingUp
<1>2. /\ \A u \in Threads : u # th => thread'[u] = thread[u]
      /\ ~In(th, Linking) /\ ~In(th, Linking)'
    BY <1>1 DEF Moves, Moved, In, At, Linking
<1>3. UNCHANGED <<slotVars, edgeVars>>
    OBVIOUS
<1>4. UNCHANGED <<lifecycle, slotLabel, ownerHead, gate, edges, nextEdge, inverseHead>>
    BY <1>3 DEF slotVars, edgeVars
<1>5. /\ \A s : Ready(s)' <=> Ready(s)
      /\ \A s, l : Holds(s, l)' <=> Holds(s, l)
      /\ \A s, l : Cleared(l, s)' <=> Cleared(l, s)
    BY <1>4, SlotsSame
<1>6. /\ \A s : OwnerSet(s)' = OwnerSet(s)
      /\ \A k : UserSet(k)' = UserSet(k)
    BY <1>2, <1>4, SetsSame
<1>7. \A e, s, k : EdgeOf(e, s, k)' <=> EdgeOf(e, s, k)
    BY <1>4, EdgesSame
<1>8. TypeOK'
    BY <1>1, <1>4 DEF IInv, TypeOK, Moves, Moved
<1>9. Arguments'
    BY <1>1 DEF IInv, Arguments, Moves, Moved, In, At, Registering
<1>10. Claims'
    BY <1>1, <1>4 DEF IInv, Claims, Moves, Moved, In, At
<1>11. Placed'
    BY <1>4, <1>5 DEF IInv, Placed
<1>12. Probed'
    BY <1>1, <1>5 DEF IInv, Probed, Moves, Moved, In, At, Probing
<1>13. Located'
    BY <1>1, <1>5 DEF IInv, Located, Moves, Moved, In, At, Holding, Linking
<1>14. Gated'
    BY <1>1, <1>4 DEF IInv, Gated, Moves, Moved, In, At, Holding, Linking
<1>15. Asked'
    BY <1>1, <1>7 DEF IInv, Asked, Moves, Moved, At
<1>16. Answered'
    BY <1>1, <1>4, <1>6 DEF IInv, Answered, Moves, Moved, At
<1>17. Kept'
    BY <1>4, <1>5, <1>6 DEF IInv, Kept
<1>18. Owed'
    BY <1>1 DEF IInv, Owed, Moves, Moved, In, At, LookingUp
<1>19. Reserved' /\ EdgesNamed' /\ OwnerLists' /\ UserLists' /\ OneEdgePerOwner'
    BY <1>2, <1>3, <1>4, <1>5, EdgesUntouched
<1> QED
    BY <1>8, <1>9, <1>10, <1>11, <1>12, <1>13, <1>14, <1>15,
       <1>16, <1>17, <1>18, <1>19 DEF IInv

LEMMA CheckNotOwnedInv ==
    ASSUME IInv, NEW th \in Threads, At(th, "check"), Go(th, "reserve"),
           \A e \in EdgeIds : ~EdgeOf(e, thread[th].slot, thread[th].token),
           UNCHANGED <<slotVars, edgeVars, calls, registered>>
    PROVE  IInv'
<1>1. Moves(th, "reserve")
    BY GoMoves DEF IInv, TypeOK, Places, Registering, LookingUp
<1>2. /\ \A u \in Threads : u # th => thread'[u] = thread[u]
      /\ ~In(th, Linking) /\ ~In(th, Linking)'
    BY <1>1 DEF Moves, Moved, In, At, Linking
<1>3. UNCHANGED <<slotVars, edgeVars>>
    OBVIOUS
<1>4. UNCHANGED <<lifecycle, slotLabel, ownerHead, gate, edges, nextEdge, inverseHead>>
    BY <1>3 DEF slotVars, edgeVars
<1>5. /\ \A s : Ready(s)' <=> Ready(s)
      /\ \A s, l : Holds(s, l)' <=> Holds(s, l)
      /\ \A s, l : Cleared(l, s)' <=> Cleared(l, s)
    BY <1>4, SlotsSame
<1>6. /\ \A s : OwnerSet(s)' = OwnerSet(s)
      /\ \A k : UserSet(k)' = UserSet(k)
    BY <1>2, <1>4, SetsSame
<1>7. \A e, s, k : EdgeOf(e, s, k)' <=> EdgeOf(e, s, k)
    BY <1>4, EdgesSame
<1>8. TypeOK'
    BY <1>1, <1>4 DEF IInv, TypeOK, Moves, Moved
<1>9. Arguments'
    BY <1>1 DEF IInv, Arguments, Moves, Moved, In, At, Registering
<1>10. Claims'
    BY <1>1, <1>4 DEF IInv, Claims, Moves, Moved, In, At
<1>11. Placed'
    BY <1>4, <1>5 DEF IInv, Placed
<1>12. Probed'
    BY <1>1, <1>5 DEF IInv, Probed, Moves, Moved, In, At, Probing
<1>13. Located'
    BY <1>1, <1>5 DEF IInv, Located, Moves, Moved, In, At, Holding, Linking
<1>14. Gated'
    BY <1>1, <1>4 DEF IInv, Gated, Moves, Moved, In, At, Holding, Linking
<1>15. Asked'
    BY <1>1, <1>7 DEF IInv, Asked, Moves, Moved, At
<1>16. Answered'
    BY <1>1, <1>4, <1>6 DEF IInv, Answered, Moves, Moved, At
<1>17. Kept'
    BY <1>4, <1>5, <1>6 DEF IInv, Kept
<1>18. Owed'
    BY <1>1 DEF IInv, Owed, Moves, Moved, In, At, LookingUp
<1>19. Reserved' /\ EdgesNamed' /\ OwnerLists' /\ UserLists' /\ OneEdgePerOwner'
    BY <1>2, <1>3, <1>4, <1>5, EdgesUntouched
<1> QED
    BY <1>8, <1>9, <1>10, <1>11, <1>12, <1>13, <1>14, <1>15,
       <1>16, <1>17, <1>18, <1>19 DEF IInv

LEMMA HomeClear ==
    ASSUME NEW l \in Labels
    PROVE  Home[l] \in Slots /\ Passed(l, Home[l]) = {}
<1> DEFINE h == Home[l]
<1>1. h \in Slots
    BY DEF Slots
<1> HIDE DEF h
<1>2. \A q \in Slots : Distance(h, q) \in 0 .. Capacity - 1
    BY <1>1, DistanceType
<1>3. Distance(h, h) = 0
    BY <1>1 DEF Distance, Slots
<1>4. \A q \in Slots : ~(Distance(h, q) < Distance(h, h))
    BY <1>2, <1>3
<1> QED
    BY <1>1, <1>4 DEF Passed, h

\* A call begins and ends, and a probe goes on to the next slot.
LEMMA BeginRegisterInv ==
    ASSUME IInv, NEW th \in Threads,
           NEW l \in Labels, NEW k \in Tokens, At(th, "idle"),
           Moved(th, "probe", l, k, Home[l], NoLink, NoLink, FALSE),
           calls' \in [Threads -> 0 .. MaxCalls], UNCHANGED <<slotVars, edgeVars, registered>>
    PROVE  IInv'
<1>1. Moved(th, "probe", l, k, Home[l], NoLink, NoLink, FALSE)
    BY DEF Moves
<1>2. /\ \A u \in Threads : u # th => thread'[u] = thread[u]
      /\ ~In(th, Linking) /\ ~In(th, Linking)'
    BY <1>1 DEF Moved, In, At, Linking
<1>4. UNCHANGED <<lifecycle, slotLabel, ownerHead, gate, edges, nextEdge, inverseHead>>
    BY DEF slotVars, edgeVars
<1>5. /\ \A s : Ready(s)' <=> Ready(s)
      /\ \A s, m : Holds(s, m)' <=> Holds(s, m)
      /\ \A s, m : Cleared(m, s)' <=> Cleared(m, s)
    BY <1>4, SlotsSame
<1>6. /\ \A s : OwnerSet(s)' = OwnerSet(s)
      /\ \A t : UserSet(t)' = UserSet(t)
    BY <1>2, <1>4, SetsSame
<1>7. \A e, s, t : EdgeOf(e, s, t)' <=> EdgeOf(e, s, t)
    BY <1>4, EdgesSame
<1>8. TypeOK'
    BY <1>1, <1>4 DEF IInv, TypeOK, Moved
<1>9. Arguments'
    BY <1>1 DEF IInv, Arguments, Moved, In, At, Registering
<1>10. Claims'
    BY <1>1, <1>4 DEF IInv, Claims, Moved, In, At
<1>11. Placed'
    BY <1>4, <1>5 DEF IInv, Placed
<1>12. Probed'
    BY <1>1, <1>5, HomeClear DEF IInv, Probed, Moved, In, At, Probing, Cleared
<1>13. Located'
    BY <1>1, <1>5 DEF IInv, Located, Moved, In, At, Holding, Linking
<1>14. Gated'
    BY <1>1, <1>4 DEF IInv, Gated, Moved, In, At, Holding, Linking
<1>15. Asked'
    BY <1>1, <1>7 DEF IInv, Asked, Moved, At
<1>16. Answered'
    BY <1>1, <1>4, <1>6 DEF IInv, Answered, Moved, At
<1>17. Kept'
    BY <1>4, <1>5, <1>6 DEF IInv, Kept
<1>18. Owed'
    BY <1>1 DEF IInv, Owed, Moved, In, At, LookingUp
<1>19. Reserved' /\ EdgesNamed' /\ OwnerLists' /\ UserLists' /\ OneEdgePerOwner'
    BY <1>2, <1>4, <1>5, EdgesUntouched DEF edgeVars
<1> QED
    BY <1>8, <1>9, <1>10, <1>11, <1>12, <1>13, <1>14, <1>15,
       <1>16, <1>17, <1>18, <1>19 DEF IInv

LEMMA BeginLookupInv ==
    ASSUME IInv, NEW th \in Threads,
           NEW l \in Labels, At(th, "idle"),
           Moved(th, "lookup", l, None, Home[l], NoLink, NoLink, \E r \in registered : r.label = l),
           calls' \in [Threads -> 0 .. MaxCalls], UNCHANGED <<slotVars, edgeVars, registered>>
    PROVE  IInv'
<1>1. Moved(th, "lookup", l, None, Home[l], NoLink, NoLink, \E r \in registered : r.label = l)
    BY DEF Moves
<1>2. /\ \A u \in Threads : u # th => thread'[u] = thread[u]
      /\ ~In(th, Linking) /\ ~In(th, Linking)'
    BY <1>1 DEF Moved, In, At, Linking
<1>4. UNCHANGED <<lifecycle, slotLabel, ownerHead, gate, edges, nextEdge, inverseHead>>
    BY DEF slotVars, edgeVars
<1>5. /\ \A s : Ready(s)' <=> Ready(s)
      /\ \A s, m : Holds(s, m)' <=> Holds(s, m)
      /\ \A s, m : Cleared(m, s)' <=> Cleared(m, s)
    BY <1>4, SlotsSame
<1>6. /\ \A s : OwnerSet(s)' = OwnerSet(s)
      /\ \A k : UserSet(k)' = UserSet(k)
    BY <1>2, <1>4, SetsSame
<1>7. \A e, s, k : EdgeOf(e, s, k)' <=> EdgeOf(e, s, k)
    BY <1>4, EdgesSame
<1>8. TypeOK'
    BY <1>1, <1>4 DEF IInv, TypeOK, Moved
<1>9. Arguments'
    BY <1>1 DEF IInv, Arguments, Moved, In, At, Registering
<1>10. Claims'
    BY <1>1, <1>4 DEF IInv, Claims, Moved, In, At
<1>11. Placed'
    BY <1>4, <1>5 DEF IInv, Placed
<1>12. Probed'
    BY <1>1, <1>5, HomeClear DEF IInv, Probed, Moved, In, At, Probing, Cleared
<1>13. Located'
    BY <1>1, <1>5 DEF IInv, Located, Moved, In, At, Holding, Linking
<1>14. Gated'
    BY <1>1, <1>4 DEF IInv, Gated, Moved, In, At, Holding, Linking
<1>15. Asked'
    BY <1>1, <1>7 DEF IInv, Asked, Moved, At
<1>16. Answered'
    BY <1>1, <1>4, <1>6 DEF IInv, Answered, Moved, At
<1>17. Kept'
    BY <1>4, <1>5, <1>6 DEF IInv, Kept
<1>18. Owed'
    BY <1>1 DEF IInv, Owed, Moved, In, At, LookingUp
<1>19. Reserved' /\ EdgesNamed' /\ OwnerLists' /\ UserLists' /\ OneEdgePerOwner'
    BY <1>2, <1>4, <1>5, EdgesUntouched DEF edgeVars
<1> QED
    BY <1>8, <1>9, <1>10, <1>11, <1>12, <1>13, <1>14, <1>15,
       <1>16, <1>17, <1>18, <1>19 DEF IInv

LEMMA ProbeNextInv ==
    ASSUME IInv, NEW th \in Threads,
           NEW next \in Slots, At(th, "probe"), Cleared(thread[th].label, next),
           Moved(th, "probe", thread[th].label, thread[th].token,
                 next, thread[th].edge, thread[th].head, thread[th].owed),
           UNCHANGED <<slotVars, edgeVars, calls, registered>>
    PROVE  IInv'
<1>1. Moved(th, "probe", thread[th].label, thread[th].token,
            next, thread[th].edge, thread[th].head, thread[th].owed)
    BY DEF Moves
<1>2. /\ \A u \in Threads : u # th => thread'[u] = thread[u]
      /\ ~In(th, Linking) /\ ~In(th, Linking)'
    BY <1>1 DEF Moved, In, At, Linking
<1>4. UNCHANGED <<lifecycle, slotLabel, ownerHead, gate, edges, nextEdge, inverseHead>>
    BY DEF slotVars, edgeVars
<1>5. /\ \A s : Ready(s)' <=> Ready(s)
      /\ \A s, l : Holds(s, l)' <=> Holds(s, l)
      /\ \A s, l : Cleared(l, s)' <=> Cleared(l, s)
    BY <1>4, SlotsSame
<1>6. /\ \A s : OwnerSet(s)' = OwnerSet(s)
      /\ \A k : UserSet(k)' = UserSet(k)
    BY <1>2, <1>4, SetsSame
<1>7. \A e, s, k : EdgeOf(e, s, k)' <=> EdgeOf(e, s, k)
    BY <1>4, EdgesSame
<1>8. TypeOK'
    BY <1>1, <1>4 DEF IInv, TypeOK, Moved
<1>9. Arguments'
    BY <1>1 DEF IInv, Arguments, Moved, In, At, Registering
<1>10. Claims'
    BY <1>1, <1>4 DEF IInv, Claims, Moved, In, At
<1>11. Placed'
    BY <1>4, <1>5 DEF IInv, Placed
<1>12. Probed'
    BY <1>1, <1>5 DEF IInv, Probed, Moved, In, At, Probing
<1>13. Located'
    BY <1>1, <1>5 DEF IInv, Located, Moved, In, At, Holding, Linking
<1>14. Gated'
    BY <1>1, <1>4 DEF IInv, Gated, Moved, In, At, Holding, Linking
<1>15. Asked'
    BY <1>1, <1>7 DEF IInv, Asked, Moved, At
<1>16. Answered'
    BY <1>1, <1>4, <1>6 DEF IInv, Answered, Moved, At
<1>17. Kept'
    BY <1>4, <1>5, <1>6 DEF IInv, Kept
<1>18. Owed'
    BY <1>1 DEF IInv, Owed, Moved, In, At, LookingUp
<1>19. Reserved' /\ EdgesNamed' /\ OwnerLists' /\ UserLists' /\ OneEdgePerOwner'
    BY <1>2, <1>4, <1>5, EdgesUntouched DEF edgeVars
<1> QED
    BY <1>8, <1>9, <1>10, <1>11, <1>12, <1>13, <1>14, <1>15,
       <1>16, <1>17, <1>18, <1>19 DEF IInv

LEMMA LookupNextInv ==
    ASSUME IInv, NEW th \in Threads,
           NEW next \in Slots, At(th, "lookup"), Cleared(thread[th].label, next),
           Moved(th, "lookup", thread[th].label, thread[th].token,
                 next, thread[th].edge, thread[th].head, thread[th].owed),
           UNCHANGED <<slotVars, edgeVars, calls, registered>>
    PROVE  IInv'
<1>1. Moved(th, "lookup", thread[th].label, thread[th].token,
            next, thread[th].edge, thread[th].head, thread[th].owed)
    BY DEF Moves
<1>2. /\ \A u \in Threads : u # th => thread'[u] = thread[u]
      /\ ~In(th, Linking) /\ ~In(th, Linking)'
    BY <1>1 DEF Moved, In, At, Linking
<1>4. UNCHANGED <<lifecycle, slotLabel, ownerHead, gate, edges, nextEdge, inverseHead>>
    BY DEF slotVars, edgeVars
<1>5. /\ \A s : Ready(s)' <=> Ready(s)
      /\ \A s, l : Holds(s, l)' <=> Holds(s, l)
      /\ \A s, l : Cleared(l, s)' <=> Cleared(l, s)
    BY <1>4, SlotsSame
<1>6. /\ \A s : OwnerSet(s)' = OwnerSet(s)
      /\ \A k : UserSet(k)' = UserSet(k)
    BY <1>2, <1>4, SetsSame
<1>7. \A e, s, k : EdgeOf(e, s, k)' <=> EdgeOf(e, s, k)
    BY <1>4, EdgesSame
<1>8. TypeOK'
    BY <1>1, <1>4 DEF IInv, TypeOK, Moved
<1>9. Arguments'
    BY <1>1 DEF IInv, Arguments, Moved, In, At, Registering
<1>10. Claims'
    BY <1>1, <1>4 DEF IInv, Claims, Moved, In, At
<1>11. Placed'
    BY <1>4, <1>5 DEF IInv, Placed
<1>12. Probed'
    BY <1>1, <1>5 DEF IInv, Probed, Moved, In, At, Probing
<1>13. Located'
    BY <1>1, <1>5 DEF IInv, Located, Moved, In, At, Holding, Linking
<1>14. Gated'
    BY <1>1, <1>4 DEF IInv, Gated, Moved, In, At, Holding, Linking
<1>15. Asked'
    BY <1>1, <1>7 DEF IInv, Asked, Moved, At
<1>16. Answered'
    BY <1>1, <1>4, <1>6 DEF IInv, Answered, Moved, At
<1>17. Kept'
    BY <1>4, <1>5, <1>6 DEF IInv, Kept
<1>18. Owed'
    BY <1>1 DEF IInv, Owed, Moved, In, At, LookingUp
<1>19. Reserved' /\ EdgesNamed' /\ OwnerLists' /\ UserLists' /\ OneEdgePerOwner'
    BY <1>2, <1>4, <1>5, EdgesUntouched DEF edgeVars
<1> QED
    BY <1>8, <1>9, <1>10, <1>11, <1>12, <1>13, <1>14, <1>15,
       <1>16, <1>17, <1>18, <1>19 DEF IInv

LEMMA ReturnInv ==
    ASSUME IInv, NEW th \in Threads,
           thread[th].pc \in {"fail", "found", "missed"},
           Moved(th, "idle", None, None, 0, NoLink, NoLink, FALSE),
           UNCHANGED <<slotVars, edgeVars, calls, registered>>
    PROVE  IInv'
<1>1. Moved(th, "idle", None, None, 0, NoLink, NoLink, FALSE)
    BY DEF Moves
<1>2. /\ \A u \in Threads : u # th => thread'[u] = thread[u]
      /\ ~In(th, Linking) /\ ~In(th, Linking)'
    BY <1>1 DEF Moved, In, At, Linking
<1>4. UNCHANGED <<lifecycle, slotLabel, ownerHead, gate, edges, nextEdge, inverseHead>>
    BY DEF slotVars, edgeVars
<1>5. /\ \A s : Ready(s)' <=> Ready(s)
      /\ \A s, l : Holds(s, l)' <=> Holds(s, l)
      /\ \A s, l : Cleared(l, s)' <=> Cleared(l, s)
    BY <1>4, SlotsSame
<1>6. /\ \A s : OwnerSet(s)' = OwnerSet(s)
      /\ \A k : UserSet(k)' = UserSet(k)
    BY <1>2, <1>4, SetsSame
<1>7. \A e, s, k : EdgeOf(e, s, k)' <=> EdgeOf(e, s, k)
    BY <1>4, EdgesSame
<1>8. TypeOK'
    BY <1>1, <1>4 DEF IInv, TypeOK, Moved
<1>9. Arguments'
    BY <1>1 DEF IInv, Arguments, Moved, In, At, Registering
<1>10. Claims'
    BY <1>1, <1>4 DEF IInv, Claims, Moved, In, At
<1>11. Placed'
    BY <1>4, <1>5 DEF IInv, Placed
<1>12. Probed'
    BY <1>1, <1>5 DEF IInv, Probed, Moved, In, At, Probing
<1>13. Located'
    BY <1>1, <1>5 DEF IInv, Located, Moved, In, At, Holding, Linking
<1>14. Gated'
    BY <1>1, <1>4 DEF IInv, Gated, Moved, In, At, Holding, Linking
<1>15. Asked'
    BY <1>1, <1>7 DEF IInv, Asked, Moved, At
<1>16. Answered'
    BY <1>1, <1>4, <1>6 DEF IInv, Answered, Moved, At
<1>17. Kept'
    BY <1>4, <1>5, <1>6 DEF IInv, Kept
<1>18. Owed'
    BY <1>1 DEF IInv, Owed, Moved, In, At, LookingUp
<1>19. Reserved' /\ EdgesNamed' /\ OwnerLists' /\ UserLists' /\ OneEdgePerOwner'
    BY <1>2, <1>4, <1>5, EdgesUntouched DEF edgeVars
<1> QED
    BY <1>8, <1>9, <1>10, <1>11, <1>12, <1>13, <1>14, <1>15,
       <1>16, <1>17, <1>18, <1>19 DEF IInv

\* The gate of a task opens and closes.
LEMMA GateClosesInv ==
    ASSUME IInv, NEW th \in Threads,
           At(th, "gate"), ~gate[thread[th].slot], Moves(th, "check"),
           gate' = [gate EXCEPT ![thread[th].slot] = TRUE],
           UNCHANGED <<lifecycle, slotLabel, ownerHead, edgeVars, calls, registered>>
    PROVE  IInv'
<1>1. Moved(th, "check", thread[th].label, thread[th].token,
            thread[th].slot, thread[th].edge, thread[th].head, thread[th].owed)
    BY DEF Moves
<1>2. /\ \A u \in Threads : u # th => thread'[u] = thread[u]
      /\ ~In(th, Linking) /\ ~In(th, Linking)'
    BY <1>1 DEF Moved, In, At, Linking
<1>4. UNCHANGED <<lifecycle, slotLabel, ownerHead, edges, nextEdge, inverseHead>>
    BY DEF slotVars, edgeVars
<1>5. /\ \A s : Ready(s)' <=> Ready(s)
      /\ \A s, l : Holds(s, l)' <=> Holds(s, l)
      /\ \A s, l : Cleared(l, s)' <=> Cleared(l, s)
    BY <1>4, SlotsSame
<1>6. /\ \A s : OwnerSet(s)' = OwnerSet(s)
      /\ \A k : UserSet(k)' = UserSet(k)
    BY <1>2, <1>4, SetsSame
<1>7. \A e, s, k : EdgeOf(e, s, k)' <=> EdgeOf(e, s, k)
    BY <1>4, EdgesSame
<1>8. TypeOK'
    BY <1>1, <1>4 DEF IInv, TypeOK, Moved
<1>9. Arguments'
    BY <1>1 DEF IInv, Arguments, Moved, In, At, Registering
<1>10. Claims'
    BY <1>1, <1>4 DEF IInv, Claims, Moved, In, At
<1>11. Placed'
    BY <1>4, <1>5 DEF IInv, Placed
<1>12. Probed'
    BY <1>1, <1>5 DEF IInv, Probed, Moved, In, At, Probing
<1>13. Located'
    BY <1>1, <1>5 DEF IInv, Located, Moved, In, At, Holding, Linking
<1>14. Gated'
    <2>1. \A u \in Threads : u # th /\ In(u, Holding)' =>
              In(u, Holding) /\ thread'[u].slot = thread[u].slot
        BY <1>1, <1>2 DEF In, Holding, Linking, Moved
    <2>2. thread'[th].slot = thread[th].slot
        BY <1>1 DEF Moved
    <2>3. \A u \in Threads : thread[u].slot \in Slots
        BY DEF IInv, TypeOK, Thread
    <2>4. /\ gate'[thread[th].slot]
          /\ \A s \in Slots : s # thread[th].slot => gate'[s] = gate[s]
        BY <2>3 DEF IInv, TypeOK
    <2>5. \A u \in Threads : In(u, Holding) => gate[thread[u].slot]
        BY DEF IInv, Gated
    <2>6. \A u, v \in Threads :
              In(u, Holding) /\ In(v, Holding) /\ thread[u].slot = thread[v].slot => u = v
        BY DEF IInv, Gated
    <2>7. \A u \in Threads : In(u, Holding)' => gate'[thread'[u].slot]
        BY <2>1, <2>2, <2>3, <2>4, <2>5
    <2>8. \A u, v \in Threads : In(u, Holding)' /\ In(v, Holding)'
                                /\ thread'[u].slot = thread'[v].slot => u = v
        BY <2>1, <2>2, <2>5, <2>6
    <2> QED
        BY <2>7, <2>8 DEF Gated
<1>15. Asked'
    BY <1>1, <1>7 DEF IInv, Asked, Moved, At
<1>16. Answered'
    BY <1>1, <1>4, <1>6 DEF IInv, Answered, Moved, At
<1>17. Kept'
    BY <1>4, <1>5, <1>6 DEF IInv, Kept
<1>18. Owed'
    BY <1>1 DEF IInv, Owed, Moved, In, At, LookingUp
<1>19. Reserved' /\ EdgesNamed' /\ OwnerLists' /\ UserLists' /\ OneEdgePerOwner'
    BY <1>2, <1>4, <1>5, EdgesUntouched DEF edgeVars
<1> QED
    BY <1>8, <1>9, <1>10, <1>11, <1>12, <1>13, <1>14, <1>15,
       <1>16, <1>17, <1>18, <1>19 DEF IInv

LEMMA GateOpensOnFailureInv ==
    ASSUME IInv, NEW th \in Threads,
           At(th, "reserve"), Moves(th, "fail"),
           gate' = [gate EXCEPT ![thread[th].slot] = FALSE],
           UNCHANGED <<lifecycle, slotLabel, ownerHead, edgeVars, calls, registered>>
    PROVE  IInv'
<1>1. Moved(th, "fail", thread[th].label, thread[th].token,
            thread[th].slot, thread[th].edge, thread[th].head, thread[th].owed)
    BY DEF Moves
<1>2. /\ \A u \in Threads : u # th => thread'[u] = thread[u]
      /\ ~In(th, Linking) /\ ~In(th, Linking)'
    BY <1>1 DEF Moved, In, At, Linking
<1>4. UNCHANGED <<lifecycle, slotLabel, ownerHead, edges, nextEdge, inverseHead>>
    BY DEF slotVars, edgeVars
<1>5. /\ \A s : Ready(s)' <=> Ready(s)
      /\ \A s, l : Holds(s, l)' <=> Holds(s, l)
      /\ \A s, l : Cleared(l, s)' <=> Cleared(l, s)
    BY <1>4, SlotsSame
<1>6. /\ \A s : OwnerSet(s)' = OwnerSet(s)
      /\ \A k : UserSet(k)' = UserSet(k)
    BY <1>2, <1>4, SetsSame
<1>7. \A e, s, k : EdgeOf(e, s, k)' <=> EdgeOf(e, s, k)
    BY <1>4, EdgesSame
<1>8. TypeOK'
    BY <1>1, <1>4 DEF IInv, TypeOK, Moved
<1>9. Arguments'
    BY <1>1 DEF IInv, Arguments, Moved, In, At, Registering
<1>10. Claims'
    BY <1>1, <1>4 DEF IInv, Claims, Moved, In, At
<1>11. Placed'
    BY <1>4, <1>5 DEF IInv, Placed
<1>12. Probed'
    BY <1>1, <1>5 DEF IInv, Probed, Moved, In, At, Probing
<1>13. Located'
    BY <1>1, <1>5 DEF IInv, Located, Moved, In, At, Holding, Linking
<1>14. Gated'
    <2>1. \A u \in Threads : In(u, Holding)' => /\ u # th /\ In(u, Holding)
                                                 /\ thread'[u].slot = thread[u].slot
        BY <1>1, <1>2 DEF In, Holding, Linking, Moved
    <2>2. In(th, Holding)
        BY DEF In, At, Holding
    <2>3. \A u \in Threads : thread[u].slot \in Slots
        BY DEF IInv, TypeOK, Thread
    <2>4. \A s \in Slots : s # thread[th].slot => gate'[s] = gate[s]
        BY DEF IInv, TypeOK
    <2>5. \A u \in Threads : In(u, Holding) => gate[thread[u].slot]
        BY DEF IInv, Gated
    <2>6. \A u, v \in Threads :
              In(u, Holding) /\ In(v, Holding) /\ thread[u].slot = thread[v].slot => u = v
        BY DEF IInv, Gated
    <2>7. \A u \in Threads : In(u, Holding)' => gate'[thread'[u].slot]
        BY <2>1, <2>2, <2>3, <2>4, <2>5, <2>6
    <2>8. \A u, v \in Threads : In(u, Holding)' /\ In(v, Holding)'
                                /\ thread'[u].slot = thread'[v].slot => u = v
        BY <2>1, <2>6
    <2> QED
        BY <2>7, <2>8 DEF Gated
<1>15. Asked'
    BY <1>1, <1>7 DEF IInv, Asked, Moved, At
<1>16. Answered'
    BY <1>1, <1>4, <1>6 DEF IInv, Answered, Moved, At
<1>17. Kept'
    BY <1>4, <1>5, <1>6 DEF IInv, Kept
<1>18. Owed'
    BY <1>1 DEF IInv, Owed, Moved, In, At, LookingUp
<1>19. Reserved' /\ EdgesNamed' /\ OwnerLists' /\ UserLists' /\ OneEdgePerOwner'
    BY <1>2, <1>4, <1>5, EdgesUntouched DEF edgeVars
<1> QED
    BY <1>8, <1>9, <1>10, <1>11, <1>12, <1>13, <1>14, <1>15,
       <1>16, <1>17, <1>18, <1>19 DEF IInv

LEMMA ReturnRegisteredInv ==
    ASSUME IInv, NEW th \in Threads,
           At(th, "return"), Moved(th, "idle", None, None, 0, NoLink, NoLink, FALSE),
           gate' = [gate EXCEPT ![thread[th].slot] = FALSE],
           registered' = registered \cup {[label |-> thread[th].label, token |-> thread[th].token,
                                          task |-> thread[th].slot]},
           UNCHANGED <<lifecycle, slotLabel, ownerHead, edgeVars, calls>>
    PROVE  IInv'
<1>1. Moved(th, "idle", None, None, 0, NoLink, NoLink, FALSE)
    BY DEF Moves
<1>2. /\ \A u \in Threads : u # th => thread'[u] = thread[u]
      /\ ~In(th, Linking) /\ ~In(th, Linking)'
    BY <1>1 DEF Moved, In, At, Linking
<1>4. UNCHANGED <<lifecycle, slotLabel, ownerHead, edges, nextEdge, inverseHead>>
    BY DEF slotVars, edgeVars
<1>5. /\ \A s : Ready(s)' <=> Ready(s)
      /\ \A s, l : Holds(s, l)' <=> Holds(s, l)
      /\ \A s, l : Cleared(l, s)' <=> Cleared(l, s)
    BY <1>4, SlotsSame
<1>6. /\ \A s : OwnerSet(s)' = OwnerSet(s)
      /\ \A k : UserSet(k)' = UserSet(k)
    BY <1>2, <1>4, SetsSame
<1>7. \A e, s, k : EdgeOf(e, s, k)' <=> EdgeOf(e, s, k)
    BY <1>4, EdgesSame
<1>8. TypeOK'
    <2>1. thread[th].label \in Labels /\ thread[th].token \in Tokens /\ thread[th].slot \in Slots
        BY DEF IInv, TypeOK, Arguments, In, At, Registering, Thread
    <2>2. registered' \subseteq [label : Labels, token : Tokens, task : Slots]
        BY <2>1 DEF IInv, TypeOK
    <2> QED
        BY <1>1, <1>4, <2>2 DEF IInv, TypeOK, Moved
<1>9. Arguments'
    BY <1>1 DEF IInv, Arguments, Moved, In, At, Registering
<1>10. Claims'
    BY <1>1, <1>4 DEF IInv, Claims, Moved, In, At
<1>11. Placed'
    BY <1>4, <1>5 DEF IInv, Placed
<1>12. Probed'
    BY <1>1, <1>5 DEF IInv, Probed, Moved, In, At, Probing
<1>13. Located'
    BY <1>1, <1>5 DEF IInv, Located, Moved, In, At, Holding, Linking
<1>14. Gated'
    <2>1. \A u \in Threads : In(u, Holding)' => /\ u # th /\ In(u, Holding)
                                                 /\ thread'[u].slot = thread[u].slot
        BY <1>1, <1>2 DEF In, Holding, Linking, Moved
    <2>2. In(th, Holding)
        BY DEF In, At, Holding
    <2>3. \A u \in Threads : thread[u].slot \in Slots
        BY DEF IInv, TypeOK, Thread
    <2>4. \A s \in Slots : s # thread[th].slot => gate'[s] = gate[s]
        BY DEF IInv, TypeOK
    <2>5. \A u \in Threads : In(u, Holding) => gate[thread[u].slot]
        BY DEF IInv, Gated
    <2>6. \A u, v \in Threads :
              In(u, Holding) /\ In(v, Holding) /\ thread[u].slot = thread[v].slot => u = v
        BY DEF IInv, Gated
    <2>7. \A u \in Threads : In(u, Holding)' => gate'[thread'[u].slot]
        BY <2>1, <2>2, <2>3, <2>4, <2>5, <2>6
    <2>8. \A u, v \in Threads : In(u, Holding)' /\ In(v, Holding)'
                                /\ thread'[u].slot = thread'[v].slot => u = v
        BY <2>1, <2>6
    <2> QED
        BY <2>7, <2>8 DEF Gated
<1>15. Asked'
    BY <1>1, <1>7 DEF IInv, Asked, Moved, At
<1>16. Answered'
    BY <1>1, <1>4, <1>6 DEF IInv, Answered, Moved, At
<1>17. Kept'
    <2>1. Holds(thread[th].slot, thread[th].label)
        BY DEF IInv, Located, In, At, Holding
    <2>2. \E e \in UserSet(thread[th].token) : edges[e].task = thread[th].slot
        BY DEF IInv, Answered
    <2> QED
        BY <1>4, <1>5, <1>6, <2>1, <2>2 DEF IInv, Kept
<1>18. Owed'
    BY <1>1 DEF IInv, Owed, Moved, In, At, LookingUp
<1>19. Reserved' /\ EdgesNamed' /\ OwnerLists' /\ UserLists' /\ OneEdgePerOwner'
    BY <1>2, <1>4, <1>5, EdgesUntouched DEF edgeVars
<1> QED
    BY <1>8, <1>9, <1>10, <1>11, <1>12, <1>13, <1>14, <1>15,
       <1>16, <1>17, <1>18, <1>19 DEF IInv

\* A slot is claimed, filled and published.
LEMMA SlotClaimedInv ==
    ASSUME IInv, NEW th \in Threads,
           At(th, "claimSlot"), lifecycle[thread[th].slot] = "EMPTY", Moves(th, "fill"),
           lifecycle' = [lifecycle EXCEPT ![thread[th].slot] = "WRITING"],
           UNCHANGED <<slotLabel, ownerHead, gate, edgeVars, calls, registered>>
    PROVE  IInv'
<1>1. Moved(th, "fill", thread[th].label, thread[th].token,
            thread[th].slot, thread[th].edge, thread[th].head, thread[th].owed)
    BY DEF Moves
<1>2. /\ \A u \in Threads : u # th => thread'[u] = thread[u]
      /\ ~In(th, Linking) /\ ~In(th, Linking)'
    BY <1>1 DEF Moved, In, At, Linking
<1>4. UNCHANGED <<slotLabel, ownerHead, gate, edges, nextEdge, inverseHead>>
    BY DEF slotVars, edgeVars
<1>5. /\ \A s \in Slots : Ready(s)' <=> Ready(s)
      /\ \A s \in Slots : \A l : Holds(s, l)' <=> Holds(s, l)
      /\ \A s \in Slots : \A l : Cleared(l, s)' <=> Cleared(l, s)
    <2>1. \A s \in Slots : Ready(s)' <=> Ready(s)
        BY DEF IInv, TypeOK, Ready
    <2> QED
        BY <1>4, <2>1 DEF Holds, Cleared, Passed
<1>6. /\ \A s : OwnerSet(s)' = OwnerSet(s)
      /\ \A k : UserSet(k)' = UserSet(k)
    BY <1>2, <1>4, SetsSame
<1>7. \A e, s, k : EdgeOf(e, s, k)' <=> EdgeOf(e, s, k)
    BY <1>4, EdgesSame
<1>8. TypeOK'
    BY <1>1, <1>4 DEF IInv, TypeOK, Moved
<1>9. Arguments'
    BY <1>1 DEF IInv, Arguments, Moved, In, At, Registering
<1>10. Claims'
    BY <1>1, <1>4 DEF IInv, TypeOK, Claims, Moved, In, At, Thread
<1>11. Placed'
    BY <1>4, <1>5 DEF IInv, Placed
<1>12. Probed'
    BY <1>1, <1>5 DEF IInv, TypeOK, Thread, Probed, Moved, In, At, Probing
<1>13. Located'
    BY <1>1, <1>5 DEF IInv, TypeOK, Thread, Arguments, Registering,
       Located, Moved, In, At, Holding, Linking
<1>14. Gated'
    BY <1>1, <1>4 DEF IInv, Gated, Moved, In, At, Holding, Linking
<1>15. Asked'
    BY <1>1, <1>7 DEF IInv, Asked, Moved, At
<1>16. Answered'
    BY <1>1, <1>4, <1>6 DEF IInv, Answered, Moved, At
<1>17. Kept'
    BY <1>4, <1>5, <1>6 DEF IInv, TypeOK, Kept
<1>18. Owed'
    BY <1>1 DEF IInv, Owed, Moved, In, At, LookingUp
<1>19. Reserved' /\ EdgesNamed' /\ OwnerLists' /\ UserLists' /\ OneEdgePerOwner'
    BY <1>2, <1>4, <1>5, EdgesUntouched DEF edgeVars
<1> QED
    BY <1>8, <1>9, <1>10, <1>11, <1>12, <1>13, <1>14, <1>15,
       <1>16, <1>17, <1>18, <1>19 DEF IInv

LEMMA SlotFilledInv ==
    ASSUME IInv, NEW th \in Threads,
           At(th, "fill"), Moves(th, "publish"),
           slotLabel' = [slotLabel EXCEPT ![thread[th].slot] = thread[th].label],
           ownerHead' = [ownerHead EXCEPT ![thread[th].slot] = NoLink],
           UNCHANGED <<lifecycle, gate, edgeVars, calls, registered>>
    PROVE  IInv'
<1>1. Moved(th, "publish", thread[th].label, thread[th].token,
            thread[th].slot, thread[th].edge, thread[th].head, thread[th].owed)
    BY DEF Moves
<1>2. /\ \A u \in Threads : u # th => thread'[u] = thread[u]
      /\ ~In(th, Linking) /\ ~In(th, Linking)'
    BY <1>1 DEF Moved, In, At, Linking
<1>4. UNCHANGED <<lifecycle, gate, edges, nextEdge, inverseHead>>
    BY DEF slotVars, edgeVars
<1>5. /\ \A s \in Slots : Ready(s)' <=> Ready(s)
      /\ \A s \in Slots : Ready(s) => slotLabel'[s] = slotLabel[s]
      /\ \A s \in Slots : \A l : Holds(s, l)' <=> Holds(s, l)
      /\ \A s \in Slots : \A l : Cleared(l, s)' <=> Cleared(l, s)
    <2>1. \A s \in Slots : Ready(s)' <=> Ready(s)
        BY DEF Ready
    <2>2. ~Ready(thread[th].slot)
        BY DEF IInv, Claims, In, At, Ready
    <2>3. \A s \in Slots : Ready(s) => slotLabel'[s] = slotLabel[s]
        BY <2>2 DEF IInv, TypeOK
    <2> QED
        BY <2>1, <2>3 DEF Holds, Cleared, Passed
<1>6. /\ \A s : OwnerSet(s)' = OwnerSet(s)
      /\ \A k : UserSet(k)' = UserSet(k)
    BY <1>2, <1>4, SetsSame
<1>7. \A e, s, k : EdgeOf(e, s, k)' <=> EdgeOf(e, s, k)
    BY <1>4, EdgesSame
<1>8. TypeOK'
    <2>1. thread[th].label \in Labels /\ thread[th].slot \in Slots /\ NoLink \in Links
        BY DEF IInv, TypeOK, Arguments, At, Thread, Links
    <2>2. slotLabel' \in [Slots -> Labels \cup {None}] /\ ownerHead' \in [Slots -> Links]
        BY <2>1 DEF IInv, TypeOK
    <2> QED
        BY <1>1, <1>4, <2>2 DEF IInv, TypeOK, Moved
<1>9. Arguments'
    BY <1>1 DEF IInv, Arguments, Moved, In, At, Registering
<1>10. Claims'
    <2>1. \A u \in Threads : /\ In(u, {"fill", "publish"})' <=> In(u, {"fill", "publish"})
                             /\ thread'[u].slot = thread[u].slot
                             /\ thread'[u].label = thread[u].label
                             /\ u # th => (At(u, "publish")' <=> At(u, "publish"))
        BY <1>1, <1>2 DEF In, At, Moved
    <2>2. \A u \in Threads : thread[u].slot \in Slots
        BY DEF IInv, TypeOK, Thread
    <2>3. /\ slotLabel'[thread[th].slot] = thread[th].label
          /\ \A s \in Slots : s # thread[th].slot => slotLabel'[s] = slotLabel[s]
        BY <2>2 DEF IInv, TypeOK
    <2>4. \A u \in Threads : At(u, "publish") => In(u, {"fill", "publish"})
        BY DEF At, In
    <2>5. In(th, {"fill", "publish"})
        BY DEF At, In
    <2>6. \A u \in Threads :
              At(u, "publish")' => slotLabel'[thread'[u].slot] = thread'[u].label
        BY <2>1, <2>2, <2>3, <2>4, <2>5 DEF IInv, Claims
    <2> QED
        BY <1>4, <2>1, <2>6 DEF IInv, Claims
<1>11. Placed'
    BY <1>4, <1>5 DEF IInv, Placed
<1>12. Probed'
    BY <1>1, <1>5 DEF IInv, TypeOK, Thread, Probed, Moved, In, At, Probing
<1>13. Located'
    BY <1>1, <1>5 DEF IInv, TypeOK, Thread, Located, Moved, In, At, Holding, Linking
<1>14. Gated'
    BY <1>1, <1>4 DEF IInv, Gated, Moved, In, At, Holding, Linking
<1>15. Asked'
    BY <1>1, <1>7 DEF IInv, Asked, Moved, At
<1>16. Answered'
    BY <1>1, <1>4, <1>6 DEF IInv, Answered, Moved, At
<1>17. Kept'
    BY <1>4, <1>5, <1>6 DEF IInv, TypeOK, Kept
<1>18. Owed'
    BY <1>1 DEF IInv, Owed, Moved, In, At, LookingUp
<1>19. Reserved' /\ EdgesNamed' /\ OwnerLists' /\ UserLists' /\ OneEdgePerOwner'
    <2>1. Reserved'
        BY <1>2, <1>4, <1>7 DEF IInv, Reserved, In, At, Linking
    <2>2. EdgesNamed' /\ OneEdgePerOwner'
        BY <1>4 DEF IInv, EdgesNamed, OneEdgePerOwner, Drawn, Ready
    <2>3. NextTasks' = NextTasks /\ NextUsers' = NextUsers
        BY <1>4, EdgesSame
    <2>4. UserLists'
        BY <1>4, <1>6, <2>3 DEF IInv, UserLists
    <2>5. ~Ready(thread[th].slot)
        BY DEF IInv, Claims, In, At, Ready
    <2>6. OwnerSet(thread[th].slot) = {}
        BY <2>5 DEF OwnerSet, IInv, EdgesNamed
    <2>7. ASSUME NEW s \in Slots
          PROVE  Chain(ownerHead[s], NextTasks, OwnerSet(s))'
        <3>1. CASE s = thread[th].slot
            <4>1. ownerHead'[s] = NoLink
                BY <3>1 DEF IInv, TypeOK
            <4>2. OwnerSet(s)' = {}
                BY <1>6, <2>6, <3>1
            <4>3. Chain(NoLink, NextTasks, {})
                BY ChainEmpty
            <4> QED
                BY <2>3, <4>1, <4>2, <4>3
        <3>2. CASE s # thread[th].slot
            <4>1. ownerHead'[s] = ownerHead[s]
                BY <3>2 DEF IInv, TypeOK
            <4> QED
                BY <1>6, <2>3, <4>1 DEF IInv, OwnerLists
        <3> QED
            BY <3>1, <3>2
    <2>8. OwnerLists'
        BY <2>7 DEF OwnerLists
    <2> QED
        BY <2>1, <2>2, <2>4, <2>8
<1> QED
    BY <1>8, <1>9, <1>10, <1>11, <1>12, <1>13, <1>14, <1>15,
       <1>16, <1>17, <1>18, <1>19 DEF IInv

LEMMA SlotPublishedInv ==
    ASSUME IInv, NEW th \in Threads,
           At(th, "publish"), Moves(th, "gate"),
           lifecycle' = [lifecycle EXCEPT ![thread[th].slot] = "READY"],
           UNCHANGED <<slotLabel, ownerHead, gate, edgeVars, calls, registered>>
    PROVE  IInv'
<1>1. Moved(th, "gate", thread[th].label, thread[th].token,
            thread[th].slot, thread[th].edge, thread[th].head, thread[th].owed)
    BY DEF Moves
<1>2. /\ \A u \in Threads : u # th => thread'[u] = thread[u]
      /\ ~In(th, Linking) /\ ~In(th, Linking)'
    BY <1>1 DEF Moved, In, At, Linking
<1>4. UNCHANGED <<slotLabel, ownerHead, gate, edges, nextEdge, inverseHead>>
    BY DEF slotVars, edgeVars
<1>5. /\ \A s \in Slots : Ready(s) => Ready(s)'
      /\ \A s \in Slots : \A l : Holds(s, l) => Holds(s, l)'
      /\ \A s \in Slots : \A l : Cleared(l, s) => Cleared(l, s)'
    <2>1. \A s \in Slots : Ready(s) => Ready(s)'
        BY DEF IInv, TypeOK, Ready
    <2> QED
        BY <1>4, <2>1 DEF Holds, Cleared, Passed
<1>6. /\ \A s : OwnerSet(s)' = OwnerSet(s)
      /\ \A k : UserSet(k)' = UserSet(k)
    BY <1>2, <1>4, SetsSame
<1>7. \A e, s, k : EdgeOf(e, s, k)' <=> EdgeOf(e, s, k)
    BY <1>4, EdgesSame
<1>8. TypeOK'
    BY <1>1, <1>4 DEF IInv, TypeOK, Moved
<1>9. Arguments'
    BY <1>1 DEF IInv, Arguments, Moved, In, At, Registering
<1>10. Claims'
    <2>1. \A u \in Threads : /\ In(u, {"fill", "publish"})' => In(u, {"fill", "publish"}) /\ u # th
                             /\ thread'[u].slot = thread[u].slot
                             /\ thread'[u].label = thread[u].label
                             /\ At(u, "publish")' => At(u, "publish")
        BY <1>1, <1>2 DEF In, At, Moved
    <2>2. In(th, {"fill", "publish"})
        BY DEF At, In
    <2>3. \A u \in Threads :
              In(u, {"fill", "publish"})' => lifecycle'[thread'[u].slot] = "WRITING"
        BY <2>1, <2>2 DEF IInv, TypeOK, Claims, Thread
    <2>4. \A u \in Threads :
              At(u, "publish")' => slotLabel'[thread'[u].slot] = thread'[u].label
        BY <1>4, <2>1 DEF IInv, Claims
    <2>5. \A u, v \in Threads :
              (/\ In(u, {"fill", "publish"})' /\ In(v, {"fill", "publish"})'
               /\ thread'[u].slot = thread'[v].slot) => u = v
        BY <2>1 DEF IInv, Claims
    <2> QED
        BY <2>3, <2>4, <2>5 DEF Claims
<1>11. Placed'
    <2>1. /\ thread[th].label \in Labels /\ thread[th].slot \in Slots
          /\ slotLabel[thread[th].slot] = thread[th].label
        BY DEF IInv, TypeOK, Thread, Arguments, Claims, At
    <2>2. Cleared(thread[th].label, thread[th].slot)
        BY DEF IInv, Probed, In, At, Probing
    <2>3. \A s \in Slots : Ready(s)' => s = thread[th].slot \/ Ready(s)
        BY DEF IInv, TypeOK, Ready
    <2> QED
        BY <1>4, <1>5, <2>1, <2>2, <2>3 DEF IInv, Placed
<1>12. Probed'
    BY <1>1, <1>5 DEF IInv, TypeOK, Thread, Arguments, At, Probed, Moved, In, Probing
<1>13. Located'
    <2>1. thread[th].slot \in Slots /\ slotLabel[thread[th].slot] = thread[th].label
        BY DEF IInv, TypeOK, Thread, Claims, At
    <2>2. Holds(thread[th].slot, thread[th].label)'
        BY <1>1, <1>4, <2>1 DEF IInv, TypeOK, Holds, Ready, Moved
    <2>3. \A u \in Threads : u # th /\ In(u, {"gate"} \cup Holding)' =>
              Holds(thread[u].slot, thread[u].label) /\ thread'[u] = thread[u]
        BY <1>2 DEF IInv, Located, In
    <2>4. \A u \in Threads : thread[u].slot \in Slots
        BY DEF IInv, TypeOK, Thread
    <2> QED
        BY <1>5, <2>2, <2>3, <2>4 DEF Located
<1>14. Gated'
    BY <1>1, <1>4 DEF IInv, Gated, Moved, In, At, Holding, Linking
<1>15. Asked'
    BY <1>1, <1>7 DEF IInv, Asked, Moved, At
<1>16. Answered'
    BY <1>1, <1>4, <1>6 DEF IInv, Answered, Moved, At
<1>17. Kept'
    BY <1>4, <1>5, <1>6 DEF IInv, TypeOK, Kept
<1>18. Owed'
    BY <1>1 DEF IInv, Owed, Moved, In, At, LookingUp
<1>19. Reserved' /\ EdgesNamed' /\ OwnerLists' /\ UserLists' /\ OneEdgePerOwner'
    BY <1>2, <1>4, <1>5, EdgesUntouched DEF edgeVars
<1> QED
    BY <1>8, <1>9, <1>10, <1>11, <1>12, <1>13, <1>14, <1>15,
       <1>16, <1>17, <1>18, <1>19 DEF IInv

-----------------------------------------------------------------------------
\* Steps on edges

\* An edge is drawn and named, by the thread that has the gate of the task.
LEMMA EdgeDrawnInv ==
    ASSUME IInv, NEW th \in Threads, At(th, "reserve"), nextEdge < MaxEdges,
           nextEdge' = nextEdge + 1,
           edges' = [edges EXCEPT ![nextEdge].token = thread[th].token,
                                  ![nextEdge].task = thread[th].slot],
           Moved(th, "ownerLoad", thread[th].label, thread[th].token, thread[th].slot,
                 nextEdge, thread[th].head, thread[th].owed),
           UNCHANGED <<slotVars, inverseHead, calls, registered>>
    PROVE  IInv'
<1> DEFINE new == nextEdge
<1>0. UNCHANGED <<lifecycle, slotLabel, ownerHead, gate, inverseHead, calls, registered>>
    BY DEF slotVars
<1>1. /\ new \in EdgeIds /\ new \in Links /\ ~Drawn(new)
      /\ \A e : Drawn(e)' <=> Drawn(e) \/ e = new
      /\ \A e \in EdgeIds : Drawn(e) => e # new
    BY DEF IInv, TypeOK, EdgeIds, Links, Drawn
<1>2. /\ thread[th].label \in Labels /\ thread[th].token \in Tokens /\ thread[th].slot \in Slots
    BY DEF IInv, TypeOK, Arguments, At, In, Registering, Thread
<1>3. /\ edges' \in [EdgeIds -> Edge]
      /\ \A e \in EdgeIds : e # new => edges'[e] = edges[e]
      /\ edges'[new].token = thread[th].token /\ edges'[new].task = thread[th].slot
      /\ \A e \in EdgeIds : /\ edges'[e].nextTask = edges[e].nextTask
                            /\ edges'[e].nextUser = edges[e].nextUser
    <2> DEFINE tokened == [edges[new] EXCEPT !.token = thread[th].token]
               named == [tokened EXCEPT !.task = thread[th].slot]
    <2>1. edges \in [EdgeIds -> Edge] /\ edges[new] \in Edge
        BY <1>1 DEF IInv, TypeOK
    <2>2. /\ named \in Edge
          /\ named.token = thread[th].token /\ named.task = thread[th].slot
          /\ named.nextTask = edges[new].nextTask /\ named.nextUser = edges[new].nextUser
        BY <1>2, <2>1 DEF Edge
    <2>3. edges' = [edges EXCEPT ![new] = named]
        BY <1>1, <2>1
    <2> HIDE DEF named, tokened
    <2> QED
        BY <1>1, <2>1, <2>2, <2>3
<1> HIDE DEF new
<1>4. /\ \A u \in Threads : u # th => thread'[u] = thread[u]
      /\ ~In(th, Linking) /\ In(th, {"ownerLoad", "ownerPush"})' /\ In(th, Linking)'
      /\ thread'[th].edge = new
    BY DEF Moved, In, At, Linking, new
<1>5. /\ \A s : Ready(s)' <=> Ready(s)
      /\ \A s, l : Holds(s, l)' <=> Holds(s, l)
      /\ \A s, l : Cleared(l, s)' <=> Cleared(l, s)
    BY <1>0, SlotsSame
<1>6. /\ NextTasks' = NextTasks
      /\ NextUsers' = NextUsers
    BY <1>3 DEF NextTasks, NextUsers
<1>7. /\ \A e \in EdgeIds : Unlinked(e, Linking)' <=> Unlinked(e, Linking) \/ e = new
      /\ \A e \in EdgeIds : Unlinked(e, {"ownerLoad", "ownerPush"})' <=>
                            Unlinked(e, {"ownerLoad", "ownerPush"}) \/ e = new
    <2>1. ~In(th, {"ownerLoad", "ownerPush"})
        BY DEF In, At
    <2> QED
        BY <1>4, <2>1 DEF Unlinked, In
<1>8. /\ \A s : OwnerSet(s)' = OwnerSet(s)
      /\ \A k : UserSet(k)' = UserSet(k)
    BY <1>1, <1>3, <1>7 DEF OwnerSet, UserSet
<1>9. /\ \A e \in EdgeIds : \A s, k : EdgeOf(e, s, k)' <=>
             EdgeOf(e, s, k) \/ (e = new /\ s = thread[th].slot /\ k = thread[th].token)
    BY <1>1, <1>3 DEF EdgeOf
<1>10. TypeOK'
    <2>1. nextEdge' \in 0 .. MaxEdges
        BY DEF IInv, TypeOK
    <2>2. thread' \in [Threads -> Thread]
        BY DEF Moved
    <2> QED
        BY <1>0, <1>3, <2>1, <2>2 DEF IInv, TypeOK
<1>11. Arguments'
    BY DEF IInv, Arguments, Moved, In, At, Registering
<1>12. Claims'
    BY <1>0 DEF IInv, Claims, Moved, In, At
<1>13. Placed'
    BY <1>0, <1>5 DEF IInv, Placed
<1>14. Probed'
    BY <1>5 DEF IInv, Probed, Moved, In, At, Probing
<1>15. Located'
    BY <1>5 DEF IInv, Located, Moved, In, At, Holding, Linking
<1>16. Gated'
    BY <1>0 DEF IInv, Gated, Moved, In, At, Holding, Linking
<1>17. Reserved'
    <2>1. \A u \in Threads : In(u, Linking) =>
              thread[u].edge \in EdgeIds /\ thread[u].edge # new
        BY <1>1 DEF IInv, Reserved, EdgeOf, Drawn
    <2>2. \A u \in Threads : In(u, Linking)' =>
              EdgeOf(thread[u].edge, thread[u].slot, thread[u].token)'
        <3>1. EdgeOf(thread[th].edge, thread[th].slot, thread[th].token)'
            BY <1>1, <1>4, <1>9 DEF Moved
        <3>2. \A u \in Threads : In(u, Linking) =>
                  EdgeOf(thread[u].edge, thread[u].slot, thread[u].token)
            BY DEF IInv, Reserved
        <3> QED
            BY <1>4, <1>9, <2>1, <3>1, <3>2 DEF In
    <2>3. \A u \in Threads :
              /\ At(u, "ownerPush")' => edges'[thread'[u].edge].nextTask = thread'[u].head
              /\ At(u, "userPush")' => edges'[thread'[u].edge].nextUser = thread'[u].head
        <3>1. ~At(th, "ownerPush")' /\ ~At(th, "userPush")'
            BY DEF Moved, At
        <3>2. \A u \in Threads : At(u, "ownerPush") \/ At(u, "userPush") => In(u, Linking)
            BY DEF At, In, Linking
        <3> QED
            BY <1>3, <1>4, <2>1, <3>1, <3>2 DEF IInv, Reserved, At
    <2>4. \A u, v \in Threads :
              In(u, Linking)' /\ In(v, Linking)' /\ thread'[u].edge = thread'[v].edge => u = v
        BY <1>4, <2>1 DEF IInv, Reserved, In
    <2> QED
        BY <2>2, <2>3, <2>4 DEF Reserved
<1>18. EdgesNamed'
    <2>1. Ready(thread[th].slot)
        BY DEF IInv, Located, In, At, Holding, Holds
    <2> QED
        BY <1>1, <1>2, <1>3, <1>5, <2>1 DEF IInv, EdgesNamed
<1>19. OwnerLists' /\ UserLists'
    BY <1>0, <1>6, <1>8 DEF IInv, OwnerLists, UserLists
<1>20. Asked'
    <2>1. \A u \in Threads : At(u, "reserve")' =>
              At(u, "reserve") /\ u # th /\ thread'[u] = thread[u]
        BY <1>4 DEF At, Moved
    <2>2. \A u \in Threads : At(u, "reserve") => In(u, Holding)
        BY DEF At, In, Holding
    <2>3. \A u \in Threads : At(u, "reserve")' => thread[u].slot # thread[th].slot
        BY <2>1, <2>2 DEF IInv, Gated
    <2> QED
        BY <1>9, <2>1, <2>3 DEF IInv, Asked
<1>21. OneEdgePerOwner'
    <2>1. \A e \in EdgeIds : ~EdgeOf(e, thread[th].slot, thread[th].token)
        BY DEF IInv, Asked
    <2>2. \A e \in 0 .. nextEdge' - 1 : e \in EdgeIds /\ (e \in 0 .. nextEdge - 1 \/ e = new)
        BY DEF IInv, TypeOK, EdgeIds, new
    <2>3. \A e \in 0 .. nextEdge - 1 : e \in EdgeIds /\ Drawn(e) /\ e # new
        BY DEF IInv, TypeOK, EdgeIds, new, Drawn
    <2>4. \A e \in 0 .. nextEdge - 1 :
              ~(edges[e].task = thread[th].slot /\ edges[e].token = thread[th].token)
        BY <2>1, <2>3 DEF EdgeOf
    <2> QED
        BY <1>3, <2>2, <2>3, <2>4 DEF IInv, OneEdgePerOwner
<1>22. Answered' /\ Kept'
    <2>1. \A k : \A e \in UserSet(k) : edges'[e].task = edges[e].task
        BY <1>1, <1>3 DEF UserSet
    <2>2. Answered'
        <3>1. \A u \in Threads : At(u, "return")' => At(u, "return") /\ thread'[u] = thread[u]
            BY <1>4 DEF Moved, At
        <3>2. \A u \in Threads : At(u, "return") =>
                  \E e \in UserSet(thread[u].token) : edges'[e].task = thread[u].slot
            BY <2>1 DEF IInv, Answered
        <3> QED
            BY <1>8, <3>1, <3>2 DEF Answered
    <2>3. Kept'
        BY <1>0, <1>5, <1>8, <2>1 DEF IInv, Kept
    <2> QED
        BY <2>2, <2>3
<1>23. Owed'
    BY DEF IInv, Owed, Moved, In, At, LookingUp
<1> QED
    BY <1>10, <1>11, <1>12, <1>13, <1>14, <1>15, <1>16, <1>17, <1>18, <1>19,
       <1>20, <1>21, <1>22, <1>23 DEF IInv

\* A thread links its edge: it moves on in Linking or returns, and of the edges only
\* link fields change.
LinksOn(th, p, h) ==
    /\ Moved(th, p, thread[th].label, thread[th].token, thread[th].slot, thread[th].edge,
             h, thread[th].owed)
    /\ In(th, Linking) /\ p \in Linking \cup {"return"}
    /\ ownerHead' \in [Slots -> Links] /\ inverseHead' \in [Tokens -> Links]
    /\ edges' \in [EdgeIds -> Edge]
    /\ \A e \in EdgeIds : edges'[e].task = edges[e].task /\ edges'[e].token = edges[e].token
    /\ UNCHANGED <<lifecycle, slotLabel, gate, nextEdge, calls, registered>>

\* What follows for the sets of linked edges.
LEMMA LinkSets ==
    ASSUME IInv, NEW th \in Threads, NEW p, NEW h, LinksOn(th, p, h)
    PROVE  /\ \A e \in EdgeIds : Drawn(e)' <=> Drawn(e)
           /\ \A e \in EdgeIds : \A s, k : EdgeOf(e, s, k)' <=> EdgeOf(e, s, k)
           /\ EdgeOf(thread[th].edge, thread[th].slot, thread[th].token)
           /\ thread[th].edge \in EdgeIds
           /\ \A s : OwnerSet(s)' =
                 IF /\ In(th, {"ownerLoad", "ownerPush"}) /\ ~(p \in {"ownerLoad", "ownerPush"})
                    /\ s = thread[th].slot
                 THEN OwnerSet(s) \cup {thread[th].edge}
                 ELSE IF ~In(th, {"ownerLoad", "ownerPush"}) /\ p \in {"ownerLoad", "ownerPush"}
                 THEN OwnerSet(s) \ {thread[th].edge} ELSE OwnerSet(s)
           /\ \A k : UserSet(k)' =
                 IF p = "return" /\ k = thread[th].token
                 THEN UserSet(k) \cup {thread[th].edge} ELSE UserSet(k)
           /\ \A s : In(th, {"ownerLoad", "ownerPush"}) => thread[th].edge \notin OwnerSet(s)
           /\ \A k : thread[th].edge \notin UserSet(k)
<1> DEFINE OP == {"ownerLoad", "ownerPush"}
<1>0. PICK e0 : e0 = thread[th].edge
    OBVIOUS
<1>1. /\ thread'[th].pc = p /\ thread'[th].edge = e0
      /\ \A u \in Threads : u # th => thread'[u] = thread[u]
      /\ In(th, Linking) /\ p \in Linking \cup {"return"}
      /\ UNCHANGED nextEdge
    BY <1>0 DEF LinksOn, Moved
<1>2. EdgeOf(e0, thread[th].slot, thread[th].token)
    BY <1>0, <1>1 DEF IInv, Reserved
<1>3. Drawn(e0) /\ e0 \in EdgeIds /\ edges[e0].task = thread[th].slot
      /\ edges[e0].token = thread[th].token
    BY <1>2 DEF EdgeOf, Drawn
<1>4. \A u \in Threads : In(u, Linking) /\ thread[u].edge = e0 => u = th
    BY <1>0, <1>1 DEF IInv, Reserved
<1>5. \A u \in Threads : In(u, OP) => In(u, Linking)
    BY DEF In, Linking
<1>6. \A e \in EdgeIds : Drawn(e)' <=> Drawn(e)
    BY <1>1 DEF Drawn
<1>7. \A e \in EdgeIds : \A s, k : EdgeOf(e, s, k)' <=> EdgeOf(e, s, k)
    BY <1>6 DEF EdgeOf, LinksOn
<1>8. \A e \in EdgeIds : e # e0 => (Unlinked(e, OP)' <=> Unlinked(e, OP))
    BY <1>0, <1>1 DEF Unlinked, In
<1>9. \A e \in EdgeIds : e # e0 => (Unlinked(e, Linking)' <=> Unlinked(e, Linking))
    BY <1>0, <1>1 DEF Unlinked, In
<1>10. /\ Unlinked(e0, OP) <=> In(th, OP)
       /\ Unlinked(e0, Linking)
    BY <1>0, <1>1, <1>4, <1>5 DEF Unlinked
<1>11. /\ Unlinked(e0, OP)' <=> p \in OP
       /\ Unlinked(e0, Linking)' <=> p \in Linking
    BY <1>1, <1>4, <1>5 DEF Unlinked, In
<1>12. p = "return" <=> p \notin Linking
    BY <1>1 DEF Linking
<1> HIDE DEF OP
<1>13. \A e \in EdgeIds : edges'[e].task = edges[e].task /\ edges'[e].token = edges[e].token
    BY DEF LinksOn
<1>14. \A s : /\ \A e : e # e0 => (e \in OwnerSet(s)' <=> e \in OwnerSet(s))
              /\ e0 \in OwnerSet(s)' <=> s = thread[th].slot /\ p \notin OP
              /\ e0 \in OwnerSet(s) <=> s = thread[th].slot /\ ~In(th, OP)
    <2>1. \A s, e : e # e0 => (e \in OwnerSet(s)' <=> e \in OwnerSet(s))
        BY <1>6, <1>8, <1>13 DEF OwnerSet, OP
    <2>2. \A s : e0 \in OwnerSet(s)' <=> s = thread[th].slot /\ p \notin OP
        BY <1>3, <1>6, <1>11, <1>13 DEF OwnerSet, OP
    <2>3. \A s : e0 \in OwnerSet(s) <=> s = thread[th].slot /\ ~In(th, OP)
        BY <1>3, <1>10 DEF OwnerSet, OP
    <2> QED
        BY <2>1, <2>2, <2>3
<1>15. \A k : /\ \A e : e # e0 => (e \in UserSet(k)' <=> e \in UserSet(k))
              /\ e0 \in UserSet(k)' <=> k = thread[th].token /\ p = "return"
              /\ e0 \notin UserSet(k)
    <2>1. \A k, e : e # e0 => (e \in UserSet(k)' <=> e \in UserSet(k))
        BY <1>6, <1>9, <1>13 DEF UserSet
    <2>2. \A k : e0 \in UserSet(k)' <=> k = thread[th].token /\ p = "return"
        BY <1>3, <1>6, <1>11, <1>12, <1>13 DEF UserSet
    <2>3. \A k : e0 \notin UserSet(k)
        BY <1>3, <1>10 DEF UserSet
    <2> QED
        BY <2>1, <2>2, <2>3
<1>16. \A s : OwnerSet(s)' =
                 IF In(th, OP) /\ ~(p \in OP) /\ s = thread[th].slot
                 THEN OwnerSet(s) \cup {e0}
                 ELSE IF ~In(th, OP) /\ p \in OP
                 THEN OwnerSet(s) \ {e0} ELSE OwnerSet(s)
    <2> TAKE s
    <2> DEFINE added == In(th, OP) /\ ~(p \in OP) /\ s = thread[th].slot
               removed == ~In(th, OP) /\ p \in OP
    <2>1. /\ \A e : e # e0 => (e \in OwnerSet(s)' <=> e \in OwnerSet(s))
          /\ e0 \in OwnerSet(s)' <=> s = thread[th].slot /\ p \notin OP
          /\ e0 \in OwnerSet(s) <=> s = thread[th].slot /\ ~In(th, OP)
        BY <1>14
    <2>2. CASE added
        <3>1. \A e : e \in OwnerSet(s)' <=> e \in OwnerSet(s) \cup {e0}
            BY <2>1, <2>2
        <3>2. OwnerSet(s)' = OwnerSet(s) \cup {e0}
            BY <3>1
        <3> QED
            BY <2>2, <3>2
    <2>3. CASE removed
        <3>1. \A e : e \in OwnerSet(s)' <=> e \in OwnerSet(s) \ {e0}
            BY <2>1, <2>3
        <3>2. OwnerSet(s)' = OwnerSet(s) \ {e0}
            BY <3>1
        <3> QED
            BY <2>3, <3>2
    <2>4. CASE ~added /\ ~removed
        <3>1. \A e : e \in OwnerSet(s)' <=> e \in OwnerSet(s)
            BY <2>1, <2>4
        <3>2. OwnerSet(s)' = OwnerSet(s)
            BY <3>1
        <3> QED
            BY <2>4, <3>2
    <2> QED
        BY <2>2, <2>3, <2>4
<1>17. \A k : UserSet(k)' = IF p = "return" /\ k = thread[th].token
                            THEN UserSet(k) \cup {e0} ELSE UserSet(k)
    <2> TAKE k
    <2> DEFINE now == k = thread[th].token /\ p = "return"
    <2>1. /\ \A e : e # e0 => (e \in UserSet(k)' <=> e \in UserSet(k))
          /\ e0 \in UserSet(k)' <=> now
          /\ e0 \notin UserSet(k)
        BY <1>15
    <2>2. CASE now
        BY <2>1, <2>2
    <2>3. CASE ~now
        <3>1. \A e : e \in UserSet(k)' <=> e \in UserSet(k)
            BY <2>1, <2>3
        <3>2. UserSet(k)' = UserSet(k)
            BY <3>1
        <3> QED
            BY <2>3, <3>2
    <2> QED
        BY <2>2, <2>3
<1>18. \A s : In(th, OP) => e0 \notin OwnerSet(s)
    BY <1>14
<1>19. \A k : e0 \notin UserSet(k)
    BY <1>15
<1> QED
    BY <1>0, <1>2, <1>3, <1>6, <1>7, <1>16, <1>17, <1>18, <1>19 DEF OP

\* All of the invariant but what is about the links themselves.
LEMMA LinkInv ==
    ASSUME IInv, NEW th \in Threads, NEW p, NEW h \in Links, LinksOn(th, p, h),
           p = "ownerPush" => edges'[thread[th].edge].nextTask = h,
           p = "userPush" => edges'[thread[th].edge].nextUser = h,
           \A e \in EdgeIds : e # thread[th].edge => edges'[e] = edges[e],
           OwnerLists', UserLists'
    PROVE  IInv'
<1>1. Moved(th, p, thread[th].label, thread[th].token, thread[th].slot, thread[th].edge,
            h, thread[th].owed)
    BY DEF LinksOn
<1>2. In(th, Linking) /\ p \in Linking \cup {"return"}
    BY DEF LinksOn
<1>3. UNCHANGED <<lifecycle, slotLabel, gate, nextEdge, calls, registered>>
    BY DEF LinksOn
<1>4. \A e \in EdgeIds : edges'[e].task = edges[e].task /\ edges'[e].token = edges[e].token
    BY DEF LinksOn
<1>5. /\ \A s : Ready(s)' <=> Ready(s)
      /\ \A s, l : Holds(s, l)' <=> Holds(s, l)
      /\ \A s, l : Cleared(l, s)' <=> Cleared(l, s)
    BY <1>3, SlotsSame
<1>6. /\ \A e \in EdgeIds : Drawn(e)' <=> Drawn(e)
      /\ \A e \in EdgeIds : \A s, k : EdgeOf(e, s, k)' <=> EdgeOf(e, s, k)
      /\ EdgeOf(thread[th].edge, thread[th].slot, thread[th].token)
      /\ thread[th].edge \in EdgeIds
      /\ \A k : UserSet(k)' =
            IF p = "return" /\ k = thread[th].token
            THEN UserSet(k) \cup {thread[th].edge} ELSE UserSet(k)
    BY LinkSets
<1>7. \A u \in Threads : u # th => thread'[u] = thread[u]
    BY <1>1 DEF Moved
<1>10. TypeOK'
    BY <1>1, <1>3 DEF IInv, TypeOK, LinksOn, Moved
<1>11. Arguments'
    BY <1>1, <1>2 DEF IInv, Arguments, Moved, In, At, Registering, Linking
<1>12. Claims'
    BY <1>1, <1>2, <1>3 DEF IInv, Claims, Moved, In, At, Linking
<1>13. Placed'
    BY <1>3, <1>5 DEF IInv, Placed
<1>14. Probed'
    BY <1>1, <1>2, <1>5 DEF IInv, Probed, Moved, In, At, Probing, Linking
<1>15. Located'
    BY <1>1, <1>2, <1>5 DEF IInv, Located, Moved, In, At, Holding, Linking
<1>16. Gated'
    BY <1>1, <1>2, <1>3 DEF IInv, Gated, Moved, In, At, Holding, Linking
<1>17. Reserved'
    <2>1. \A u \in Threads : In(u, Linking)' =>
              In(u, Linking) /\ thread'[u].edge = thread[u].edge
              /\ thread'[u].slot = thread[u].slot /\ thread'[u].token = thread[u].token
        BY <1>1, <1>2 DEF Moved, In
    <2>2. \A u \in Threads : In(u, Linking) =>
              /\ EdgeOf(thread[u].edge, thread[u].slot, thread[u].token)
              /\ thread[u].edge \in EdgeIds
              /\ u # th => thread[u].edge # thread[th].edge
        BY <1>2 DEF IInv, Reserved, EdgeOf, Drawn
    <2>3. \A u \in Threads : In(u, Linking)' =>
              EdgeOf(thread[u].edge, thread[u].slot, thread[u].token)'
        BY <1>6, <2>1, <2>2
    <2>4. \A u \in Threads : At(u, "ownerPush")' \/ At(u, "userPush")' => In(u, Linking)'
        BY DEF At, In, Linking
    <2>5. /\ At(th, "ownerPush")' => edges'[thread'[th].edge].nextTask = thread'[th].head
          /\ At(th, "userPush")' => edges'[thread'[th].edge].nextUser = thread'[th].head
        BY <1>1 DEF Moved, At
    <2>6. \A u \in Threads : u # th =>
              /\ At(u, "ownerPush")' => edges'[thread'[u].edge].nextTask = thread'[u].head
              /\ At(u, "userPush")' => edges'[thread'[u].edge].nextUser = thread'[u].head
        BY <1>7, <2>1, <2>2, <2>4 DEF IInv, Reserved, At
    <2>7. \A u, v \in Threads :
              In(u, Linking)' /\ In(v, Linking)' /\ thread'[u].edge = thread'[v].edge => u = v
        BY <2>1 DEF IInv, Reserved
    <2> QED
        BY <2>3, <2>5, <2>6, <2>7 DEF Reserved
<1>18. EdgesNamed'
    BY <1>4, <1>5, <1>6 DEF IInv, EdgesNamed
<1>20. Asked'
    BY <1>1, <1>2, <1>6 DEF IInv, Asked, Moved, At, Linking
<1>21. OneEdgePerOwner'
    <2>1. \A e \in 0 .. nextEdge - 1 : e \in EdgeIds
        BY DEF IInv, TypeOK, EdgeIds
    <2> QED
        BY <1>3, <1>4, <2>1 DEF IInv, OneEdgePerOwner
<1>22. \A k : \A e \in UserSet(k) : e \in UserSet(k)' /\ edges'[e].task = edges[e].task
    <2>1. \A k : \A e \in UserSet(k) : e \in UserSet(k)' /\ e \in EdgeIds
        BY <1>6 DEF UserSet
    <2> QED
        BY <1>4, <2>1
<1>23. Answered'
    <2>1. \A u \in Threads : u # th /\ At(u, "return")' =>
              \E e \in (UserSet(thread[u].token))' : edges'[e].task = thread'[u].slot
        BY <1>7, <1>22 DEF IInv, Answered, At
    <2>3. At(th, "return")' =>
             \E e \in (UserSet(thread[th].token))' : edges'[e].task = thread'[th].slot
        BY <1>1, <1>4, <1>6 DEF Moved, At, EdgeOf
    <2> QED
        BY <2>1, <2>3 DEF Answered
<1>24. Kept'
    BY <1>3, <1>5, <1>22 DEF IInv, Kept
<1>25. Owed'
    BY <1>1, <1>2, <1>3 DEF IInv, Owed, Moved, In, At, LookingUp, Linking
<1> QED
    BY <1>10, <1>11, <1>12, <1>13, <1>14, <1>15, <1>16, <1>17, <1>18,
       <1>20, <1>21, <1>23, <1>24, <1>25 DEF IInv

LEMMA LinkToMoves ==
    ASSUME IInv, NEW th \in Threads, NEW h \in Links, NEW push \in {"ownerPush", "userPush"},
           NEW taskList \in BOOLEAN, LinkTo(th, h, push, taskList), thread[th].edge \in EdgeIds
    PROVE  /\ Moved(th, push, thread[th].label, thread[th].token, thread[th].slot,
                    thread[th].edge, h, thread[th].owed)
           /\ edges' \in [EdgeIds -> Edge]
           /\ \A e \in EdgeIds : e # thread[th].edge => edges'[e] = edges[e]
           /\ \A e \in EdgeIds : /\ edges'[e].task = edges[e].task
                                 /\ edges'[e].token = edges[e].token
           /\ IF taskList
              THEN /\ edges'[thread[th].edge].nextTask = h
                   /\ \A e \in EdgeIds : edges'[e].nextUser = edges[e].nextUser
              ELSE /\ edges'[thread[th].edge].nextUser = h
                   /\ \A e \in EdgeIds : edges'[e].nextTask = edges[e].nextTask
<1> DEFINE v == [thread[th] EXCEPT !.head = h, !.pc = push]
           byTask == [edges[thread[th].edge] EXCEPT !.nextTask = h]
           byUser == [edges[thread[th].edge] EXCEPT !.nextUser = h]
<1>1. /\ thread \in [Threads -> Thread] /\ thread[th] \in Thread
      /\ edges \in [EdgeIds -> Edge] /\ edges[thread[th].edge] \in Edge
    BY DEF IInv, TypeOK
<1>2. push \in Places
    BY DEF Places, Registering
<1>3. v \in Thread
    BY <1>1, <1>2, FieldsSet
<1>4. /\ v.pc = push /\ v.label = thread[th].label /\ v.token = thread[th].token
      /\ v.slot = thread[th].slot /\ v.edge = thread[th].edge /\ v.head = h
      /\ v.owed = thread[th].owed
    BY <1>1 DEF Thread
<1>5. thread' = [thread EXCEPT ![th] = v]
    BY DEF LinkTo
<1>6. /\ byTask \in Edge /\ byTask.task = edges[thread[th].edge].task
      /\ byTask.token = edges[thread[th].edge].token /\ byTask.nextTask = h
      /\ byTask.nextUser = edges[thread[th].edge].nextUser
    BY <1>1 DEF Edge
<1>7. /\ byUser \in Edge /\ byUser.task = edges[thread[th].edge].task
      /\ byUser.token = edges[thread[th].edge].token /\ byUser.nextUser = h
      /\ byUser.nextTask = edges[thread[th].edge].nextTask
    BY <1>1 DEF Edge
<1>8. edges' = [edges EXCEPT ![thread[th].edge] = IF taskList THEN byTask ELSE byUser]
    BY DEF LinkTo
<1> HIDE DEF v, byTask, byUser
<1>9. Moved(th, v.pc, v.label, v.token, v.slot, v.edge, v.head, v.owed)
    BY <1>1, <1>3, <1>5, MovedByExcept
<1>10. Moved(th, push, thread[th].label, thread[th].token, thread[th].slot,
             thread[th].edge, h, thread[th].owed)
    BY <1>4, <1>9
<1>11. CASE taskList
    BY <1>1, <1>6, <1>8, <1>10, <1>11
<1>12. CASE ~taskList
    BY <1>1, <1>7, <1>8, <1>10, <1>12
<1> QED
    BY <1>11, <1>12

\* The edge of a thread that links is one of the pool, and in no list it is linked to.
LEMMA EdgeOfLinking ==
    ASSUME IInv, NEW th \in Threads, In(th, Linking)
    PROVE  /\ thread[th].edge \in EdgeIds
           /\ thread[th].slot \in Slots /\ thread[th].token \in Tokens
           /\ ownerHead[thread[th].slot] \in Links /\ inverseHead[thread[th].token] \in Links
           /\ NoLink \in Links /\ EdgeIds \subseteq Links
<1>1. thread[th].edge \in EdgeIds
    BY DEF IInv, Reserved, EdgeOf, Drawn
<1>2. thread[th].slot \in Slots /\ thread[th].token \in Tokens
    BY DEF IInv, TypeOK, Thread, Arguments, In, Linking, Registering
<1> QED
    BY <1>1, <1>2 DEF IInv, TypeOK, Links

\* The head it has seen goes into the edge, for the owner list of the task ...
LEMMA OwnerLinkedInv ==
    ASSUME IInv, NEW th \in Threads, In(th, {"ownerLoad", "ownerPush"}),
           LinkTo(th, ownerHead[thread[th].slot], "ownerPush", TRUE),
           UNCHANGED <<lifecycle, slotLabel, ownerHead, gate, inverseHead, nextEdge, calls,
                       registered>>
    PROVE  IInv'
<1> DEFINE h == ownerHead[thread[th].slot]
<1>1. In(th, Linking)
    BY DEF In, Linking
<1>2. h \in Links /\ thread[th].edge \in EdgeIds
    BY <1>1, EdgeOfLinking
<1>3. /\ Moved(th, "ownerPush", thread[th].label, thread[th].token, thread[th].slot,
               thread[th].edge, h, thread[th].owed)
      /\ edges' \in [EdgeIds -> Edge]
      /\ \A e \in EdgeIds : e # thread[th].edge => edges'[e] = edges[e]
      /\ \A e \in EdgeIds : edges'[e].task = edges[e].task /\ edges'[e].token = edges[e].token
      /\ edges'[thread[th].edge].nextTask = h
      /\ \A e \in EdgeIds : edges'[e].nextUser = edges[e].nextUser
    BY <1>2, LinkToMoves
<1>4. LinksOn(th, "ownerPush", h)
    BY <1>1, <1>3 DEF LinksOn, IInv, TypeOK, Linking
<1>5. /\ \A s : OwnerSet(s)' = OwnerSet(s) /\ thread[th].edge \notin OwnerSet(s)
      /\ \A k : UserSet(k)' = UserSet(k)
    BY <1>4, LinkSets
<1>6. OwnerLists'
    <2>1. ASSUME NEW s \in Slots
          PROVE  Chain(ownerHead[s], NextTasks, OwnerSet(s))'
        <3>1. \A e \in OwnerSet(s) : NextTasks'[e] = NextTasks[e]
            BY <1>3, <1>5 DEF NextTasks, OwnerSet
        <3>2. Chain(ownerHead[s], NextTasks, OwnerSet(s))
            BY DEF IInv, OwnerLists
        <3>3. Chain(ownerHead[s], NextTasks', OwnerSet(s))
            BY <3>1, <3>2, ChainKeep
        <3> QED
            BY <1>5, <3>3
    <2> QED
        BY <2>1 DEF OwnerLists
<1>7. UserLists'
    <2>1. NextUsers' = NextUsers
        BY <1>3 DEF NextUsers
    <2> QED
        BY <1>5, <2>1 DEF IInv, UserLists
<1> HIDE DEF h
<1> QED
    BY <1>2, <1>3, <1>4, <1>6, <1>7, LinkInv

\* ... and for the task list of the client.
LEMMA UserLinkedInv ==
    ASSUME IInv, NEW th \in Threads, In(th, {"userLoad", "userPush"}),
           LinkTo(th, inverseHead[thread[th].token], "userPush", FALSE),
           UNCHANGED <<lifecycle, slotLabel, ownerHead, gate, inverseHead, nextEdge, calls,
                       registered>>
    PROVE  IInv'
<1> DEFINE h == inverseHead[thread[th].token]
<1>1. In(th, Linking) /\ ~In(th, {"ownerLoad", "ownerPush"})
    BY DEF In, Linking
<1>2. h \in Links /\ thread[th].edge \in EdgeIds
    BY <1>1, EdgeOfLinking
<1>3. /\ Moved(th, "userPush", thread[th].label, thread[th].token, thread[th].slot,
               thread[th].edge, h, thread[th].owed)
      /\ edges' \in [EdgeIds -> Edge]
      /\ \A e \in EdgeIds : e # thread[th].edge => edges'[e] = edges[e]
      /\ \A e \in EdgeIds : edges'[e].task = edges[e].task /\ edges'[e].token = edges[e].token
      /\ edges'[thread[th].edge].nextUser = h
      /\ \A e \in EdgeIds : edges'[e].nextTask = edges[e].nextTask
    BY <1>2, LinkToMoves
<1>4. LinksOn(th, "userPush", h)
    BY <1>1, <1>3 DEF LinksOn, IInv, TypeOK, Linking
<1>5. /\ \A s : OwnerSet(s)' = OwnerSet(s)
      /\ \A k : UserSet(k)' = UserSet(k) /\ thread[th].edge \notin UserSet(k)
    BY <1>1, <1>4, LinkSets
<1>6. UserLists'
    <2>1. ASSUME NEW k \in Tokens
          PROVE  Chain(inverseHead[k], NextUsers, UserSet(k))'
        <3>1. \A e \in UserSet(k) : NextUsers'[e] = NextUsers[e]
            BY <1>3, <1>5 DEF NextUsers, UserSet
        <3>2. Chain(inverseHead[k], NextUsers, UserSet(k))
            BY DEF IInv, UserLists
        <3>3. Chain(inverseHead[k], NextUsers', UserSet(k))
            BY <3>1, <3>2, ChainKeep
        <3> QED
            BY <1>5, <3>3
    <2> QED
        BY <2>1 DEF UserLists
<1>7. OwnerLists'
    <2>1. NextTasks' = NextTasks
        BY <1>3 DEF NextTasks
    <2> QED
        BY <1>5, <2>1 DEF IInv, OwnerLists
<1> HIDE DEF h
<1> QED
    BY <1>2, <1>3, <1>4, <1>6, <1>7, LinkInv

\* The edge becomes the head of the owner list, which is still the one it points at ...
LEMMA OwnerPushedInv ==
    ASSUME IInv, NEW th \in Threads, At(th, "ownerPush"),
           ownerHead[thread[th].slot] = thread[th].head,
           ownerHead' = [ownerHead EXCEPT ![thread[th].slot] = thread[th].edge],
           Moves(th, "userLoad"),
           UNCHANGED <<lifecycle, slotLabel, gate, inverseHead, edges, nextEdge, calls,
                       registered>>
    PROVE  IInv'
<1>0. PICK h, e0, s0 : h = thread[th].head /\ e0 = thread[th].edge /\ s0 = thread[th].slot
    OBVIOUS
<1>1. In(th, Linking) /\ In(th, {"ownerLoad", "ownerPush"})
    BY DEF At, In, Linking
<1>2. h \in Links /\ e0 \in EdgeIds /\ e0 \in Links /\ s0 \in Slots
    BY <1>0, <1>1, EdgeOfLinking
<1>3. ownerHead' \in [Slots -> Links] /\ inverseHead' \in [Tokens -> Links]
      /\ edges' \in [EdgeIds -> Edge]
    BY <1>0, <1>2 DEF IInv, TypeOK
<1>4. LinksOn(th, "userLoad", h)
    BY <1>0, <1>1, <1>3 DEF LinksOn, Moves, Linking
<1>5. /\ OwnerSet(s0)' = OwnerSet(s0) \cup {e0} /\ e0 \notin OwnerSet(s0)
      /\ \A s : s # s0 => OwnerSet(s)' = OwnerSet(s)
      /\ \A k : UserSet(k)' = UserSet(k)
    BY <1>0, <1>1, <1>4, LinkSets
<1>6. NextTasks' = NextTasks /\ NextUsers' = NextUsers
    BY EdgesSame
<1>7. OwnerLists'
    <2>1. Chain(h, NextTasks, OwnerSet(s0))
        BY <1>0, <1>2 DEF IInv, OwnerLists
    <2>2. NextTasks[e0] = h
        BY <1>0, <1>2 DEF IInv, Reserved, NextTasks
    <2>3. Chain(e0, NextTasks, OwnerSet(s0) \cup {e0})
        BY <1>2, <1>5, <2>1, <2>2, ChainPush
    <2>4. ownerHead'[s0] = e0 /\ \A s \in Slots : s # s0 => ownerHead'[s] = ownerHead[s]
        BY <1>0, <1>2 DEF IInv, TypeOK
    <2>5. Chain(ownerHead'[s0], NextTasks', OwnerSet(s0)')
        BY <1>5, <1>6, <2>3, <2>4
    <2>6. \A s \in Slots : s # s0 => Chain(ownerHead'[s], NextTasks', OwnerSet(s)')
        BY <1>5, <1>6, <2>4 DEF IInv, OwnerLists
    <2> QED
        BY <2>5, <2>6 DEF OwnerLists
<1>8. UserLists'
    BY <1>5, <1>6 DEF IInv, UserLists
<1> QED
    BY <1>0, <1>2, <1>4, <1>7, <1>8, LinkInv

\* ... and of the task list, after which the call returns.
LEMMA UserPushedInv ==
    ASSUME IInv, NEW th \in Threads, At(th, "userPush"),
           inverseHead[thread[th].token] = thread[th].head,
           inverseHead' = [inverseHead EXCEPT ![thread[th].token] = thread[th].edge],
           Moves(th, "return"),
           UNCHANGED <<lifecycle, slotLabel, ownerHead, gate, edges, nextEdge, calls,
                       registered>>
    PROVE  IInv'
<1>0. PICK h, e0, k0 : h = thread[th].head /\ e0 = thread[th].edge /\ k0 = thread[th].token
    OBVIOUS
<1>1. In(th, Linking) /\ ~In(th, {"ownerLoad", "ownerPush"})
    BY DEF At, In, Linking
<1>2. h \in Links /\ e0 \in EdgeIds /\ e0 \in Links /\ k0 \in Tokens
    BY <1>0, <1>1, EdgeOfLinking
<1>3. ownerHead' \in [Slots -> Links] /\ inverseHead' \in [Tokens -> Links]
      /\ edges' \in [EdgeIds -> Edge]
    BY <1>0, <1>2 DEF IInv, TypeOK
<1>4. LinksOn(th, "return", h)
    BY <1>0, <1>1, <1>3 DEF LinksOn, Moves
<1>5. /\ UserSet(k0)' = UserSet(k0) \cup {e0} /\ e0 \notin UserSet(k0)
      /\ \A k : k # k0 => UserSet(k)' = UserSet(k)
      /\ \A s : OwnerSet(s)' = OwnerSet(s)
    BY <1>0, <1>1, <1>4, LinkSets
<1>6. NextTasks' = NextTasks /\ NextUsers' = NextUsers
    BY EdgesSame
<1>7. UserLists'
    <2>1. Chain(h, NextUsers, UserSet(k0))
        BY <1>0, <1>2 DEF IInv, UserLists
    <2>2. NextUsers[e0] = h
        BY <1>0, <1>2 DEF IInv, Reserved, NextUsers
    <2>3. Chain(e0, NextUsers, UserSet(k0) \cup {e0})
        BY <1>2, <1>5, <2>1, <2>2, ChainPush
    <2>4. inverseHead'[k0] = e0 /\ \A k \in Tokens : k # k0 => inverseHead'[k] = inverseHead[k]
        BY <1>0, <1>2 DEF IInv, TypeOK
    <2>5. Chain(inverseHead'[k0], NextUsers', UserSet(k0)')
        BY <1>5, <1>6, <2>3, <2>4
    <2>6. \A k \in Tokens : k # k0 => Chain(inverseHead'[k], NextUsers', UserSet(k)')
        BY <1>5, <1>6, <2>4 DEF IInv, UserLists
    <2> QED
        BY <2>5, <2>6 DEF UserLists
<1>8. OwnerLists'
    BY <1>5, <1>6 DEF IInv, OwnerLists
<1> QED
    BY <1>0, <1>2, <1>4, <1>7, <1>8, LinkInv

-----------------------------------------------------------------------------
\* The actions

LEMMA ThreadTyped ==
    ASSUME IInv, NEW th \in Threads
    PROVE  /\ thread \in [Threads -> Thread] /\ thread[th] \in Thread
           /\ thread[th].slot \in Slots
           /\ ~At(th, "idle") => thread[th].label \in Labels
           /\ \A p : At(th, p) => p \in Places
BY DEF IInv, TypeOK, Thread, Arguments, At, Places

\* A probe that did not find its label in slot s has passed it.
LEMMA NextCleared ==
    ASSUME IInv, NEW l \in Labels, NEW s \in Slots, Cleared(l, s), Ready(s), slotLabel[s] # l
    PROVE  /\ (s + 1) % Capacity \in Slots
           /\ (s + 1) % Capacity # Home[l] => Cleared(l, (s + 1) % Capacity)
           /\ (s + 1) % Capacity = Home[l] => \A q \in Slots : slotLabel[q] # l
<1>1. PICK next : next = (s + 1) % Capacity
    OBVIOUS
<1>2. /\ next \in Slots
      /\ next # Home[l] => Passed(l, next) = Passed(l, s) \cup {s}
      /\ next = Home[l] => Slots = Passed(l, s) \cup {s}
    BY <1>1, ProbeAdvances
<1>3. \A q \in Passed(l, s) : Ready(q) /\ slotLabel[q] # l
    BY DEF Cleared
<1>4. next # Home[l] => Cleared(l, next)
    BY <1>2, <1>3 DEF Cleared
<1>5. next = Home[l] => \A q \in Slots : slotLabel[q] # l
    BY <1>2, <1>3
<1> QED
    BY <1>1, <1>2, <1>4, <1>5

LEMMA SlotMoves ==
    ASSUME IInv, NEW th \in Threads, NEW next \in Slots,
           thread' = [thread EXCEPT ![th].slot = next]
    PROVE  Moved(th, thread[th].pc, thread[th].label, thread[th].token, next,
                 thread[th].edge, thread[th].head, thread[th].owed)
<1> DEFINE v == [thread[th] EXCEPT !.slot = next]
<1>1. thread \in [Threads -> Thread] /\ thread[th] \in Thread
    BY ThreadTyped
<1>2. v \in Thread
    BY <1>1, FieldsSet
<1>3. /\ v.pc = thread[th].pc /\ v.label = thread[th].label /\ v.token = thread[th].token
      /\ v.slot = next /\ v.edge = thread[th].edge /\ v.head = thread[th].head
      /\ v.owed = thread[th].owed
    BY <1>1 DEF Thread
<1>4. thread' = [thread EXCEPT ![th] = v]
    OBVIOUS
<1> HIDE DEF v
<1>5. Moved(th, v.pc, v.label, v.token, v.slot, v.edge, v.head, v.owed)
    BY <1>1, <1>2, <1>4, MovedByExcept
<1> QED
    BY <1>3, <1>5

LEMMA BeginStep ==
    ASSUME IInv, NEW th \in Threads, NEW l \in Labels,
           (\E k \in Tokens : BeginRegister(th, l, k)) \/ BeginLookup(th, l)
    PROVE  IInv'
<1>1. thread \in [Threads -> Thread]
    BY ThreadTyped
<1>2. Home[l] \in Slots /\ NoLink \in Links /\ 0 \in Slots
    BY DEF Slots, Links
<1>3. ASSUME NEW r, Begin(th, r)
      PROVE  /\ At(th, "idle") /\ calls' \in [Threads -> 0 .. MaxCalls]
             /\ thread' = [thread EXCEPT ![th] = r]
             /\ UNCHANGED <<slotVars, edgeVars, registered>>
    <2>1. calls \in [Threads -> 0 .. MaxCalls] /\ calls[th] < MaxCalls
        BY <1>3 DEF IInv, TypeOK, Begin
    <2>2. calls[th] + 1 \in 0 .. MaxCalls
        BY <2>1, BoundsAssumption
    <2>3. calls' = [calls EXCEPT ![th] = calls[th] + 1]
        BY <1>3 DEF Begin
    <2>4. calls' \in [Threads -> 0 .. MaxCalls]
        BY <2>1, <2>2, <2>3
    <2> QED
        BY <1>3, <2>4 DEF Begin
<1>4. ASSUME NEW k \in Tokens, BeginRegister(th, l, k)
      PROVE  IInv'
    <2> DEFINE v == [Idle EXCEPT !.pc = "probe", !.label = l, !.token = k, !.slot = Home[l]]
    <2>1. /\ v \in Thread
          /\ v.pc = "probe" /\ v.label = l /\ v.token = k /\ v.slot = Home[l]
          /\ v.edge = NoLink /\ v.head = NoLink /\ v.owed = FALSE
        BY <1>2 DEF Idle, Thread, Registering
    <2>2. Begin(th, v)
        BY <1>4 DEF BeginRegister
    <2> HIDE DEF v
    <2>3. thread' = [thread EXCEPT ![th] = v]
        BY <1>3, <2>2
    <2>4. Moved(th, v.pc, v.label, v.token, v.slot, v.edge, v.head, v.owed)
        BY <1>1, <2>1, <2>3, MovedByExcept
    <2>5. Moved(th, "probe", l, k, Home[l], NoLink, NoLink, FALSE)
        BY <2>1, <2>4
    <2> QED
        BY <1>3, <2>2, <2>5, BeginRegisterInv
<1>5. ASSUME BeginLookup(th, l)
      PROVE  IInv'
    <2> DEFINE o == \E r \in registered : r.label = l
               v == [Idle EXCEPT !.pc = "lookup", !.label = l, !.slot = Home[l], !.owed = o]
    <2>1. /\ v.pc = "lookup" /\ v.label = l /\ v.token = None /\ v.slot = Home[l]
          /\ v.edge = NoLink /\ v.head = NoLink /\ v.owed = o
        BY DEF Idle
    <2>2. Begin(th, v)
        BY <1>5 DEF BeginLookup
    <2>3. o \in BOOLEAN
        OBVIOUS
    <2>4. ASSUME NEW b \in BOOLEAN
          PROVE  [Idle EXCEPT !.pc = "lookup", !.label = l, !.slot = Home[l], !.owed = b]
                     \in Thread
        BY <1>2 DEF Idle, Thread, LookingUp
    <2>5. v \in Thread
        BY <2>3, <2>4
    <2> HIDE DEF v
    <2>6. thread' = [thread EXCEPT ![th] = v]
        BY <1>3, <2>2
    <2>7. Moved(th, v.pc, v.label, v.token, v.slot, v.edge, v.head, v.owed)
        BY <1>1, <2>5, <2>6, MovedByExcept
    <2>8. Moved(th, "lookup", l, None, Home[l], NoLink, NoLink, o)
        BY <2>1, <2>7
    <2> QED
        BY <1>3, <2>2, <2>8, BeginLookupInv
<1> QED
    BY <1>4, <1>5

LEMMA ProbeStep ==
    ASSUME IInv, NEW th \in Threads, Probe(th)
    PROVE  IInv'
<1> DEFINE s == thread[th].slot
           l == thread[th].label
<1>1. At(th, "probe") /\ UNCHANGED <<slotVars, edgeVars, calls, registered>>
    BY DEF Probe
<1>2. s \in Slots /\ l \in Labels
    BY <1>1, ThreadTyped DEF At
<1>3. Cleared(l, s)
    BY <1>1 DEF IInv, Probed, In, At, Probing
<1>4. CASE lifecycle[s] = "EMPTY"
    <2>1. Go(th, "claimSlot")
        BY <1>4 DEF Probe
    <2> QED
        BY <1>1, <2>1, ProbeEmptyInv
<1>5. CASE lifecycle[s] = "READY" /\ slotLabel[s] = l
    <2>1. Go(th, "gate")
        BY <1>5 DEF Probe
    <2> QED
        BY <1>1, <1>5, <2>1, ProbeHitInv DEF Holds, Ready
<1>6. CASE lifecycle[s] = "READY" /\ slotLabel[s] # l
    <2>1. Advance(th, "fail")
        BY <1>6 DEF Probe
    <2>2. /\ (s + 1) % Capacity \in Slots
          /\ (s + 1) % Capacity # Home[l] => Cleared(l, (s + 1) % Capacity)
        BY <1>2, <1>3, <1>6, NextCleared DEF Ready
    <2>3. CASE (s + 1) % Capacity = Home[l]
        BY <1>1, <2>1, <2>3, ProbeFailsInv DEF Advance
    <2>4. CASE (s + 1) % Capacity # Home[l]
        <3>1. PICK next \in Slots : next = (s + 1) % Capacity
            BY <2>2
        <3>2. thread' = [thread EXCEPT ![th].slot = next]
            BY <2>1, <2>4, <3>1 DEF Advance
        <3>3. Moved(th, "probe", thread[th].label, thread[th].token, next,
                    thread[th].edge, thread[th].head, thread[th].owed)
            BY <1>1, <3>2, SlotMoves DEF At
        <3> QED
            BY <1>1, <2>2, <2>4, <3>1, <3>3, ProbeNextInv
    <2> QED
        BY <2>3, <2>4
<1> QED
    BY <1>4, <1>5, <1>6 DEF Probe

LEMMA LookupStep ==
    ASSUME IInv, NEW th \in Threads, Lookup(th)
    PROVE  IInv'
<1> DEFINE s == thread[th].slot
           l == thread[th].label
<1>1. At(th, "lookup") /\ UNCHANGED <<slotVars, edgeVars, calls, registered>>
    BY DEF Lookup
<1>2. s \in Slots /\ l \in Labels
    BY <1>1, ThreadTyped DEF At
<1>3. Cleared(l, s)
    BY <1>1 DEF IInv, Probed, In, At, Probing
<1>4. thread[th].owed => \E q \in Slots : Holds(q, l) /\ Cleared(l, q)
    <2>1. thread[th].owed => \E r \in registered : r.label = l
        BY <1>1 DEF IInv, Owed, In, At, LookingUp
    <2>2. \A r \in registered : r.task \in Slots /\ Holds(r.task, r.label)
        BY DEF IInv, TypeOK, Kept
    <2>3. \A q \in Slots : Holds(q, l) => Cleared(l, q)
        BY DEF IInv, Placed, Holds
    <2> QED
        BY <2>1, <2>2, <2>3
<1>5. CASE lifecycle[s] = "EMPTY"
    <2>1. Go(th, "missed")
        BY <1>5 DEF Lookup
    <2>2. ASSUME NEW q \in Slots, Holds(q, l), Cleared(l, q)
          PROVE  FALSE
        <3>1. q \in Passed(l, s) \/ q = s \/ s \in Passed(l, q)
            BY <1>2, OnePassed
        <3> QED
            BY <1>3, <1>5, <2>2, <3>1 DEF Cleared, Holds, Ready
    <2> QED
        BY <1>1, <1>4, <2>1, <2>2, LookupMissesInv
<1>6. CASE lifecycle[s] = "READY" /\ slotLabel[s] = l
    <2>1. Go(th, "found")
        BY <1>6 DEF Lookup
    <2> QED
        BY <1>1, <2>1, LookupHitInv
<1>7. CASE lifecycle[s] = "READY" /\ slotLabel[s] # l
    <2>1. Advance(th, "missed")
        BY <1>7 DEF Lookup
    <2>2. /\ (s + 1) % Capacity \in Slots
          /\ (s + 1) % Capacity # Home[l] => Cleared(l, (s + 1) % Capacity)
          /\ (s + 1) % Capacity = Home[l] => \A q \in Slots : slotLabel[q] # l
        BY <1>2, <1>3, <1>7, NextCleared DEF Ready
    <2>3. CASE (s + 1) % Capacity = Home[l]
        <3>1. ~thread[th].owed
            BY <1>4, <2>2, <2>3 DEF Holds
        <3>2. Go(th, "missed")
            BY <2>1, <2>3 DEF Advance
        <3> QED
            BY <1>1, <3>1, <3>2, LookupMissesInv
    <2>4. CASE (s + 1) % Capacity # Home[l]
        <3>1. PICK next \in Slots : next = (s + 1) % Capacity
            BY <2>2
        <3>2. thread' = [thread EXCEPT ![th].slot = next]
            BY <2>1, <2>4, <3>1 DEF Advance
        <3>3. Moved(th, "lookup", thread[th].label, thread[th].token, next,
                    thread[th].edge, thread[th].head, thread[th].owed)
            BY <1>1, <3>2, SlotMoves DEF At
        <3> QED
            BY <1>1, <2>2, <2>4, <3>1, <3>3, LookupNextInv
    <2> QED
        BY <2>3, <2>4
<1> QED
    BY <1>5, <1>6, <1>7 DEF Lookup

\* Claiming, filling and publishing a slot, taking the gate, and returning.
LEMMA SlotStep ==
    ASSUME IInv, NEW th \in Threads,
           \/ ClaimSlot(th) \/ Fill(th) \/ Publish(th) \/ AcquireGate(th)
           \/ ReturnRegistered(th) \/ Return(th)
    PROVE  IInv'
<1>1. thread \in [Threads -> Thread]
    BY ThreadTyped
<1>2. {"probe", "fill", "publish", "gate", "check"} \subseteq Places
    BY DEF Places, Registering
<1>3. \A p \in {"probe", "fill", "publish", "gate", "check"} : Go(th, p) => Moves(th, p)
    BY <1>1, <1>2, GoMoves
<1>4. ASSUME ClaimSlot(th)
      PROVE  IInv'
    <2>1. CASE lifecycle[thread[th].slot] = "EMPTY"
        <3>1. Moves(th, "fill")
            BY <1>3, <1>4, <2>1 DEF ClaimSlot
        <3> QED
            BY <1>4, <2>1, <3>1, SlotClaimedInv DEF ClaimSlot
    <2>2. CASE lifecycle[thread[th].slot] # "EMPTY"
        <3>1. At(th, "claimSlot") /\ Go(th, "probe") /\ UNCHANGED lifecycle
              /\ UNCHANGED <<slotLabel, ownerHead, gate, edgeVars, calls, registered>>
            BY <1>4, <2>2 DEF ClaimSlot
        <3> QED
            BY <3>1, ClaimLostInv DEF slotVars
    <2> QED
        BY <2>1, <2>2
<1>5. ASSUME Fill(th)
      PROVE  IInv'
    <2>1. Moves(th, "publish")
        BY <1>3, <1>5 DEF Fill
    <2> QED
        BY <1>5, <2>1, SlotFilledInv DEF Fill
<1>6. ASSUME Publish(th)
      PROVE  IInv'
    <2>1. Moves(th, "gate")
        BY <1>3, <1>6 DEF Publish
    <2> QED
        BY <1>6, <2>1, SlotPublishedInv DEF Publish
<1>7. ASSUME AcquireGate(th)
      PROVE  IInv'
    <2>1. Moves(th, "check")
        BY <1>3, <1>7 DEF AcquireGate
    <2> QED
        BY <1>7, <2>1, GateClosesInv DEF AcquireGate
<1>8. ASSUME ReturnRegistered(th)
      PROVE  IInv'
    <2>1. Moved(th, "idle", None, None, 0, NoLink, NoLink, FALSE)
        BY <1>1, <1>8, IdleMoves DEF ReturnRegistered
    <2> QED
        BY <1>8, <2>1, ReturnRegisteredInv DEF ReturnRegistered
<1>9. ASSUME Return(th)
      PROVE  IInv'
    <2>1. Moved(th, "idle", None, None, 0, NoLink, NoLink, FALSE)
        BY <1>1, <1>9, IdleMoves DEF Return
    <2> QED
        BY <1>9, <2>1, ReturnInv DEF Return
<1> QED
    BY <1>4, <1>5, <1>6, <1>7, <1>8, <1>9

\* Under the gate no other thread links an edge of the task, so the owner list that
\* the check walks has every edge the task has, and each is in its client's list.
LEMMA AllLinked ==
    ASSUME IInv, NEW th \in Threads, At(th, "check"), NEW e \in EdgeIds, Drawn(e),
           edges[e].task = thread[th].slot
    PROVE  ~Unlinked(e, Linking) /\ ~Unlinked(e, {"ownerLoad", "ownerPush"})
<1>1. ASSUME NEW u \in Threads, In(u, Linking), thread[u].edge = e
      PROVE  FALSE
    <2>1. thread[u].slot = thread[th].slot
        BY <1>1 DEF IInv, Reserved, EdgeOf
    <2>2. In(u, Holding) /\ In(th, Holding)
        BY <1>1 DEF In, At, Holding
    <2>3. u = th
        BY <2>1, <2>2 DEF IInv, Gated
    <2> QED
        BY <1>1, <2>3 DEF In, At, Linking
<1>2. \A u \in Threads : In(u, {"ownerLoad", "ownerPush"}) => In(u, Linking)
    BY DEF In, Linking
<1> QED
    BY <1>1, <1>2 DEF Unlinked

LEMMA CheckStep ==
    ASSUME IInv, NEW th \in Threads, CheckOwner(th)
    PROVE  IInv'
<1> DEFINE s == thread[th].slot
           k == thread[th].token
<1>1. At(th, "check") /\ UNCHANGED <<slotVars, edgeVars, calls, registered>>
    BY DEF CheckOwner
<1>2. s \in Slots
    BY ThreadTyped
<1>3. Ready(s)
    BY <1>1 DEF IInv, Located, In, At, Holding, Holds
<1>4. HasOwner(s, k) <=> \E e \in OwnerSet(s) : edges[e].token = k
    BY <1>2, <1>3, OwnersAre DEF HasOwner, Ready
<1>5. CASE HasOwner(s, k)
    <2>1. PICK e \in OwnerSet(s) : edges[e].token = k
        BY <1>4, <1>5
    <2>2. e \in EdgeIds /\ Drawn(e) /\ edges[e].task = s
        BY DEF OwnerSet
    <2>3. e \in UserSet(k)
        BY <1>1, <2>1, <2>2, AllLinked DEF UserSet
    <2>4. Go(th, "return")
        BY <1>5 DEF CheckOwner
    <2> QED
        BY <1>1, <2>2, <2>3, <2>4, CheckOwnedInv
<1>6. CASE ~HasOwner(s, k)
    <2>1. ASSUME NEW e \in EdgeIds, EdgeOf(e, s, k)
          PROVE  FALSE
        <3>1. Drawn(e) /\ edges[e].task = s /\ edges[e].token = k
            BY <2>1 DEF EdgeOf
        <3>2. e \in OwnerSet(s)
            BY <1>1, <3>1, AllLinked DEF OwnerSet
        <3> QED
            BY <1>4, <1>6, <3>1, <3>2
    <2>2. Go(th, "reserve")
        BY <1>6 DEF CheckOwner
    <2> QED
        BY <1>1, <2>1, <2>2, CheckNotOwnedInv
<1> QED
    BY <1>5, <1>6

LEMMA ReserveStep ==
    ASSUME IInv, NEW th \in Threads, Reserve(th)
    PROVE  IInv'
<1>1. thread \in [Threads -> Thread] /\ thread[th] \in Thread
    BY ThreadTyped
<1>2. At(th, "reserve") /\ UNCHANGED <<lifecycle, slotLabel, ownerHead, inverseHead, calls,
                                       registered>>
    BY DEF Reserve
<1>3. CASE nextEdge < MaxEdges
    <2> DEFINE v == [thread[th] EXCEPT !.pc = "ownerLoad", !.edge = nextEdge]
    <2>1. /\ thread' = [thread EXCEPT ![th] = v]
          /\ nextEdge' = nextEdge + 1
          /\ edges' = [edges EXCEPT ![nextEdge].token = thread[th].token,
                                    ![nextEdge].task = thread[th].slot]
          /\ UNCHANGED gate
        <3>1. ~(nextEdge >= MaxEdges)
            BY <1>3 DEF IInv, TypeOK
        <3> QED
            BY <3>1 DEF Reserve
    <2>2. nextEdge \in Links
        BY <1>3 DEF IInv, TypeOK, Links, EdgeIds
    <2>3. "ownerLoad" \in Places
        BY DEF Places, Registering
    <2>4. v \in Thread
        BY <1>1, <2>2, <2>3, FieldsSet
    <2>5. /\ v.pc = "ownerLoad" /\ v.label = thread[th].label /\ v.token = thread[th].token
          /\ v.slot = thread[th].slot /\ v.edge = nextEdge /\ v.head = thread[th].head
          /\ v.owed = thread[th].owed
        BY <1>1 DEF Thread
    <2> HIDE DEF v
    <2>6. Moved(th, v.pc, v.label, v.token, v.slot, v.edge, v.head, v.owed)
        BY <1>1, <2>1, <2>4, MovedByExcept
    <2>7. Moved(th, "ownerLoad", thread[th].label, thread[th].token, thread[th].slot,
                nextEdge, thread[th].head, thread[th].owed)
        BY <2>5, <2>6
    <2>8. UNCHANGED <<slotVars, inverseHead, calls, registered>>
        BY <1>2, <2>1 DEF slotVars
    <2> QED
        BY <1>2, <1>3, <2>1, <2>7, <2>8, EdgeDrawnInv
<1>4. CASE ~(nextEdge < MaxEdges)
    <2>1. /\ gate' = [gate EXCEPT ![thread[th].slot] = FALSE]
          /\ Go(th, "fail")
          /\ UNCHANGED <<edges, nextEdge>>
        BY <1>4 DEF Reserve
    <2>2. Moves(th, "fail")
        BY <1>1, <2>1, GoMoves DEF Places, Registering
    <2>3. UNCHANGED <<lifecycle, slotLabel, ownerHead, edgeVars, calls, registered>>
        BY <1>2, <2>1 DEF edgeVars
    <2> QED
        BY <1>2, <2>1, <2>2, <2>3, GateOpensOnFailureInv
<1> QED
    BY <1>3, <1>4

LEMMA LinkStep ==
    ASSUME IInv, NEW th \in Threads,
           OwnerLoad(th) \/ OwnerPush(th) \/ UserLoad(th) \/ UserPush(th)
    PROVE  IInv'
<1>1. thread \in [Threads -> Thread]
    BY ThreadTyped
<1>2. \A p \in {"userLoad", "return"} : Go(th, p) => Moves(th, p)
    BY <1>1, GoMoves DEF Places, Registering
<1>3. ASSUME OwnerLoad(th)
      PROVE  IInv'
    BY <1>3, OwnerLinkedInv DEF OwnerLoad, At, In, slotVars
<1>4. ASSUME UserLoad(th)
      PROVE  IInv'
    BY <1>4, UserLinkedInv DEF UserLoad, At, In, slotVars
<1>5. ASSUME OwnerPush(th)
      PROVE  IInv'
    <2>1. CASE ownerHead[thread[th].slot] = thread[th].head
        <3>1. Moves(th, "userLoad")
            BY <1>2, <1>5, <2>1 DEF OwnerPush
        <3> QED
            BY <1>5, <2>1, <3>1, OwnerPushedInv DEF OwnerPush
    <2>2. CASE ownerHead[thread[th].slot] # thread[th].head
        BY <1>5, <2>2, OwnerLinkedInv DEF OwnerPush, At, In
    <2> QED
        BY <2>1, <2>2
<1>6. ASSUME UserPush(th)
      PROVE  IInv'
    <2>1. CASE inverseHead[thread[th].token] = thread[th].head
        <3>1. Moves(th, "return")
            BY <1>2, <1>6, <2>1 DEF UserPush
        <3> QED
            BY <1>6, <2>1, <3>1, UserPushedInv DEF UserPush, slotVars
    <2>2. CASE inverseHead[thread[th].token] # thread[th].head
        BY <1>6, <2>2, UserLinkedInv DEF UserPush, At, In, slotVars
    <2> QED
        BY <2>1, <2>2
<1> QED
    BY <1>3, <1>4, <1>5, <1>6

LEMMA IndexStutters ==
    ASSUME IInv, UNCHANGED vars
    PROVE  IInv'
<1>1. UNCHANGED <<lifecycle, slotLabel, ownerHead, gate, edges, nextEdge, inverseHead, thread,
                  calls, registered>>
    BY DEF vars, slotVars, edgeVars
<1>2. /\ \A s : Ready(s)' <=> Ready(s)
      /\ \A s, l : Holds(s, l)' <=> Holds(s, l)
      /\ \A s, l : Cleared(l, s)' <=> Cleared(l, s)
    BY <1>1, SlotsSame
<1>3. /\ \A e : Drawn(e)' <=> Drawn(e)
      /\ \A e, s, k : EdgeOf(e, s, k)' <=> EdgeOf(e, s, k)
      /\ NextTasks' = NextTasks /\ NextUsers' = NextUsers
    BY <1>1, EdgesSame
<1>4. /\ \A s : OwnerSet(s)' = OwnerSet(s)
      /\ \A k : UserSet(k)' = UserSet(k)
    BY <1>1 DEF OwnerSet, UserSet, Drawn, Unlinked, In
<1>5. TypeOK' /\ Arguments' /\ Claims' /\ Gated'
    BY <1>1 DEF IInv, TypeOK, Arguments, Claims, Gated, In, At
<1>6. Placed' /\ Probed' /\ Located'
    BY <1>1, <1>2 DEF IInv, Placed, Probed, Located, In
<1>7. Reserved' /\ EdgesNamed' /\ Asked' /\ OneEdgePerOwner'
    BY <1>1, <1>2, <1>3 DEF IInv, Reserved, EdgesNamed, Asked, OneEdgePerOwner, In, At
<1>8. OwnerLists' /\ UserLists'
    BY <1>1, <1>3, <1>4 DEF IInv, OwnerLists, UserLists
<1>9. Answered' /\ Kept' /\ Owed'
    BY <1>1, <1>2, <1>4 DEF IInv, Answered, Kept, Owed, In, At
<1> QED
    BY <1>5, <1>6, <1>7, <1>8, <1>9 DEF IInv

LEMMA IndexStep ==
    ASSUME IInv, Next
    PROVE  IInv'
<1> PICK th \in Threads : \/ \E l \in Labels, k \in Tokens : BeginRegister(th, l, k)
                          \/ \E l \in Labels : BeginLookup(th, l)
                          \/ Step(th)
    BY DEF Next
<1>1. CASE \E l \in Labels, k \in Tokens : BeginRegister(th, l, k)
    BY <1>1, BeginStep
<1>2. CASE \E l \in Labels : BeginLookup(th, l)
    BY <1>2, BeginStep
<1>3. CASE Step(th)
    BY <1>3, ProbeStep, SlotStep, CheckStep, ReserveStep, LinkStep, LookupStep DEF Step
<1> QED
    BY <1>1, <1>2, <1>3

LEMMA IndexInvariant == Spec => []IInv
<1>1. IInv /\ [Next]_vars => IInv'
    BY IndexStep, IndexStutters
<1> QED
    BY IndexStart, <1>1, PTL DEF Spec

-----------------------------------------------------------------------------
\* Theorems

\* The variables of the index have their types: no slot, edge or head is ever outside
\* the arrays native/atomic_word.cpp allocates.
THEOREM IndexTypeCorrect == Spec => []TypeOK
<1>1. IInv => TypeOK
    BY DEF IInv
<1> QED
    BY <1>1, IndexInvariant, PTL

\* No label is ever published in two slots, whatever the threads, the collisions and
\* the size of the table: two published slots with one label would each lie on the
\* other's probe sequence, and the probe that reached the second has passed the first.
THEOREM UniqueSlotHolds == Spec => []UniqueSlot
<1>1. IInv => UniqueSlot
    <2> SUFFICES ASSUME IInv, NEW s \in Slots, NEW t \in Slots, Ready(s), Ready(t),
                        slotLabel[s] = slotLabel[t]
                 PROVE  s = t
        BY DEF UniqueSlot, Ready
    <2> DEFINE l == slotLabel[s]
    <2>1. l \in Labels /\ Cleared(l, s) /\ Cleared(l, t)
        BY DEF IInv, Placed
    <2>2. t \in Passed(l, s) \/ t = s \/ s \in Passed(l, t)
        BY <2>1, OnePassed
    <2> QED
        BY <2>1, <2>2 DEF Cleared
<1> QED
    BY <1>1, IndexInvariant, PTL

\* The registrations of one client for one task draw at most one edge, however often
\* they are retried and by however many threads: the answer a thread got under the
\* gate still holds when it draws the edge.
THEOREM OneEdgePerOwnerHolds == Spec => []OneEdgePerOwner
<1>1. IInv => OneEdgePerOwner
    BY DEF IInv
<1> QED
    BY <1>1, IndexInvariant, PTL

\* An edge that a client's task list has is in the owner list of its task.
LEMMA UserEdgeIsOwners ==
    ASSUME IInv, NEW k \in Tokens, NEW e \in UserSet(k)
    PROVE  HasOwner(edges[e].task, k)
<1>1. e \in EdgeIds /\ Drawn(e) /\ edges[e].token = k /\ ~Unlinked(e, Linking)
    BY DEF UserSet
<1>2. edges[e].task \in Slots
    BY <1>1 DEF IInv, TypeOK, Edge
<1>3. ~Unlinked(e, {"ownerLoad", "ownerPush"})
    BY <1>1 DEF Unlinked, In, Linking
<1>4. e \in OwnerSet(edges[e].task)
    BY <1>1, <1>3 DEF OwnerSet
<1>5. Ready(edges[e].task)
    BY <1>1 DEF IInv, EdgesNamed
<1> QED
    BY <1>1, <1>2, <1>4, <1>5, OwnersAre DEF HasOwner, Ready

\* A registration that returned stays visible in both directions: no push of a
\* competing thread ever loses an edge of either list, in lists of any length.
THEOREM RegisteredIsVisibleHolds == Spec => []RegisteredIsVisible
<1>1. IInv => RegisteredIsVisible
    <2> SUFFICES ASSUME IInv, NEW r \in registered
                 PROVE  /\ slotLabel[r.task] = r.label
                        /\ HasOwner(r.task, r.token)
                        /\ r.task \in ClientTasks(r.token)
        BY DEF RegisteredIsVisible
    <2>1. r.token \in Tokens
        BY DEF IInv, TypeOK
    <2>2. Holds(r.task, r.label)
        BY DEF IInv, Kept
    <2>3. PICK e \in UserSet(r.token) : edges[e].task = r.task
        BY DEF IInv, Kept
    <2>4. HasOwner(r.task, r.token)
        BY <2>1, <2>3, UserEdgeIsOwners
    <2>5. r.task \in ClientTasks(r.token)
        BY <2>1, <2>3, ClientTasksAre
    <2> QED
        BY <2>2, <2>4, <2>5 DEF Holds
<1> QED
    BY <1>1, IndexInvariant, PTL

\* A client's task list never names a task whose owner list lacks the client, also
\* while the edge is linked into one list and then the other.
THEOREM InverseImpliesOwnerHolds == Spec => []InverseImpliesOwner
<1>1. IInv => InverseImpliesOwner
    <2> SUFFICES ASSUME IInv, NEW k \in Tokens, NEW s \in ClientTasks(k)
                 PROVE  HasOwner(s, k)
        BY DEF InverseImpliesOwner
    <2>1. PICK e \in UserSet(k) : s = edges[e].task
        BY ClientTasksAre
    <2> QED
        BY <2>1, UserEdgeIsOwners
<1> QED
    BY <1>1, IndexInvariant, PTL

\* A lookup that begins after a registration of its label has returned finds it: no
\* slot of a probe sequence is ever empty before one that is filled.
THEOREM LookupFindsRegisteredHolds == Spec => []LookupFindsRegistered
<1>1. IInv => LookupFindsRegistered
    BY DEF IInv, Owed, LookupFindsRegistered
<1> QED
    BY <1>1, IndexInvariant, PTL

=============================================================================
