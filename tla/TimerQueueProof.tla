-------------------------- MODULE TimerQueueProof --------------------------
(***************************************************************************)
(* Theorems of TimerQueue and of the heap it keeps its timers in, for any  *)
(* timers, any length of time, and users that are not Careless.            *)
(***************************************************************************)
EXTENDS TimerQueue, SequenceTheorems, FiniteSetTheorems, NaturalsInduction,
        WellFoundedInduction, TLAPS

----------------------------------------------------------------------------
(* The slots that a hole visits.                                           *)

(* The hole gets nearer to its end with every move: rank falls.            *)
Descends(to, rank) ==
    /\ to \in [DOMAIN to -> DOMAIN to]
    /\ rank \in [DOMAIN to -> Nat]
    /\ \A i \in DOMAIN to : to[i] # i => rank[to[i]] < rank[i]

(* The fewest slots with i, and with each slot where the hole goes next.   *)
Closed(to, S) == S \subseteq DOMAIN to /\ \A j \in S : to[j] \in S
Closure(to, i) == {j \in DOMAIN to : \A S \in SUBSET DOMAIN to :
                                        i \in S /\ Closed(to, S) => j \in S}

(* The relation of the well-foundedness theorem is the order on the        *)
(* naturals.                                                               *)
LEMMA Below == \A n, m \in Nat : n < m <=> <<n, m>> \in OpToRel(<, Nat)
  BY DEF OpToRel

(* Every set of numbers has a least...                                     *)
LEMMA LeastElement ==
    ASSUME NEW T, T \subseteq Nat, T # {}
    PROVE  \E x \in T : \A y \in T : ~(y < x)
  <1>1. PICK x \in T : \A y \in T : <<y, x>> \notin OpToRel(<, Nat)
    BY NatLessThanWellFounded, WFMin
  <1> QED BY <1>1, Below

(* ... and every set of slots one of least rank.                           *)
LEMMA LeastRank ==
    ASSUME NEW to, NEW rank, Descends(to, rank), NEW T, T \subseteq DOMAIN to, T # {}
    PROVE  \E x \in T : \A y \in T : ~(rank[y] < rank[x])
  <1> DEFINE R == {k \in Nat : \E x \in T : rank[x] = k}
  <1>1. PICK t \in T : t \in DOMAIN to
    OBVIOUS
  <1>2. \A x \in T : rank[x] \in Nat
    BY DEF Descends
  <1>3. R # {} /\ R \subseteq Nat
    BY <1>1, <1>2
  <1>4. PICK k \in R : \A l \in R : ~(l < k)
    BY <1>3, LeastElement
  <1>5. PICK x \in T : rank[x] = k
    BY <1>4
  <1> QED BY <1>2, <1>4, <1>5

(* The closure of a slot is closed, and the least that is.                 *)
LEMMA ClosureIsLeast ==
    ASSUME NEW to, to \in [DOMAIN to -> DOMAIN to], NEW i \in DOMAIN to
    PROVE  /\ i \in Closure(to, i)
           /\ Closed(to, Closure(to, i))
           /\ \A S : i \in S /\ Closed(to, S) => Closure(to, i) \subseteq S
  BY DEF Closure, Closed

(* What follows the first slot is the closure of the second.               *)
LEMMA ClosureStep ==
    ASSUME NEW to, to \in [DOMAIN to -> DOMAIN to], NEW i \in DOMAIN to
    PROVE  Closure(to, i) = IF to[i] = i THEN {i} ELSE {i} \cup Closure(to, to[i])
  <1>0. to[i] \in DOMAIN to
    OBVIOUS
  <1>1. i \in Closure(to, i) /\ Closed(to, Closure(to, i))
    BY ClosureIsLeast
  <1>2. CASE to[i] = i
    <2>1. Closed(to, {i})
      BY <1>2 DEF Closed
    <2> QED BY <1>1, <1>2, <2>1, ClosureIsLeast
  <1>3. CASE to[i] # i
    <2>1. Closed(to, {i} \cup Closure(to, to[i]))
      BY <1>0, ClosureIsLeast DEF Closed
    <2>2. Closure(to, i) \subseteq {i} \cup Closure(to, to[i])
      BY <2>1, ClosureIsLeast
    <2>3. to[i] \in Closure(to, i)
      BY <1>1 DEF Closed
    <2>4. Closure(to, to[i]) \subseteq Closure(to, i)
      BY <1>0, <1>1, <2>3, ClosureIsLeast
    <2> QED BY <1>1, <1>3, <2>2, <2>4
  <1> QED BY <1>2, <1>3

(* The slots that the loop visits are the closure of the first one.        *)
LEMMA VisitedIsClosure ==
    ASSUME NEW to, NEW rank, Descends(to, rank), NEW hole \in DOMAIN to
    PROVE  Visited(to, hole) = Closure(to, hole)
  <1> DEFINE chain[i \in DOMAIN to] == IF to[i] = i THEN {i} ELSE {i} \cup chain[to[i]]
  <1>0. to \in [DOMAIN to -> DOMAIN to]
    BY DEF Descends
  <1>1. \E f : f = [i \in DOMAIN to |-> IF to[i] = i THEN {i} ELSE {i} \cup f[to[i]]]
    <2> DEFINE g == [i \in DOMAIN to |-> Closure(to, i)]
    <2>1. \A i \in DOMAIN to : g[i] = IF to[i] = i THEN {i} ELSE {i} \cup g[to[i]]
      BY <1>0, ClosureStep
    <2>2. g = [i \in DOMAIN to |-> IF to[i] = i THEN {i} ELSE {i} \cup g[to[i]]]
      BY <2>1
    <2> QED BY <2>2
  <1>2. chain = [i \in DOMAIN to |-> IF to[i] = i THEN {i} ELSE {i} \cup chain[to[i]]]
    BY <1>1 DEF chain
  <1>3. Visited(to, hole) = chain[hole]
    BY DEF Visited
  <1> HIDE DEF chain
  <1>4. \A i \in DOMAIN to : chain[i] = Closure(to, i)
    <2> DEFINE Bad == {i \in DOMAIN to : chain[i] # Closure(to, i)}
    <2> SUFFICES ASSUME Bad # {} PROVE FALSE
      OBVIOUS
    <2>1. PICK i \in Bad : \A j \in Bad : ~(rank[j] < rank[i])
      BY LeastRank
    <2>2. i \in DOMAIN to /\ to[i] \in DOMAIN to /\ chain[i] # Closure(to, i)
      BY <1>0, <2>1
    <2>3. to[i] # i => chain[to[i]] = Closure(to, to[i])
      BY <2>1, <2>2 DEF Descends
    <2> HIDE DEF Bad
    <2> QED BY <1>0, <1>2, <2>2, <2>3, ClosureStep
  <1> QED BY <1>3, <1>4

(* The path of the hole: it has a beginning and one end, the last slot and *)
(* no other; every other slot in it is come to from one slot, so that what *)
(* is moved is moved once.                                                 *)
IsPath(to, hole, P) ==
    /\ hole \in P /\ P \subseteq DOMAIN to
    /\ \A j \in P : to[j] \in P
    /\ \A j \in P : j # hole => \E k \in P : k # j /\ to[k] = j
    /\ \E s \in P : to[s] = s /\ \A j \in P : to[j] = j => j = s
    /\ \A j, k \in P : to[j] # j /\ to[k] # k /\ to[j] = to[k] => j = k

(* Of two slots visited one is visited from the other.                     *)
LEMMA Comparable ==
    ASSUME NEW to, to \in [DOMAIN to -> DOMAIN to], NEW hole \in DOMAIN to,
           NEW k \in Closure(to, hole), NEW j \in Closure(to, hole)
    PROVE  k \in Closure(to, j) \/ j \in Closure(to, k)
  <1>0. k \in DOMAIN to /\ j \in DOMAIN to
    BY DEF Closure
  <1> DEFINE Q == {i \in DOMAIN to : k \in Closure(to, i) \/ i \in Closure(to, k)}
  <1>1. hole \in Q
    OBVIOUS
  <1>2. ASSUME NEW i \in Q PROVE to[i] \in Q
    <2>0. to[i] \in DOMAIN to
      OBVIOUS
    <2>1. CASE i \in Closure(to, k)
      BY <1>0, <2>0, <2>1, ClosureIsLeast DEF Closed
    <2>2. CASE k \in Closure(to, i) /\ k = i
      BY <1>0, <2>0, <2>2, ClosureIsLeast DEF Closed
    <2>3. CASE k \in Closure(to, i) /\ k # i
      <3>1. k \in Closure(to, to[i])
        BY <2>3, ClosureStep
      <3> QED BY <2>0, <3>1
    <2> QED BY <2>1, <2>2, <2>3
  <1>3. Closed(to, Q)
    BY <1>2 DEF Closed
  <1>4. j \in Q
    BY <1>1, <1>3, ClosureIsLeast
  <1> QED BY <1>4

(* From a slot nothing of higher rank is visited.                          *)
LEMMA RankFalls ==
    ASSUME NEW to, NEW rank, Descends(to, rank), NEW i \in DOMAIN to,
           NEW j \in Closure(to, i)
    PROVE  ~(rank[i] < rank[j])
  <1> DEFINE S == {x \in DOMAIN to : ~(rank[i] < rank[x])}
  <1>1. i \in S
    BY DEF Descends
  <1>2. ASSUME NEW x \in S PROVE to[x] \in S
    <2>1. rank[i] \in Nat /\ rank[x] \in Nat /\ rank[to[x]] \in Nat /\ to[x] \in DOMAIN to
      BY DEF Descends
    <2>2. to[x] = x \/ rank[to[x]] < rank[x]
      BY DEF Descends
    <2> QED BY <2>1, <2>2
  <1>3. Closed(to, S)
    BY <1>2 DEF Closed
  <1>4. to \in [DOMAIN to -> DOMAIN to]
    BY DEF Descends
  <1> QED BY <1>1, <1>3, <1>4, ClosureIsLeast

(* The slots visited are the path of the hole.                             *)
LEMMA VisitedIsPath ==
    ASSUME NEW to, NEW rank, Descends(to, rank), NEW hole \in DOMAIN to
    PROVE  IsPath(to, hole, Visited(to, hole))
  <1> DEFINE P == Closure(to, hole)
  <1>0. to \in [DOMAIN to -> DOMAIN to] /\ Visited(to, hole) = P
    BY VisitedIsClosure DEF Descends
  <1>1. hole \in P /\ P \subseteq DOMAIN to /\ \A j \in P : to[j] \in P
    BY <1>0, ClosureIsLeast DEF Closed
  <1>2. ASSUME NEW j \in P, j # hole PROVE \E k \in P : k # j /\ to[k] = j
    <2> SUFFICES ASSUME \A k \in P : k # j => to[k] # j PROVE FALSE
      OBVIOUS
    <2>1. Closed(to, P \ {j})
      BY <1>1 DEF Closed
    <2>2. hole \in P \ {j}
      BY <1>1, <1>2
    <2> QED BY <1>0, <2>1, <2>2, ClosureIsLeast
  <1>3. PICK s \in P : \A y \in P : ~(rank[y] < rank[s])
    BY <1>1, LeastRank
  <1>4. to[s] = s
    BY <1>1, <1>3 DEF Descends
  <1>5. ASSUME NEW j \in P, to[j] = j PROVE j = s
    <2>1. s \in Closure(to, j) \/ j \in Closure(to, s)
      BY <1>0, Comparable
    <2>2. Closure(to, j) = {j} /\ Closure(to, s) = {s}
      BY <1>0, <1>1, <1>4, <1>5, ClosureStep
    <2> QED BY <2>1, <2>2
  <1>6. ASSUME NEW j \in P, NEW k \in P, to[j] # j, to[k] # k, to[j] = to[k], j # k
        PROVE FALSE
    <2>1. k \in Closure(to, j) \/ j \in Closure(to, k)
      BY <1>0, Comparable
    <2>2. k \in Closure(to, to[j]) \/ j \in Closure(to, to[k])
      BY <1>0, <1>1, <1>6, <2>1, ClosureStep
    <2>3. rank[to[j]] < rank[j] /\ rank[to[k]] < rank[k] /\ to[j] \in DOMAIN to
      BY <1>1, <1>6 DEF Descends
    <2> QED BY <1>6, <2>2, <2>3, RankFalls
  <1> HIDE DEF P
  <1>7. IsPath(to, hole, P)
    BY <1>1, <1>2, <1>3, <1>4, <1>5, <1>6 DEF IsPath
  <1> QED BY <1>0, <1>7

----------------------------------------------------------------------------
(* What a sift loop does to the heap.                                      *)

HeapType == [event : [Slots -> Timer \cup {NoTimer}],
             size  : 0 .. Cardinality(Timer),
             idx   : [Timer -> Slots \cup {NotInHeap, Unset}]]

(* The slots are numbers, as many as there are timers.                     *)
LEMMA SlotsAre ==
    /\ Cardinality(Timer) \in Nat
    /\ \A i : i \in Slots <=> i \in Nat /\ i < Cardinality(Timer)
  BY TimerAssumption, FS_CardinalityType DEF Slots

(* The parts of a heap.                                                    *)
LEMMA HeapParts ==
    ASSUME NEW h \in HeapType
    PROVE  /\ h.event \in [Slots -> Timer \cup {NoTimer}]
           /\ h.size \in Nat /\ h.size <= Cardinality(Timer)
           /\ h.idx \in [Timer -> Slots \cup {NotInHeap, Unset}]
           /\ \A i \in 0 .. h.size - 1 : i \in Slots
  <1>1. h.size \in 0 .. Cardinality(Timer)
    BY DEF HeapType
  <1> QED BY <1>1, SlotsAre DEF HeapType

(* The only element of a set is its least and its greatest.                *)
LEMMA OnlyOne ==
    ASSUME NEW x \in Int PROVE Min({x}) = x /\ Max({x}) = x
  BY DEF Min, Max

(* What is stored in the slots visited.                                    *)
Stored(h, to, e, i) == IF to[i] = i THEN e ELSE h.event[to[i]]

(* The slots visited get what is stored in them, and what is stored there  *)
(* knows its slot; all else stays.                                         *)
SiftedTo(h, g, to, P, e) ==
    /\ g \in HeapType /\ g.size = h.size
    /\ \A i \in Slots : g.event[i] = IF i \in P THEN Stored(h, to, e, i) ELSE h.event[i]
    /\ \A i \in P : g.idx[Stored(h, to, e, i)] = i
    /\ \A t \in Timer : (\A i \in P : t # Stored(h, to, e, i)) => g.idx[t] = h.idx[t]

(* That is what Sift does, when no timer is stored twice.                  *)
LEMMA SiftStores ==
    ASSUME NEW h \in HeapType, NEW to, NEW hole, NEW e \in Timer, NEW up,
           NEW P, P = Visited(to, hole), P \subseteq Slots,
           \A i \in P : Stored(h, to, e, i) \in Timer,
           \A i, j \in P : Stored(h, to, e, i) = Stored(h, to, e, j) => i = j
    PROVE  SiftedTo(h, Sift(h, to, hole, e, up), to, P, e)
  <1> DEFINE stored == [i \in P |-> Stored(h, to, e, i)]
             at(t)  == {i \in P : stored[i] = t}
             ev     == [i \in Slots |-> IF i \in P THEN stored[i] ELSE h.event[i]]
             ix     == [t \in Timer |-> IF at(t) = {} THEN h.idx[t]
                                        ELSE IF up THEN Min(at(t)) ELSE Max(at(t))]
             g      == Sift(h, to, hole, e, up)
  <1>1. g = [h EXCEPT !.event = ev, !.idx = ix]
    BY DEF Sift, Stored
  <1>2. g.event = ev /\ g.idx = ix /\ g.size = h.size
    BY <1>1 DEF HeapType
  <1>3. \A i \in P : stored[i] = Stored(h, to, e, i)
    OBVIOUS
  <1>4. ASSUME NEW i \in P PROVE ix[Stored(h, to, e, i)] = i
    <2>1. at(Stored(h, to, e, i)) = {i}
      BY <1>3
    <2>2. i \in Int
      BY SlotsAre
    <2>3. Min({i}) = i /\ Max({i}) = i
      BY <2>2, OnlyOne
    <2> QED BY <2>1, <2>3
  <1>5. ASSUME NEW t \in Timer, \A i \in P : t # Stored(h, to, e, i)
        PROVE  ix[t] = h.idx[t]
    <2>1. at(t) = {}
      BY <1>3, <1>5
    <2> QED BY <2>1
  <1>6. ev \in [Slots -> Timer \cup {NoTimer}]
    BY HeapParts
  <1>7. ix \in [Timer -> Slots \cup {NotInHeap, Unset}]
    <2>1. ix = [t \in Timer |-> ix[t]]
      OBVIOUS
    <2>2. ASSUME NEW t \in Timer PROVE ix[t] \in Slots \cup {NotInHeap, Unset}
      <3>1. CASE \E i \in P : t = Stored(h, to, e, i)
        BY <1>4, <3>1
      <3>2. CASE \A i \in P : t # Stored(h, to, e, i)
        BY <1>5, <3>2, HeapParts
      <3> QED BY <3>1, <3>2
    <2> HIDE DEF ix
    <2> QED BY <2>1, <2>2
  <1>8. ASSUME NEW i \in Slots
        PROVE  ev[i] = IF i \in P THEN Stored(h, to, e, i) ELSE h.event[i]
    BY <1>3
  <1> HIDE DEF ev, ix, g
  <1>9. g \in HeapType
    BY <1>1, <1>6, <1>7 DEF HeapType
  <1>10. SiftedTo(h, g, to, P, e)
    BY <1>2, <1>4, <1>5, <1>8, <1>9 DEF SiftedTo
  <1> QED BY <1>10 DEF g

(* Apart from the hole the members know their slots, and e is none of them.*)
Loose(h, hole, e) ==
    /\ hole \in 0 .. h.size - 1
    /\ \A i \in 0 .. h.size - 1 : i # hole =>
          h.event[i] \in Timer /\ h.event[i] # e /\ h.idx[h.event[i]] = i

Others(h, hole) == {h.event[i] : i \in (0 .. h.size - 1) \ {hole}}

(* e has come in, every member knows its slot, nobody else's is touched.   *)
Filled(h, g, hole, e) ==
    /\ g \in HeapType /\ g.size = h.size
    /\ \A i \in 0 .. h.size - 1 : g.event[i] \in Timer /\ g.idx[g.event[i]] = i
    /\ Members(g) = Others(h, hole) \cup {e}
    /\ \A t \in Timer \ Members(g) : g.idx[t] = h.idx[t]

(* The hole stays among the members and never comes back.                  *)
Keeps(h, to, hole, P) ==
    /\ P \subseteq 0 .. h.size - 1
    /\ \A i \in P : to[i] # i => to[i] # hole

(* A sift loop that starts from a loose heap fills the hole.               *)
LEMMA SiftFills ==
    ASSUME NEW h \in HeapType, NEW to, NEW hole, NEW e \in Timer, NEW up,
           NEW P, P = Visited(to, hole), IsPath(to, hole, P), Loose(h, hole, e),
           Keeps(h, to, hole, P)
    PROVE  /\ SiftedTo(h, Sift(h, to, hole, e, up), to, P, e)
           /\ Filled(h, Sift(h, to, hole, e, up), hole, e)
  <1> DEFINE n == h.size
             g == Sift(h, to, hole, e, up)
  <1>0. P \subseteq Slots /\ \A i \in 0 .. n - 1 : i \in Slots
    BY HeapParts DEF Keeps
  <1>1. ASSUME NEW i \in P, to[i] # i
        PROVE  /\ to[i] \in 0 .. n - 1 /\ to[i] # hole
               /\ Stored(h, to, e, i) = h.event[to[i]]
               /\ h.event[to[i]] \in Timer /\ h.event[to[i]] # e
               /\ h.idx[h.event[to[i]]] = to[i]
    BY <1>1 DEF IsPath, Keeps, Loose, Stored
  <1>2. \A i \in P : to[i] = i => Stored(h, to, e, i) = e
    BY DEF Stored
  <1>3. \A i \in P : Stored(h, to, e, i) \in Timer
    BY <1>1, <1>2
  <1>4. ASSUME NEW i \in P, NEW j \in P, Stored(h, to, e, i) = Stored(h, to, e, j)
        PROVE  i = j
    <2>1. CASE to[i] = i \/ to[j] = j
      <3>1. to[i] = i /\ to[j] = j
        BY <1>1, <1>2, <1>4, <2>1
      <3> QED BY <3>1 DEF IsPath
    <2>2. CASE to[i] # i /\ to[j] # j
      <3>1. to[i] = to[j]
        BY <1>1, <1>4, <2>2
      <3> QED BY <2>2, <3>1 DEF IsPath
    <2> QED BY <2>1, <2>2
  <1>5. SiftedTo(h, g, to, P, e)
    BY <1>0, <1>3, <1>4, SiftStores
  <1> HIDE DEF g
  <1>6. g \in HeapType /\ g.size = n
    BY <1>5 DEF SiftedTo
  <1>7. ASSUME NEW i \in P
        PROVE  /\ g.event[i] = Stored(h, to, e, i) /\ g.event[i] \in Timer
               /\ g.idx[g.event[i]] = i
    BY <1>0, <1>3, <1>5 DEF SiftedTo
  <1>8. ASSUME NEW i \in 0 .. n - 1, i \notin P
        PROVE  /\ g.event[i] = h.event[i] /\ g.event[i] \in Timer
               /\ g.idx[g.event[i]] = i /\ i # hole
    <2>1. i # hole /\ h.event[i] \in Timer /\ h.event[i] # e /\ h.idx[h.event[i]] = i
      BY <1>8 DEF IsPath, Loose
    <2>2. ASSUME NEW j \in P PROVE h.event[i] # Stored(h, to, e, j)
      <3>1. CASE to[j] = j
        BY <1>2, <2>1, <3>1
      <3>2. CASE to[j] # j
        <4>1. to[j] \in P
          BY DEF IsPath
        <4> QED BY <1>1, <1>8, <2>1, <3>2, <4>1
      <3> QED BY <3>1, <3>2
    <2>3. g.event[i] = h.event[i]
      BY <1>0, <1>5, <1>8 DEF SiftedTo
    <2>4. g.idx[h.event[i]] = h.idx[h.event[i]]
      BY <1>5, <2>1, <2>2 DEF SiftedTo
    <2> QED BY <2>1, <2>3, <2>4
  <1>9. Members(g) = Others(h, hole) \cup {e}
    <2>1. ASSUME NEW i \in 0 .. n - 1 PROVE g.event[i] \in Others(h, hole) \cup {e}
      <3>1. CASE i \notin P
        BY <1>8, <3>1 DEF Others
      <3>2. CASE i \in P /\ to[i] = i
        BY <1>2, <1>7, <3>2
      <3>3. CASE i \in P /\ to[i] # i
        BY <1>1, <1>7, <3>3 DEF Others
      <3> QED BY <3>1, <3>2, <3>3
    <2>2. e \in Members(g)
      <3>1. PICK s \in P : to[s] = s
        BY DEF IsPath
      <3>2. s \in 0 .. n - 1 /\ g.event[s] = e
        BY <1>2, <1>7, <3>1 DEF Keeps
      <3> QED BY <1>6, <3>2 DEF Members
    <2>3. ASSUME NEW i \in 0 .. n - 1, i # hole PROVE h.event[i] \in Members(g)
      <3>1. CASE i \notin P
        BY <1>6, <1>8, <3>1 DEF Members
      <3>2. CASE i \in P
        <4>1. PICK k \in P : k # i /\ to[k] = i
          BY <2>3, <3>2 DEF IsPath
        <4>2. k \in 0 .. n - 1 /\ g.event[k] = h.event[i]
          BY <1>1, <1>7, <4>1 DEF Keeps
        <4> QED BY <1>6, <4>2 DEF Members
      <3> QED BY <3>1, <3>2
    <2> QED BY <1>6, <2>1, <2>2, <2>3 DEF Members, Others
  <1>10. ASSUME NEW t \in Timer \ Members(g) PROVE g.idx[t] = h.idx[t]
    <2>1. ASSUME NEW i \in P PROVE t # Stored(h, to, e, i)
      <3>1. i \in 0 .. n - 1 /\ g.event[i] = Stored(h, to, e, i)
        BY <1>7 DEF Keeps
      <3>2. g.event[i] \in Members(g)
        BY <1>6, <3>1 DEF Members
      <3> QED BY <3>1, <3>2
    <2> QED BY <1>5, <2>1 DEF SiftedTo
  <1>11. Filled(h, g, hole, e)
    BY <1>6, <1>7, <1>8, <1>9, <1>10 DEF Filled
  <1> QED BY <1>5, <1>11 DEF g

----------------------------------------------------------------------------
(* The heap order.                                                         *)

(* Slots and their parents.                                                *)
LEMMA ParentIs ==
    ASSUME NEW i \in Nat, i # 0
    PROVE  /\ Parent(i) \in Nat /\ Parent(i) < i
           /\ i = 2 * Parent(i) + 1 \/ i = 2 * Parent(i) + 2
  BY DEF Parent

(* ... and their children.                                                 *)
LEMMA ChildIs ==
    ASSUME NEW i \in Nat
    PROVE  /\ RightChild(i) = 2 * i + 2
           /\ Parent(2 * i + 1) = i /\ Parent(2 * i + 2) = i
  BY DEF RightChild, Parent

(* The order holds wherever the hole is not one of the two.                *)
OrderedButAt(h, when, hole) ==
    \A i \in 1 .. h.size - 1 : i # hole /\ Parent(i) # hole =>
        when[h.event[Parent(i)]] <= when[h.event[i]]

(* A hole to be filled upwards: e and what is above the hole fit above     *)
(* what is below.                                                          *)
FitsAbove(h, when, hole, e) ==
    \A i \in 1 .. h.size - 1 : Parent(i) = hole =>
        /\ when[e] <= when[h.event[i]]
        /\ hole > 0 => when[h.event[Parent(hole)]] <= when[h.event[i]]

(* A hole to be filled downwards: e and what is below the hole fit below   *)
(* what is above.                                                          *)
FitsBelow(h, when, hole, e) ==
    hole > 0 =>
        /\ when[h.event[Parent(hole)]] <= when[e]
        /\ \A i \in 1 .. h.size - 1 : Parent(i) = hole =>
              when[h.event[Parent(hole)]] <= when[h.event[i]]

(* The way up.                                                             *)
LEMMA UpPath ==
    ASSUME NEW h \in HeapType, NEW when, NEW hole \in Slots, NEW e,
           NEW to, to = UpFrom(h, when, hole, e), NEW P, P = Visited(to, hole)
    PROVE  /\ IsPath(to, hole, P) /\ P \subseteq 0 .. hole
           /\ \A i \in P : to[i] # i =>
                 /\ i # 0 /\ to[i] = Parent(i)
                 /\ Greater(when, h.event[Parent(i)], e)
           /\ \A i \in P : to[i] = i => i = 0 \/ ~Greater(when, h.event[Parent(i)], e)
  <1> DEFINE rank == [i \in 0 .. hole |-> i]
  <1>0. hole \in Nat
    BY SlotsAre
  <1>1. DOMAIN to = 0 .. hole
    BY DEF UpFrom
  <1>2. ASSUME NEW i \in 0 .. hole
        PROVE  to[i] = IF i = 0 \/ ~Greater(when, h.event[Parent(i)], e)
                       THEN i ELSE Parent(i)
    BY DEF UpFrom
  <1>3. ASSUME NEW i \in 0 .. hole
        PROVE  to[i] \in 0 .. hole /\ (to[i] # i => to[i] < i)
    <2>1. i \in Nat /\ i <= hole
      BY <1>0
    <2>2. i # 0 => Parent(i) \in Nat /\ Parent(i) < i
      BY <2>1, ParentIs
    <2>3. to[i] = i \/ (i # 0 /\ to[i] = Parent(i))
      BY <1>2
    <2> QED BY <1>0, <2>1, <2>2, <2>3
  <1>4. to = [i \in 0 .. hole |-> to[i]]
    BY DEF UpFrom
  <1>5. Descends(to, rank)
    <2>1. to \in [DOMAIN to -> DOMAIN to]
      BY <1>1, <1>3, <1>4
    <2>2. rank \in [DOMAIN to -> Nat]
      BY <1>0, <1>1
    <2> QED BY <1>1, <1>3, <2>1, <2>2 DEF Descends
  <1>6. IsPath(to, hole, P) /\ P \subseteq 0 .. hole
    <2>1. hole \in DOMAIN to
      BY <1>0, <1>1
    <2>2. IsPath(to, hole, P)
      BY <1>5, <2>1, VisitedIsPath
    <2> QED BY <1>1, <2>2 DEF IsPath
  <1>7. ASSUME NEW i \in P, i # 0 PROVE Parent(i) # i
    <2>1. i \in Nat
      BY <1>0, <1>6
    <2> QED BY <1>7, <2>1, ParentIs
  <1>8. ASSUME NEW i \in P
        PROVE  to[i] = IF i = 0 \/ ~Greater(when, h.event[Parent(i)], e)
                       THEN i ELSE Parent(i)
    BY <1>2, <1>6
  <1> QED BY <1>6, <1>7, <1>8

(* min_heap_shift_up_ fills the hole and restores the order; what is on    *)
(* top stays there if it is not greater than e.                            *)
LEMMA ShiftUpOrders ==
    ASSUME NEW h \in HeapType, NEW when \in [Timer -> Int], NEW hole, NEW e \in Timer,
           Loose(h, hole, e), OrderedButAt(h, when, hole), FitsAbove(h, when, hole, e)
    PROVE  /\ Filled(h, ShiftUp(h, when, hole, e), hole, e)
           /\ IsHeap(ShiftUp(h, when, hole, e), when)
           /\ hole > 0 /\ when[h.event[0]] <= when[e] =>
                    ShiftUp(h, when, hole, e).event[0] = h.event[0]
  <1> DEFINE n    == h.size
             to   == UpFrom(h, when, hole, e)
             P    == Visited(to, hole)
             g    == ShiftUp(h, when, hole, e)
             E(i) == when[h.event[i]]
             G(i) == when[g.event[i]]
             x    == when[e]
  <1>0. n \in Nat /\ hole \in 0 .. n - 1 /\ hole \in Slots
    BY HeapParts DEF Loose
  <1>1. /\ IsPath(to, hole, P) /\ P \subseteq 0 .. hole
        /\ \A i \in P : to[i] # i =>
              /\ i # 0 /\ to[i] = Parent(i)
              /\ Greater(when, h.event[Parent(i)], e)
        /\ \A i \in P : to[i] = i => i = 0 \/ ~Greater(when, h.event[Parent(i)], e)
    BY <1>0, UpPath
  <1> HIDE DEF to, P
  <1>2. P \subseteq 0 .. n - 1
    BY <1>0, <1>1
  <1>3. ASSUME NEW i \in P, to[i] # i
        PROVE  /\ to[i] = Parent(i) /\ Parent(i) \in 0 .. n - 1 /\ Parent(i) # hole
               /\ i # 0 /\ Parent(i) \in P
    <2>1. i \in Nat /\ i <= hole /\ i # 0 /\ to[i] = Parent(i)
      BY <1>0, <1>1, <1>3
    <2>2. Parent(i) \in Nat /\ Parent(i) < i
      BY <2>1, ParentIs
    <2>3. Parent(i) \in P
      BY <1>1, <2>1 DEF IsPath
    <2> QED BY <1>0, <2>1, <2>2, <2>3
  <1>4. Keeps(h, to, hole, P)
    BY <1>2, <1>3 DEF Keeps
  <1>5. SiftedTo(h, g, to, P, e) /\ Filled(h, g, hole, e)
    BY <1>1, <1>4, SiftFills DEF ShiftUp, to, P
  <1> HIDE DEF g
  <1>6. /\ x \in Int
        /\ \A i \in 0 .. n - 1 : G(i) \in Int
        /\ \A i \in 0 .. n - 1 : i # hole => E(i) \in Int
    BY <1>5 DEF Filled, Loose
  <1>7. ASSUME NEW i \in P, to[i] = i PROVE G(i) = x
    <2>1. g.event[i] = e
      BY <1>0, <1>2, <1>5, <1>7, HeapParts DEF SiftedTo, Stored
    <2> QED BY <2>1
  <1>8. ASSUME NEW i \in P, to[i] # i PROVE G(i) = E(Parent(i)) /\ x < E(Parent(i))
    <2>1. g.event[i] = h.event[Parent(i)]
      BY <1>2, <1>3, <1>5, <1>8, HeapParts DEF SiftedTo, Stored
    <2>2. Greater(when, h.event[Parent(i)], e)
      BY <1>1, <1>8
    <2>3. E(Parent(i)) > x
      BY <2>2 DEF Greater
    <2> QED BY <1>3, <1>6, <1>8, <2>1, <2>3
  <1>9. ASSUME NEW i \in 0 .. n - 1, i \notin P PROVE G(i) = E(i) /\ i # hole
    BY <1>1, <1>5, <1>9, HeapParts DEF SiftedTo, IsPath
  <1>10. ASSUME NEW i \in P, to[i] = i, i # 0, i # hole PROVE E(Parent(i)) <= x
    <2>1. ~(E(Parent(i)) > x)
      BY <1>1, <1>10 DEF Greater
    <2>2. i \in Nat /\ i <= hole
      BY <1>0, <1>1
    <2>3. Parent(i) \in Nat /\ Parent(i) < i
      BY <1>10, <2>2, ParentIs
    <2>4. Parent(i) \in 0 .. n - 1 /\ Parent(i) # hole
      BY <1>0, <2>2, <2>3
    <2> QED BY <1>6, <2>1, <2>4
  <1>11. to[hole] = hole /\ hole # 0 => E(Parent(hole)) <= x
    <2> SUFFICES ASSUME to[hole] = hole, hole # 0 PROVE E(Parent(hole)) <= x
      OBVIOUS
    <2>1. hole \in P
      BY <1>1 DEF IsPath
    <2>2. ~(E(Parent(hole)) > x)
      BY <1>1, <2>1 DEF Greater
    <2>3. Parent(hole) \in Nat /\ Parent(hole) < hole
      BY <1>0, ParentIs
    <2>4. Parent(hole) \in 0 .. n - 1 /\ Parent(hole) # hole
      BY <1>0, <2>3
    <2> QED BY <1>6, <2>2, <2>4
  <1>12. ASSUME NEW i \in 1 .. n - 1, i # hole, Parent(i) # hole PROVE E(Parent(i)) <= E(i)
    BY <1>12 DEF OrderedButAt
  <1>13. ASSUME NEW i \in 1 .. n - 1, Parent(i) = hole
         PROVE  x <= E(i) /\ (hole > 0 => E(Parent(hole)) <= E(i))
    BY <1>13 DEF FitsAbove
  <1>14. ASSUME NEW i \in 1 .. n - 1
         PROVE  i \in 0 .. n - 1 /\ i # 0 /\ Parent(i) \in 0 .. n - 1 /\ Parent(i) < i
    <2>1. i \in Nat /\ i # 0 /\ i < n
      BY <1>0
    <2>2. Parent(i) \in Nat /\ Parent(i) < i
      BY <2>1, ParentIs
    <2> QED BY <1>0, <2>1, <2>2
  <1>15. ASSUME NEW i \in 0 .. n - 1, i # hole PROVE G(i) <= E(i)
    <2>1. CASE i \notin P
      BY <1>6, <1>9, <1>15, <2>1
    <2>2. CASE i \in P
      <3>1. PICK k \in P : k # i /\ to[k] = i
        BY <1>1, <1>15, <2>2 DEF IsPath
      <3>2. i = Parent(k) /\ x < E(i)
        BY <1>3, <1>8, <3>1
      <3>3. CASE to[i] = i
        BY <1>6, <1>7, <1>15, <2>2, <3>2, <3>3
      <3>4. CASE to[i] # i
        <4>1. i # 0 /\ Parent(i) # hole /\ G(i) = E(Parent(i))
          BY <1>3, <1>8, <2>2, <3>4
        <4>2. i \in 1 .. n - 1
          BY <1>0, <4>1
        <4> QED BY <1>12, <1>15, <4>1, <4>2
      <3> QED BY <3>3, <3>4
    <2> QED BY <2>1, <2>2
  <1>16. ASSUME NEW i \in 1 .. n - 1 PROVE G(Parent(i)) <= G(i)
    <2>0. /\ i \in 0 .. n - 1 /\ i # 0 /\ Parent(i) \in 0 .. n - 1 /\ Parent(i) < i
          /\ i \in Nat /\ Parent(i) \in Nat
      BY <1>0, <1>14
    <2>1. CASE i \in P /\ to[i] # i
      <3>1. Parent(i) \in P /\ Parent(i) # hole /\ G(i) = E(Parent(i))
        BY <1>3, <1>8, <2>1
      <3> QED BY <1>15, <2>0, <3>1
    <2>2. CASE i \in P /\ to[i] = i
      <3>1. G(i) = x /\ i <= hole
        BY <1>0, <1>1, <1>7, <2>2
      <3>2. Parent(i) # hole
        BY <1>0, <2>0, <3>1
      <3>3. E(Parent(i)) <= x
        BY <1>10, <1>11, <2>0, <2>2
      <3>4. G(Parent(i)) <= E(Parent(i))
        BY <1>15, <2>0, <3>2
      <3> QED BY <1>6, <2>0, <3>1, <3>2, <3>3, <3>4
    <2>3. CASE i \notin P /\ Parent(i) = hole
      <3>1. G(i) = E(i) /\ i # hole /\ x <= E(i) /\ (hole > 0 => E(Parent(hole)) <= E(i))
        BY <1>9, <1>13, <2>0, <2>3
      <3>2. hole \in P
        BY <1>1 DEF IsPath
      <3>3. G(hole) = x \/ (hole # 0 /\ G(hole) = E(Parent(hole)))
        BY <1>3, <1>7, <1>8, <3>2
      <3> QED BY <1>0, <2>3, <3>1, <3>3
    <2>4. CASE i \notin P /\ Parent(i) # hole
      <3>1. G(i) = E(i) /\ i # hole
        BY <1>9, <2>0, <2>4
      <3>2. E(Parent(i)) <= E(i) /\ G(Parent(i)) <= E(Parent(i))
        BY <1>12, <1>15, <2>0, <2>4, <3>1
      <3> QED BY <1>6, <2>0, <2>4, <3>1, <3>2
    <2> QED BY <2>1, <2>2, <2>3, <2>4
  <1>17. IsHeap(g, when)
    <2>1. g.size = n
      BY <1>5 DEF Filled
    <2>2. ASSUME NEW i \in 0 .. n - 1, i > 0
          PROVE  ~Greater(when, g.event[Parent(i)], g.event[i])
      <3>1. i \in 1 .. n - 1
        BY <1>0, <2>2
      <3>2. G(Parent(i)) <= G(i) /\ G(Parent(i)) \in Int /\ G(i) \in Int
        BY <1>6, <1>14, <1>16, <3>1
      <3> QED BY <3>2 DEF Greater
    <2>3. \A i \in 0 .. n - 1 : g.idx[g.event[i]] = i
      BY <1>5 DEF Filled
    <2> QED BY <2>1, <2>2, <2>3 DEF IsHeap
  <1>18. ASSUME hole > 0, E(0) <= x PROVE g.event[0] = h.event[0]
    <2>1. 0 \in 0 .. n - 1 /\ 0 # hole
      BY <1>0, <1>18
    <2>2. CASE 0 \notin P
      BY <1>5, <2>1, <2>2, HeapParts DEF SiftedTo
    <2>3. CASE 0 \in P
      <3>1. PICK k \in P : k # 0 /\ to[k] = 0
        BY <1>1, <2>1, <2>3 DEF IsPath
      <3>2. x < E(0)
        BY <1>3, <1>8, <3>1
      <3> QED BY <1>6, <1>18, <2>1, <3>2
    <2> QED BY <2>2, <2>3
  <1> QED BY <1>5, <1>17, <1>18 DEF g

(* The way down goes from parent to child.                                 *)
LEMMA DownMoves ==
    ASSUME NEW h \in HeapType, NEW when, NEW e, NEW to, to = DownFrom(h, when, e),
           NEW i \in Slots
    PROVE  /\ \/ to[i] = i
              \/ /\ to[i] \in 1 .. h.size - 1 /\ Parent(to[i]) = i
                 /\ to[i] = LesserChild(h, when, i)
                 /\ Greater(when, e, h.event[LesserChild(h, when, i)])
           /\ to[i] = i => \/ RightChild(i) > h.size
                           \/ ~Greater(when, e, h.event[LesserChild(h, when, i)])
  <1> DEFINE n == h.size
             r == RightChild(i)
             c == LesserChild(h, when, i)
  <1>1. i \in Nat /\ n \in Nat /\ r = 2 * i + 2
    BY SlotsAre, HeapParts, ChildIs
  <1>2. to[i] = IF r > n \/ ~Greater(when, e, h.event[c]) THEN i ELSE c
    BY DEF DownFrom, PastEnd
  <1>3. c = r \/ c = r - 1
    BY DEF LesserChild
  <1>4. r = n => c = r - 1
    BY DEF LesserChild
  <1>5. Parent(2 * i + 1) = i /\ Parent(2 * i + 2) = i
    BY <1>1, ChildIs
  <1>6. 2 * i + 1 = r - 1
    BY <1>1
  <1> HIDE DEF r, c, n
  <1>7. Parent(c) = i /\ c # i
    BY <1>1, <1>3, <1>5, <1>6
  <1>8. r <= n => c \in 1 .. n - 1
    BY <1>1, <1>3, <1>4
  <1>9. ~(r > n) => r <= n
    BY <1>1
  <1> QED BY <1>2, <1>7, <1>8, <1>9 DEF n, r, c

(* From the hole on it takes the lesser child, if that is less than e.     *)
LEMMA DownChoice ==
    ASSUME NEW h \in HeapType, NEW when \in [Timer -> Int], NEW hole, NEW e \in Timer,
           Loose(h, hole, e), NEW to, to = DownFrom(h, when, e),
           NEW i \in hole .. h.size - 1
    PROVE  /\ to[i] # i =>
                /\ when[h.event[to[i]]] < when[e]
                /\ \A j \in 1 .. h.size - 1 : Parent(j) = i =>
                        when[h.event[to[i]]] <= when[h.event[j]]
           /\ to[i] = i =>
                \A j \in 1 .. h.size - 1 : Parent(j) = i => when[e] <= when[h.event[j]]
  <1> DEFINE n == h.size
             r == RightChild(i)
             c == LesserChild(h, when, i)
             E(j) == when[h.event[j]]
             x == when[e]
  <1>1. n \in Nat /\ i \in Nat /\ hole \in Nat /\ hole <= i /\ i \in Slots
    BY HeapParts DEF Loose
  <1>2. /\ \/ to[i] = i
           \/ /\ to[i] \in 1 .. n - 1 /\ Parent(to[i]) = i
              /\ to[i] = c /\ Greater(when, e, h.event[c])
        /\ to[i] = i => r > n \/ ~Greater(when, e, h.event[c])
    BY <1>1, DownMoves
  <1>3. c = IF r = n \/ Greater(when, h.event[r], h.event[r - 1]) THEN r - 1 ELSE r
    BY DEF LesserChild
  <1>4. r = 2 * i + 2 /\ Parent(2 * i + 1) = i /\ Parent(2 * i + 2) = i
    BY <1>1, ChildIs
  <1>5. ASSUME NEW j \in 1 .. n - 1, Parent(j) = i
        PROVE  (j = r \/ j = r - 1) /\ j # hole /\ j \in Nat /\ j < n
    <2>1. j \in Nat /\ j # 0 /\ j < n
      BY <1>1
    <2>2. Parent(j) < j /\ (j = 2 * Parent(j) + 1 \/ j = 2 * Parent(j) + 2)
      BY <2>1, ParentIs
    <2> QED BY <1>1, <1>4, <1>5, <2>1, <2>2
  <1>6. x \in Int
    OBVIOUS
  <1>7. ASSUME NEW j \in 0 .. n - 1, j # hole PROVE E(j) \in Int
    BY <1>7 DEF Loose
  <1> HIDE DEF r, c, n
  <1>8. ASSUME NEW j \in 1 .. n - 1, Parent(j) = i
        PROVE  c \in 0 .. n - 1 /\ c # hole /\ E(c) <= E(j) /\ ~(r > n)
    <2>1. j = r \/ j = r - 1
      BY <1>5, <1>8
    <2>2. r \in Int /\ r - 1 > hole /\ r - 1 \in 0 .. n - 1
      BY <1>1, <1>4, <1>5, <1>8
    <2>3. r # n => r \in 0 .. n - 1
      BY <1>1, <2>2
    <2>4. E(r - 1) \in Int
      BY <1>1, <1>7, <2>2
    <2>5. r # n => E(r) \in Int
      BY <1>1, <1>7, <2>2, <2>3
    <2>6. CASE r = n
      <3>1. c = r - 1 /\ j = r - 1
        BY <1>1, <1>3, <2>1, <2>6
      <3> QED BY <1>1, <2>2, <2>4, <2>6, <3>1
    <2>7. CASE r # n /\ Greater(when, h.event[r], h.event[r - 1])
      <3>1. c = r - 1
        BY <1>3, <2>7
      <3>2. E(r) > E(r - 1)
        BY <2>7 DEF Greater
      <3>3. E(r - 1) <= E(j)
        BY <2>1, <2>4, <2>5, <2>7, <3>2
      <3> QED BY <1>1, <2>2, <2>3, <2>7, <3>1, <3>3
    <2>8. CASE r # n /\ ~Greater(when, h.event[r], h.event[r - 1])
      <3>1. c = r
        BY <1>3, <2>8
      <3>2. ~(E(r) > E(r - 1))
        BY <2>8 DEF Greater
      <3>3. E(r) <= E(j)
        BY <2>1, <2>4, <2>5, <2>8, <3>2
      <3> QED BY <1>1, <2>2, <2>3, <2>8, <3>1, <3>3
    <2> QED BY <2>6, <2>7, <2>8
  <1>9. ASSUME to[i] # i
        PROVE  E(to[i]) < x /\ \A j \in 1 .. n - 1 : Parent(j) = i => E(to[i]) <= E(j)
    <2>1. to[i] = c /\ c \in 1 .. n - 1 /\ Greater(when, e, h.event[c])
      BY <1>2, <1>9
    <2>2. Parent(c) = i
      BY <1>2, <1>9
    <2>3. c \in 0 .. n - 1 /\ c # hole
      BY <1>8, <2>1, <2>2
    <2>4. x > E(c)
      BY <2>1 DEF Greater
    <2>5. E(c) < x
      BY <1>6, <1>7, <2>3, <2>4
    <2> QED BY <1>8, <2>1, <2>5
  <1>10. ASSUME to[i] = i, NEW j \in 1 .. n - 1, Parent(j) = i PROVE x <= E(j)
    <2>1. c \in 0 .. n - 1 /\ c # hole /\ E(c) <= E(j) /\ ~(r > n)
      BY <1>8, <1>10
    <2>2. ~(x > E(c))
      BY <1>2, <1>10, <2>1 DEF Greater
    <2>3. j \in 0 .. n - 1 /\ j # hole
      BY <1>1, <1>5, <1>10
    <2> QED BY <1>6, <1>7, <2>1, <2>2, <2>3
  <1> QED BY <1>9, <1>10 DEF n

(* The path down.                                                          *)
LEMMA DownPath ==
    ASSUME NEW h \in HeapType, NEW when, NEW hole \in Slots, NEW e,
           NEW to, to = DownFrom(h, when, e), NEW P, P = Visited(to, hole)
    PROVE  /\ IsPath(to, hole, P)
           /\ \A i \in P : i \in Nat /\ i >= hole /\ (i = hole \/ i < h.size)
           /\ \A i \in P : to[i] # i => to[i] > hole
  <1> DEFINE N == Cardinality(Timer)
             rank == [i \in Slots |-> N - i]
  <1>0. hole \in Nat /\ N \in Nat /\ h.size \in Nat /\ h.size <= N
    BY SlotsAre, HeapParts
  <1>1. DOMAIN to = Slots
    BY DEF DownFrom
  <1>2. to = [i \in Slots |-> to[i]]
    BY DEF DownFrom
  <1>3. ASSUME NEW i \in Slots
        PROVE  /\ to[i] \in Slots /\ i \in Nat /\ i < N
               /\ to[i] # i => to[i] \in Nat /\ to[i] > i /\ to[i] < h.size
    <2>1. i \in Nat /\ i < N
      BY SlotsAre
    <2>2. CASE to[i] = i
      BY <2>1, <2>2
    <2>3. CASE to[i] # i
      <3>1. to[i] \in 1 .. h.size - 1 /\ Parent(to[i]) = i
        BY <2>3, DownMoves
      <3>2. to[i] \in Nat /\ to[i] # 0 /\ to[i] < h.size
        BY <1>0, <3>1
      <3>3. i < to[i]
        BY <3>1, <3>2, ParentIs
      <3>4. to[i] \in Slots
        BY <1>0, <3>2, SlotsAre
      <3> QED BY <2>1, <3>2, <3>3, <3>4
    <2> QED BY <2>2, <2>3
  <1>4. Descends(to, rank)
    <2>1. to \in [DOMAIN to -> DOMAIN to]
      BY <1>1, <1>2, <1>3
    <2>2. rank \in [DOMAIN to -> Nat]
      BY <1>0, <1>1, <1>3
    <2>3. ASSUME NEW i \in Slots, to[i] # i PROVE rank[to[i]] < rank[i]
      <3>1. to[i] \in Slots /\ i \in Nat /\ to[i] \in Nat /\ to[i] > i
        BY <1>3, <2>3
      <3> QED BY <1>0, <3>1
    <2> QED BY <1>1, <2>1, <2>2, <2>3 DEF Descends
  <1>5. IsPath(to, hole, P)
    BY <1>1, <1>4, VisitedIsPath
  <1>6. \A i \in P : i \in Nat /\ i >= hole /\ (i = hole \/ i < h.size)
    <2> DEFINE S == {i \in Slots : i >= hole /\ (i = hole \/ i < h.size)}
    <2>1. hole \in S
      BY <1>0
    <2>2. ASSUME NEW i \in S PROVE to[i] \in S
      BY <1>0, <1>3
    <2>3. Closed(to, S)
      BY <1>1, <2>2 DEF Closed
    <2>4. to \in [DOMAIN to -> DOMAIN to] /\ P = Closure(to, hole)
      BY <1>1, <1>4, VisitedIsClosure DEF Descends
    <2>5. P \subseteq S
      BY <1>1, <2>1, <2>3, <2>4, ClosureIsLeast
    <2> QED BY <1>3, <2>5
  <1>7. ASSUME NEW i \in P, to[i] # i PROVE to[i] > hole
    <2>1. i \in Slots
      BY <1>1, <1>5 DEF IsPath
    <2> QED BY <1>0, <1>3, <1>6, <1>7, <2>1
  <1> QED BY <1>5, <1>6, <1>7

(* min_heap_shift_down_ fills the hole and restores the order; what is on  *)
(* top, above the hole, stays there.                                       *)
LEMMA ShiftDownOrders ==
    ASSUME NEW h \in HeapType, NEW when \in [Timer -> Int], NEW hole, NEW e \in Timer,
           Loose(h, hole, e), OrderedButAt(h, when, hole), FitsBelow(h, when, hole, e)
    PROVE  /\ Filled(h, ShiftDown(h, when, hole, e), hole, e)
           /\ IsHeap(ShiftDown(h, when, hole, e), when)
           /\ hole > 0 => ShiftDown(h, when, hole, e).event[0] = h.event[0]
  <1> DEFINE n    == h.size
             to   == DownFrom(h, when, e)
             P    == Visited(to, hole)
             g    == ShiftDown(h, when, hole, e)
             E(i) == when[h.event[i]]
             G(i) == when[g.event[i]]
             x    == when[e]
  <1>0. n \in Nat /\ hole \in 0 .. n - 1 /\ hole \in Slots
    BY HeapParts DEF Loose
  <1>1. /\ IsPath(to, hole, P)
        /\ \A i \in P : i \in Nat /\ i >= hole /\ (i = hole \/ i < n)
        /\ \A i \in P : to[i] # i => to[i] > hole
    BY <1>0, DownPath
  <1>2. \A i \in hole .. n - 1 :
            /\ to[i] # i => /\ E(to[i]) < x
                            /\ \A j \in 1 .. n - 1 : Parent(j) = i => E(to[i]) <= E(j)
            /\ to[i] = i => \A j \in 1 .. n - 1 : Parent(j) = i => x <= E(j)
    BY DownChoice
  <1>3. \A i \in Slots : to[i] # i => to[i] \in 1 .. n - 1 /\ Parent(to[i]) = i
    BY DownMoves
  <1> HIDE DEF to, P
  <1>4. ASSUME NEW i \in P PROVE i \in 0 .. n - 1 /\ i \in hole .. n - 1 /\ i \in Slots
    BY <1>0, <1>1, HeapParts
  <1>5. ASSUME NEW i \in P, to[i] # i
        PROVE  to[i] \in 1 .. n - 1 /\ to[i] # hole /\ Parent(to[i]) = i /\ to[i] \in P
    BY <1>0, <1>1, <1>3, <1>4, <1>5 DEF IsPath
  <1>6. Keeps(h, to, hole, P)
    BY <1>4, <1>5 DEF Keeps
  <1>7. SiftedTo(h, g, to, P, e) /\ Filled(h, g, hole, e)
    BY <1>1, <1>6, SiftFills DEF ShiftDown, to, P
  <1> HIDE DEF g
  <1>8. /\ x \in Int
        /\ \A i \in 0 .. n - 1 : G(i) \in Int
        /\ \A i \in 0 .. n - 1 : i # hole => E(i) \in Int
    BY <1>7 DEF Filled, Loose
  <1>9. ASSUME NEW i \in P, to[i] = i PROVE G(i) = x
    <2>1. g.event[i] = e
      BY <1>4, <1>7, <1>9 DEF SiftedTo, Stored
    <2> QED BY <2>1
  <1>10. ASSUME NEW i \in P, to[i] # i PROVE G(i) = E(to[i]) /\ E(to[i]) < x
    <2>1. g.event[i] = h.event[to[i]]
      BY <1>4, <1>7, <1>10 DEF SiftedTo, Stored
    <2> QED BY <1>2, <1>4, <1>10, <2>1
  <1>11. ASSUME NEW i \in 0 .. n - 1, i \notin P PROVE G(i) = E(i) /\ i # hole
    BY <1>1, <1>7, <1>11, HeapParts DEF SiftedTo, IsPath
  <1>12. ASSUME NEW i \in 1 .. n - 1, i # hole, Parent(i) # hole PROVE E(Parent(i)) <= E(i)
    BY <1>12 DEF OrderedButAt
  <1>13. ASSUME NEW i \in 1 .. n - 1
         PROVE  /\ i \in 0 .. n - 1 /\ i # 0 /\ i \in Nat
                /\ Parent(i) \in 0 .. n - 1 /\ Parent(i) < i /\ Parent(i) \in Nat
    <2>1. i \in Nat /\ i # 0 /\ i < n
      BY <1>0
    <2>2. Parent(i) \in Nat /\ Parent(i) < i
      BY <2>1, ParentIs
    <2> QED BY <1>0, <2>1, <2>2
  <1>14. ASSUME NEW i \in 0 .. n - 1, i # hole PROVE E(i) <= G(i)
    <2>1. CASE i \notin P
      BY <1>8, <1>11, <1>14, <2>1
    <2>2. CASE i \in P
      <3>1. PICK k \in P : k # i /\ to[k] = i
        BY <1>1, <1>14, <2>2 DEF IsPath
      <3>2. E(i) < x
        BY <1>10, <3>1
      <3>3. CASE to[i] = i
        BY <1>8, <1>9, <1>14, <2>2, <3>2, <3>3
      <3>4. CASE to[i] # i
        <4>1. /\ to[i] \in 1 .. n - 1 /\ to[i] # hole /\ Parent(to[i]) = i
              /\ G(i) = E(to[i])
          BY <1>5, <1>10, <2>2, <3>4
        <4>2. E(Parent(to[i])) <= E(to[i])
          BY <1>12, <1>14, <4>1
        <4> QED BY <4>1, <4>2
      <3> QED BY <3>3, <3>4
    <2> QED BY <2>1, <2>2
  <1>15. ASSUME NEW i \in 1 .. n - 1 PROVE G(Parent(i)) <= G(i)
    <2>0. /\ i \in 0 .. n - 1 /\ i # 0 /\ Parent(i) \in 0 .. n - 1 /\ Parent(i) < i
          /\ i \in Nat /\ Parent(i) \in Nat
      BY <1>13
    <2>1. CASE Parent(i) \in P
      <3>1. i # hole /\ Parent(i) \in hole .. n - 1
        BY <1>0, <1>4, <2>0, <2>1
      <3>2. E(i) <= G(i) /\ E(i) \in Int /\ G(i) \in Int
        BY <1>8, <1>14, <2>0, <3>1
      <3>3. CASE to[Parent(i)] = Parent(i)
        <4>1. G(Parent(i)) = x /\ x <= E(i)
          BY <1>2, <1>9, <2>1, <3>1, <3>3
        <4> QED BY <1>8, <3>2, <4>1
      <3>4. CASE to[Parent(i)] # Parent(i)
        <4>1. G(Parent(i)) = E(to[Parent(i)]) /\ E(to[Parent(i)]) <= E(i)
          BY <1>2, <1>10, <2>1, <3>1, <3>4
        <4>2. to[Parent(i)] \in 0 .. n - 1 /\ to[Parent(i)] # hole
          BY <1>0, <1>5, <2>1, <3>4
        <4> QED BY <1>8, <3>2, <4>1, <4>2
      <3> QED BY <3>3, <3>4
    <2>2. CASE Parent(i) \notin P /\ i = hole
      <3>1. G(Parent(i)) = E(Parent(i)) /\ hole > 0 /\ hole \in P
        BY <1>0, <1>1, <1>11, <2>0, <2>2 DEF IsPath
      <3>2. E(Parent(hole)) <= x
        BY <3>1 DEF FitsBelow
      <3>3. CASE to[hole] = hole
        BY <1>9, <2>2, <3>1, <3>2, <3>3
      <3>4. CASE to[hole] # hole
        <4>1. to[hole] \in 1 .. n - 1 /\ Parent(to[hole]) = hole /\ G(hole) = E(to[hole])
          BY <1>5, <1>10, <3>1, <3>4
        <4>2. E(Parent(hole)) <= E(to[hole])
          BY <3>1, <4>1 DEF FitsBelow
        <4> QED BY <2>2, <3>1, <4>1, <4>2
      <3> QED BY <3>3, <3>4
    <2>3. CASE Parent(i) \notin P /\ i # hole
      <3>1. G(Parent(i)) = E(Parent(i)) /\ Parent(i) # hole
        BY <1>11, <2>0, <2>3
      <3>2. E(Parent(i)) <= E(i) /\ E(i) <= G(i)
        BY <1>12, <1>14, <2>0, <2>3, <3>1
      <3>3. E(i) \in Int /\ G(i) \in Int /\ G(Parent(i)) \in Int
        BY <1>8, <2>0, <2>3
      <3> QED BY <3>1, <3>2, <3>3
    <2> QED BY <2>1, <2>2, <2>3
  <1>16. IsHeap(g, when)
    <2>1. g.size = n
      BY <1>7 DEF Filled
    <2>2. ASSUME NEW i \in 0 .. n - 1, i > 0
          PROVE  ~Greater(when, g.event[Parent(i)], g.event[i])
      <3>1. i \in 1 .. n - 1
        BY <1>0, <2>2
      <3>2. G(Parent(i)) <= G(i) /\ G(Parent(i)) \in Int /\ G(i) \in Int
        BY <1>8, <1>13, <1>15, <3>1
      <3> QED BY <3>2 DEF Greater
    <2>3. \A i \in 0 .. n - 1 : g.idx[g.event[i]] = i
      BY <1>7 DEF Filled
    <2> QED BY <2>1, <2>2, <2>3 DEF IsHeap
  <1>17. ASSUME hole > 0 PROVE g.event[0] = h.event[0]
    <2>1. 0 \in 0 .. n - 1 /\ 0 \notin P
      BY <1>0, <1>1, <1>17
    <2> QED BY <1>7, <2>1, HeapParts DEF SiftedTo
  <1> QED BY <1>7, <1>16, <1>17 DEF g

(* With nothing below the hole the loop only stores e in it.               *)
LEMMA ShiftDownAtEnd ==
    ASSUME NEW h \in HeapType, NEW when, NEW hole \in Slots, hole = h.size, NEW e \in Timer
    PROVE  LET g == ShiftDown(h, when, hole, e)
           IN  /\ g \in HeapType /\ g.size = h.size
               /\ \A i \in 0 .. h.size - 1 : g.event[i] = h.event[i]
               /\ \A t \in Timer : g.idx[t] = IF t = e THEN hole ELSE h.idx[t]
  <1> DEFINE to == DownFrom(h, when, e)
             P  == Visited(to, hole)
             g  == ShiftDown(h, when, hole, e)
  <1>0. hole \in Nat
    BY SlotsAre
  <1>1. /\ IsPath(to, hole, P)
        /\ \A i \in P : i \in Nat /\ i >= hole /\ (i = hole \/ i < h.size)
    BY DownPath
  <1> HIDE DEF to, P
  <1>2. P = {hole}
    BY <1>0, <1>1 DEF IsPath
  <1>3. to[hole] = hole
    BY <1>1, <1>2 DEF IsPath
  <1>4. \A i \in P : Stored(h, to, e, i) = e
    BY <1>2, <1>3 DEF Stored
  <1>5. SiftedTo(h, g, to, P, e)
    BY <1>2, <1>4, SiftStores DEF ShiftDown, to, P
  <1> HIDE DEF g
  <1>6. \A i \in 0 .. h.size - 1 : i \in Slots /\ i \notin P
    BY <1>0, <1>2, HeapParts
  <1>7. \A t \in Timer : g.idx[t] = IF t = e THEN hole ELSE h.idx[t]
    BY <1>2, <1>4, <1>5 DEF SiftedTo
  <1>8. \A i \in 0 .. h.size - 1 : g.event[i] = h.event[i]
    BY <1>5, <1>6 DEF SiftedTo
  <1>9. g \in HeapType /\ g.size = h.size
    BY <1>5 DEF SiftedTo
  <1> QED BY <1>7, <1>8, <1>9 DEF g

----------------------------------------------------------------------------
(* What the timer queue relies on.                                         *)

(* A heap of the timers of M.                                              *)
HeapOf(h, when, M) ==
    h \in HeapType /\ IsHeap(h, when) /\ Members(h) = M /\ M \subseteq Timer

Armed   == {t \in Timer : status[t] = "armed"}
Running == IF pc = "callback" THEN {cur} ELSE {}

(* While a callback runs its timer is due and still on top: what is added  *)
(* meanwhile is not due before it.  Only a repeating timer is still armed. *)
OnTop ==
    /\ pollTime <= now
    /\ IF pc = "callback"
       THEN /\ cur \in Timer /\ heap.size > 0 /\ heap.event[0] = cur
            /\ exp[cur] <= pollTime
            /\ status[cur] = IF cur \in Repeating THEN "armed" ELSE "fired"
       ELSE cur = NoTimer

(* A slot that was never set belongs to a timer that nobody may cancel     *)
(* yet; what was cancelled is known not to be in the heap.                 *)
SlotsKnown ==
    \A t \in Timer :
        /\ status[t] \in {"new", "queued"} <=> heap.idx[t] = Unset
        /\ status[t] = "cancelled" => heap.idx[t] = NotInHeap
        /\ status[t] = "fired" => t \notin Repeating

(* A queued timer has one add to come, and a cancel comes after it.        *)
IsAdd(i, t) == ops[i].op = "add" /\ ops[i].timer = t
QueueOrdered ==
    /\ \A t \in Timer : status[t] = "queued" => \E i \in DOMAIN ops : IsAdd(i, t)
    /\ \A i \in DOMAIN ops :
          /\ ops[i].op = "add" =>
                /\ status[ops[i].timer] = "queued"
                /\ \A j \in DOMAIN ops : IsAdd(j, ops[i].timer) => j = i
          /\ ops[i].op = "cancel" =>
                /\ ops[i].timer \in Repeating
                /\ status[ops[i].timer] # "new"
                /\ status[ops[i].timer] = "queued" =>
                      \E j \in 1 .. i - 1 : IsAdd(j, ops[i].timer)

HeapRight == HeapOf(heap, exp, Armed \cup Running)

QueueInv == TypeOK /\ ~undef /\ HeapRight /\ OnTop /\ SlotsKnown /\ QueueOrdered

----------------------------------------------------------------------------
(* The operations of the heap.                                             *)

(* The members of a heap, each in its own slot.                            *)
LEMMA MembersAre ==
    ASSUME NEW h, NEW when, NEW M, HeapOf(h, when, M)
    PROVE  /\ h \in HeapType /\ h.size \in Nat /\ h.size <= Cardinality(Timer)
           /\ \A i \in 0 .. h.size - 1 :
                 i \in Slots /\ h.event[i] \in M /\ h.event[i] \in Timer
                    /\ h.idx[h.event[i]] = i
           /\ \A t \in M : /\ t \in Timer /\ h.idx[t] \in 0 .. h.size - 1
                           /\ h.event[h.idx[t]] = t
  <1>1. h \in HeapType
    BY DEF HeapOf
  <1>2. ASSUME NEW i \in 0 .. h.size - 1
        PROVE  /\ i \in Slots /\ h.event[i] \in M /\ h.event[i] \in Timer
               /\ h.idx[h.event[i]] = i
    BY <1>1, HeapParts DEF HeapOf, IsHeap, Members
  <1>3. ASSUME NEW t \in M
        PROVE  t \in Timer /\ h.idx[t] \in 0 .. h.size - 1 /\ h.event[h.idx[t]] = t
    <2>1. PICK i \in 0 .. h.size - 1 : t = h.event[i]
      BY DEF HeapOf, Members
    <2> QED BY <1>2, <2>1
  <1>4. h.size \in Nat /\ h.size <= Cardinality(Timer)
    BY <1>1, HeapParts
  <1> QED BY <1>1, <1>2, <1>3, <1>4

(* ... and ordered, whoever's times are looked at.                         *)
LEMMA HeapOrdered ==
    ASSUME NEW h, NEW when \in [Timer -> Int], NEW M, HeapOf(h, when, M)
    PROVE  \A i \in 1 .. h.size - 1 :
              /\ i \in 0 .. h.size - 1 /\ Parent(i) \in 0 .. h.size - 1 /\ Parent(i) < i
              /\ when[h.event[Parent(i)]] <= when[h.event[i]]
  <1> SUFFICES ASSUME NEW i \in 1 .. h.size - 1
               PROVE  /\ i \in 0 .. h.size - 1 /\ Parent(i) \in 0 .. h.size - 1
                      /\ Parent(i) < i
                      /\ when[h.event[Parent(i)]] <= when[h.event[i]]
    OBVIOUS
  <1>1. h.size \in Nat
    BY MembersAre
  <1>2. i \in Nat /\ i # 0 /\ i < h.size
    BY <1>1
  <1>3. Parent(i) \in Nat /\ Parent(i) < i
    BY <1>2, ParentIs
  <1>4. i \in 0 .. h.size - 1 /\ Parent(i) \in 0 .. h.size - 1 /\ i > 0
    BY <1>1, <1>2, <1>3
  <1>5. ~Greater(when, h.event[Parent(i)], h.event[i])
    BY <1>4 DEF HeapOf, IsHeap
  <1>6. ~(when[h.event[Parent(i)]] > when[h.event[i]])
    BY <1>5 DEF Greater
  <1>7. when[h.event[Parent(i)]] \in Int /\ when[h.event[i]] \in Int
    BY <1>4, MembersAre
  <1> QED BY <1>3, <1>4, <1>6, <1>7

(* Only the times of the members matter.                                   *)
LEMMA OtherTimes ==
    ASSUME NEW h, NEW when, NEW then, NEW M, HeapOf(h, when, M),
           \A t \in M : then[t] = when[t]
    PROVE  HeapOf(h, then, M)
  <1> SUFFICES ASSUME NEW i \in 0 .. h.size - 1, i > 0
               PROVE  ~Greater(then, h.event[Parent(i)], h.event[i])
    BY DEF HeapOf, IsHeap
  <1>1. h.size \in Nat
    BY MembersAre
  <1>2. i \in Nat /\ i # 0
    BY <1>1
  <1>3. Parent(i) \in Nat /\ Parent(i) < i
    BY <1>2, ParentIs
  <1>4. Parent(i) \in 0 .. h.size - 1
    BY <1>1, <1>3
  <1>5. h.event[i] \in M /\ h.event[Parent(i)] \in M
    BY <1>4, MembersAre
  <1>6. ~Greater(when, h.event[Parent(i)], h.event[i])
    BY DEF HeapOf, IsHeap
  <1> QED BY <1>5, <1>6 DEF Greater

(* The top of the heap is its first slot, and a member.                    *)
LEMMA TopIs ==
    ASSUME NEW h, NEW when, NEW M, HeapOf(h, when, M)
    PROVE  /\ h.size > 0 => /\ HeapTop(h) = h.event[0] /\ HeapTop(h) \in M
                            /\ HeapTop(h) \in Timer /\ HeapTop(h) # NoTimer
                            /\ h.idx[HeapTop(h)] = 0
           /\ ~(h.size > 0) => h.size = 0 /\ HeapTop(h) = NoTimer /\ M = {}
  <1>1. h.size \in Nat
    BY MembersAre
  <1>2. CASE h.size > 0
    <2>1. 0 \in 0 .. h.size - 1
      BY <1>1, <1>2
    <2>2. HeapTop(h) = h.event[0]
      BY <1>1, <1>2 DEF HeapTop
    <2> QED BY <1>2, <2>1, <2>2, MembersAre, TimerAssumption
  <1>3. CASE ~(h.size > 0)
    <2>1. h.size = 0
      BY <1>1, <1>3
    <2>2. 0 .. h.size - 1 = {}
      BY <2>1
    <2>3. M = {}
      BY <2>2, MembersAre
    <2> QED BY <1>3, <2>1, <2>3 DEF HeapTop
  <1> QED BY <1>2, <1>3

(* No member is due before the top.                                        *)
LEMMA TopIsLeast ==
    ASSUME NEW h, NEW when \in [Timer -> Int], NEW M, HeapOf(h, when, M), NEW t \in M
    PROVE  h.size > 0 /\ when[HeapTop(h)] <= when[t]
  <1> DEFINE n   == h.size
             E(i) == when[h.event[i]]
             Bad == {i \in 0 .. n - 1 : ~(E(0) <= E(i))}
  <1>1. n \in Nat /\ h.idx[t] \in 0 .. n - 1 /\ h.event[h.idx[t]] = t
    BY MembersAre
  <1>2. n > 0 /\ 0 \in 0 .. n - 1
    BY <1>1
  <1>3. \A i \in 0 .. n - 1 : E(i) \in Int
    BY MembersAre
  <1>4. Bad = {}
    <2> SUFFICES ASSUME Bad # {} PROVE FALSE
      OBVIOUS
    <2>1. Bad \subseteq Nat
      BY <1>1
    <2>2. PICK i \in Bad : \A j \in Bad : ~(j < i)
      BY <2>1, LeastElement
    <2>3. i # 0
      BY <1>2, <1>3, <2>2
    <2>4. i \in 1 .. n - 1
      BY <1>1, <2>2, <2>3
    <2>5. Parent(i) \in 0 .. n - 1 /\ Parent(i) < i /\ E(Parent(i)) <= E(i)
      BY <2>4, HeapOrdered
    <2>6. E(0) <= E(Parent(i))
      BY <2>2, <2>5
    <2> QED BY <1>2, <1>3, <2>2, <2>5, <2>6
  <1>5. E(0) <= E(h.idx[t])
    BY <1>1, <1>4
  <1> QED BY <1>1, <1>2, <1>5, TopIs

(* The heap has a slot left for a timer that is not in it.                 *)
LEMMA RoomLeft ==
    ASSUME NEW h, NEW when, NEW M, HeapOf(h, when, M), NEW t \in Timer, t \notin M
    PROVE  h.size < Cardinality(Timer)
  <1> DEFINE I == 0 .. h.size - 1
             f == [i \in I |-> h.event[i]]
  <1>1. h.size \in Nat
    BY MembersAre
  <1>2. IsFiniteSet(I) /\ Cardinality(I) = h.size
    <2>1. 0 \in Int /\ h.size - 1 \in Int
      BY <1>1
    <2>2. IsFiniteSet(I) /\ Cardinality(I) = IF 0 > h.size - 1 THEN 0 ELSE h.size - 1 - 0 + 1
      BY <2>1, FS_Interval
    <2> QED BY <1>1, <2>2
  <1>3. IsFiniteSet(M) /\ M \cup {t} \subseteq Timer
    BY TimerAssumption, FS_Subset DEF HeapOf
  <1>4. f \in Bijection(I, M)
    <2>1. f \in [I -> M]
      BY MembersAre
    <2>2. \A i, j \in I : f[i] = f[j] => i = j
      BY MembersAre
    <2>3. \A u \in M : \E i \in I : f[i] = u
      BY MembersAre
    <2> QED BY <2>1, <2>2, <2>3 DEF Bijection, Injection, Surjection, IsInjective
  <1>5. ExistsBijection(I, M)
    BY <1>4 DEF ExistsBijection
  <1>6. Cardinality(M) = h.size
    BY <1>2, <1>3, <1>5, FS_Bijection
  <1>7. Cardinality(M \cup {t}) = h.size + 1
    BY <1>3, <1>6, FS_AddElement
  <1>8. Cardinality(M \cup {t}) <= Cardinality(Timer)
    BY <1>3, TimerAssumption, FS_Subset
  <1> QED BY <1>1, <1>7, <1>8, SlotsAre

(* min_heap_push adds a timer; one that is not due before the top does not *)
(* get there.                                                              *)
Added(h, g, when, M, t) ==
    /\ HeapOf(g, when, M \cup {t}) /\ g.size = h.size + 1
    /\ \A u \in Timer : u \notin M /\ u # t => g.idx[u] = h.idx[u]
    /\ h.size > 0 /\ when[h.event[0]] <= when[t] => g.event[0] = h.event[0]

(* So it does.                                                             *)
LEMMA PushAdds ==
    ASSUME NEW h, NEW when \in [Timer -> Int], NEW M, HeapOf(h, when, M),
           NEW t \in Timer, t \notin M,
           NEW g, g = HeapPush(h, when, t)
    PROVE  Added(h, g, when, M, t)
  <1> DEFINE n == h.size
             k == [h EXCEPT !.size = @ + 1]
  <1>1. n \in Nat /\ n < Cardinality(Timer) /\ h \in HeapType /\ Cardinality(Timer) \in Nat
    BY MembersAre, RoomLeft, SlotsAre
  <1>2. /\ k \in HeapType /\ k.size = n + 1 /\ k.event = h.event /\ k.idx = h.idx
    <2>1. n + 1 \in 0 .. Cardinality(Timer)
      BY <1>1
    <2> QED BY <1>1, <2>1 DEF HeapType
  <1>3. g = ShiftUp(k, when, n, t)
    BY DEF HeapPush
  <1> HIDE DEF k
  <1>4. \A i \in 0 .. k.size - 1 : i # n => i \in 0 .. n - 1
    BY <1>1, <1>2
  <1>5. Loose(k, n, t)
    <2>1. n \in 0 .. k.size - 1
      BY <1>1, <1>2
    <2> QED BY <1>2, <1>4, <2>1, MembersAre DEF Loose
  <1>6. ASSUME NEW i \in 1 .. k.size - 1
        PROVE  /\ Parent(i) # n
               /\ i # n => when[k.event[Parent(i)]] <= when[k.event[i]]
    <2>1. i \in Nat /\ i # 0 /\ i <= n
      BY <1>1, <1>2
    <2>2. Parent(i) \in Nat /\ Parent(i) < i
      BY <2>1, ParentIs
    <2>3. i # n => i \in 1 .. n - 1
      BY <1>1, <2>1
    <2>4. Parent(i) # n
      BY <1>1, <2>1, <2>2
    <2> QED BY <1>2, <2>3, <2>4, HeapOrdered
  <1>7. OrderedButAt(k, when, n)
    BY <1>6 DEF OrderedButAt
  <1>8. FitsAbove(k, when, n, t)
    BY <1>6 DEF FitsAbove
  <1>9. /\ Filled(k, g, n, t) /\ IsHeap(g, when)
        /\ n > 0 /\ when[k.event[0]] <= when[t] => g.event[0] = k.event[0]
    BY <1>2, <1>3, <1>5, <1>7, <1>8, ShiftUpOrders
  <1>10. Others(k, n) = M
    <2>1. (0 .. k.size - 1) \ {n} = 0 .. n - 1
      BY <1>1, <1>2
    <2>2. Others(k, n) = Members(h)
      BY <1>2, <2>1 DEF Others, Members
    <2> QED BY <2>2 DEF HeapOf
  <1>11. Members(g) = M \cup {t} /\ g \in HeapType /\ g.size = n + 1
    BY <1>2, <1>9, <1>10 DEF Filled
  <1>12. HeapOf(g, when, M \cup {t})
    BY <1>9, <1>11 DEF HeapOf
  <1>13. \A u \in Timer : u \notin M /\ u # t => g.idx[u] = h.idx[u]
    BY <1>2, <1>9, <1>11 DEF Filled
  <1> QED BY <1>2, <1>9, <1>11, <1>12, <1>13 DEF Added

(* A heap k whose last timer e is cut off h, to fill a hole with it.       *)
Cut(h, when, M, k, e) ==
    /\ k \in HeapType /\ k.size = h.size - 1 /\ k.size \in Nat
    /\ k.event = h.event /\ k.idx = h.idx
    /\ e \in Timer /\ e \in M /\ h.idx[e] = k.size /\ k.size \in Slots
    /\ \A i \in 0 .. k.size - 1 : i \in 0 .. h.size - 1 /\ h.event[i] # e
    /\ \A hole \in 0 .. k.size - 1 :
          /\ Loose(k, hole, e) /\ OrderedButAt(k, when, hole)
          /\ Others(k, hole) \cup {e} = M \ {h.event[hole]}

(* It is loose around any hole.                                            *)
LEMMA CutOff ==
    ASSUME NEW h, NEW when \in [Timer -> Int], NEW M, HeapOf(h, when, M), h.size > 0,
           NEW k, k = [h EXCEPT !.size = @ - 1], NEW e, e = h.event[h.size - 1]
    PROVE  Cut(h, when, M, k, e)
  <1> DEFINE n == k.size
  <1>1. h.size \in Nat /\ h \in HeapType /\ h.size <= Cardinality(Timer)
    BY MembersAre
  <1>2. k \in HeapType /\ n = h.size - 1 /\ k.event = h.event /\ k.idx = h.idx
    <2>1. h.size - 1 \in 0 .. Cardinality(Timer)
      BY <1>1, SlotsAre
    <2> QED BY <1>1, <2>1 DEF HeapType
  <1>3. n \in Nat /\ n \in 0 .. h.size - 1
    BY <1>1, <1>2
  <1>4. e \in Timer /\ e \in M /\ h.idx[e] = n /\ n \in Slots
    BY <1>2, <1>3, MembersAre
  <1>5. ASSUME NEW i \in 0 .. n - 1
        PROVE  i \in 0 .. h.size - 1 /\ i # n /\ h.event[i] # e
    <2>1. i \in 0 .. h.size - 1 /\ i # n
      BY <1>1, <1>2
    <2> QED BY <1>4, <2>1, MembersAre
  <1>6. ASSUME NEW hole \in 0 .. n - 1 PROVE Loose(k, hole, e)
    BY <1>2, <1>5, MembersAre DEF Loose
  <1>7. ASSUME NEW hole \in 0 .. n - 1 PROVE OrderedButAt(k, when, hole)
    <2>1. \A i \in 1 .. n - 1 : i \in 1 .. h.size - 1
      BY <1>1, <1>2
    <2> QED BY <1>2, <2>1, HeapOrdered DEF OrderedButAt
  <1>8. ASSUME NEW hole \in 0 .. n - 1
        PROVE  Others(k, hole) \cup {e} = M \ {h.event[hole]}
    <2>1. ASSUME NEW i \in 0 .. n - 1, i # hole PROVE h.event[i] \in M \ {h.event[hole]}
      BY <1>5, <2>1, MembersAre
    <2>2. e \in M \ {h.event[hole]}
      BY <1>4, <1>5
    <2>3. ASSUME NEW t \in M \ {h.event[hole]}, t # e PROVE t \in Others(k, hole)
      <3>1. h.idx[t] \in 0 .. h.size - 1 /\ h.event[h.idx[t]] = t
        BY MembersAre
      <3>2. h.idx[t] # hole /\ h.idx[t] # n
        BY <1>2, <2>3, <3>1
      <3>3. h.idx[t] \in (0 .. n - 1) \ {hole}
        BY <1>1, <1>2, <3>1, <3>2
      <3> QED BY <1>2, <3>1, <3>3 DEF Others
    <2> QED BY <1>2, <2>1, <2>2, <2>3 DEF Others
  <1> QED BY <1>2, <1>3, <1>4, <1>5, <1>6, <1>7, <1>8 DEF Cut

(* min_heap_pop takes off the top.                                         *)
Popped(h, g, when, M) ==
    /\ HeapOf(g, when, M \ {HeapTop(h)})
    /\ \A u \in Timer : u \notin M \/ u = HeapTop(h) => g.idx[u] = h.idx[u]

(* So it does.                                                             *)
LEMMA PopRemoves ==
    ASSUME NEW h, NEW when \in [Timer -> Int], NEW M, HeapOf(h, when, M), h.size > 0,
           NEW g, g = HeapPop(h, when)
    PROVE  Popped(h, g, when, M)
  <1> DEFINE k == [h EXCEPT !.size = @ - 1]
             e == h.event[h.size - 1]
             t == HeapTop(h)
  <1>1. /\ k \in HeapType /\ k.size = h.size - 1 /\ k.size \in Nat
        /\ k.event = h.event /\ k.idx = h.idx
        /\ e \in Timer /\ e \in M /\ h.idx[e] = k.size /\ k.size \in Slots
        /\ \A i \in 0 .. k.size - 1 : i \in 0 .. h.size - 1 /\ h.event[i] # e
        /\ \A hole \in 0 .. k.size - 1 :
                 /\ Loose(k, hole, e) /\ OrderedButAt(k, when, hole)
                 /\ Others(k, hole) \cup {e} = M \ {h.event[hole]}
    <2>1. Cut(h, when, M, k, e)
      BY CutOff
    <2> HIDE DEF k, e
    <2> QED BY <2>1 DEF Cut
  <1>2. t = h.event[0] /\ t \in M /\ h.idx[t] = 0
    BY TopIs
  <1>3. g = ShiftDown(k, when, 0, e)
    <2>1. h.size # 0
      BY MembersAre
    <2> QED BY <2>1 DEF HeapPop
  <1>4. M \subseteq Timer
    BY DEF HeapOf
  <1> HIDE DEF k, e, t
  <1>5. CASE k.size = 0
    <2>1. 0 \in Slots
      BY <1>1, <1>5
    <2>2. /\ g \in HeapType /\ g.size = 0
          /\ \A u \in Timer : g.idx[u] = IF u = e THEN 0 ELSE k.idx[u]
      <3>1. LET f == ShiftDown(k, when, k.size, e)
            IN  /\ f \in HeapType /\ f.size = k.size
                /\ \A i \in 0 .. k.size - 1 : f.event[i] = k.event[i]
                /\ \A u \in Timer : f.idx[u] = IF u = e THEN k.size ELSE k.idx[u]
        BY <1>1, ShiftDownAtEnd
      <3> QED BY <1>3, <1>5, <3>1
    <2>3. e = t
      <3>1. h.event[h.idx[e]] = e
        BY <1>1, MembersAre
      <3> QED BY <1>1, <1>2, <1>5, <3>1
    <2>4. ASSUME NEW u \in M PROVE u = t
      <3>1. h.idx[u] \in 0 .. h.size - 1 /\ h.event[h.idx[u]] = u /\ h.size \in Nat
        BY MembersAre
      <3>2. h.idx[u] = 0
        BY <1>1, <1>5, <3>1
      <3> QED BY <1>2, <3>1, <3>2
    <2>5. 0 .. g.size - 1 = {}
      BY <2>2
    <2>6. Members(g) = {} /\ IsHeap(g, when)
      BY <2>5 DEF Members, IsHeap
    <2>7. HeapOf(g, when, M \ {t})
      BY <1>4, <2>2, <2>4, <2>6 DEF HeapOf
    <2>8. g.idx[t] = h.idx[t]
      BY <1>2, <2>2, <2>3, <1>1
    <2>9. \A u \in Timer : u \notin M \/ u = t => g.idx[u] = h.idx[u]
      BY <1>1, <2>2, <2>8
    <2> QED BY <2>7, <2>9 DEF t, Popped
  <1>6. CASE k.size > 0
    <2>1. 0 \in 0 .. k.size - 1
      BY <1>1, <1>6
    <2>2. FitsBelow(k, when, 0, e)
      BY DEF FitsBelow
    <2>3. Filled(k, g, 0, e) /\ IsHeap(g, when)
      BY <1>1, <1>3, <2>1, <2>2, ShiftDownOrders
    <2>4. Members(g) = M \ {t}
      BY <1>1, <1>2, <2>1, <2>3 DEF Filled
    <2>5. HeapOf(g, when, M \ {t})
      BY <1>4, <2>3, <2>4 DEF HeapOf, Filled
    <2>6. \A u \in Timer : u \notin M \/ u = t => g.idx[u] = h.idx[u]
      BY <1>1, <2>3, <2>4 DEF Filled
    <2> QED BY <2>5, <2>6 DEF t, Popped
  <1>7. k.size = 0 \/ k.size > 0
    <2>1. k.size \in Nat
      BY <1>1
    <2> QED BY <2>1
  <1> QED BY <1>5, <1>6, <1>7 DEF t, Popped

(* min_heap_erase takes out a member, wherever it is, and marks it; what   *)
(* else was on top stays there.                                            *)
Erased(h, g, when, M, t) ==
    /\ HeapOf(g, when, M \ {t}) /\ g.size = h.size - 1
    /\ g.idx[t] = NotInHeap
    /\ \A u \in Timer : u \notin M => g.idx[u] = h.idx[u]
    /\ h.event[0] # t => g.size > 0 /\ g.event[0] = h.event[0]

(* So it does.                                                             *)
LEMMA EraseRemoves ==
    ASSUME NEW h, NEW when \in [Timer -> Int], NEW M, HeapOf(h, when, M), NEW t \in M,
           NEW g, g = HeapErase(h, when, t)
    PROVE  Erased(h, g, when, M, t)
  <1> DEFINE k  == [h EXCEPT !.size = @ - 1]
             e  == h.event[h.size - 1]
             at == h.idx[t]
             f  == IF at > 0 /\ Greater(when, h.event[Parent(at)], e)
                   THEN ShiftUp(k, when, at, e) ELSE ShiftDown(k, when, at, e)
             E(i) == when[h.event[i]]
  <1>0. /\ h \in HeapType /\ h.size \in Nat /\ M \subseteq Timer
        /\ at \in 0 .. h.size - 1 /\ h.event[at] = t /\ at \in Slots
    BY MembersAre DEF HeapOf
  <1>1. h.size > 0 /\ at \in Nat /\ 0 \in 0 .. h.size - 1
    BY <1>0
  <1>2. /\ k \in HeapType /\ k.size = h.size - 1 /\ k.size \in Nat
        /\ k.event = h.event /\ k.idx = h.idx
        /\ e \in Timer /\ e \in M /\ h.idx[e] = k.size /\ k.size \in Slots
        /\ \A i \in 0 .. k.size - 1 : i \in 0 .. h.size - 1 /\ h.event[i] # e
        /\ \A hole \in 0 .. k.size - 1 :
                 /\ Loose(k, hole, e) /\ OrderedButAt(k, when, hole)
                 /\ Others(k, hole) \cup {e} = M \ {h.event[hole]}
    <2>1. Cut(h, when, M, k, e)
      BY <1>1, CutOff
    <2> HIDE DEF k, e
    <2> QED BY <2>1 DEF Cut
  <1>3. g = ForgetSlot(f, t)
    <2>1. at # NotInHeap
      BY <1>1 DEF NotInHeap
    <2> QED BY <2>1 DEF HeapErase
  <1>4. \A i \in 0 .. h.size - 1 : E(i) \in Int
    BY MembersAre
  <1> HIDE DEF k, e
  <1>5. at > 0 => Parent(at) \in 0 .. h.size - 1 /\ E(Parent(at)) <= E(at)
    <2>1. at > 0 => at \in 1 .. h.size - 1
      BY <1>0, <1>1
    <2> QED BY <2>1, HeapOrdered
  (* Without t, which a sift loop may still have left its old slot.        *)
  <1>6. /\ f \in HeapType /\ f.size = k.size
        /\ IsHeap(f, when) /\ Members(f) = M \ {t}
        /\ \A u \in Timer : u \notin M => f.idx[u] = h.idx[u]
        /\ h.event[0] # t => f.size > 0 /\ f.event[0] = h.event[0]
    <2>1. CASE at = k.size
      <3>1. e = t
        BY <1>0, <1>2, <2>1, MembersAre
      <3>2. ~(at > 0 /\ Greater(when, h.event[Parent(at)], e))
        BY <1>0, <1>4, <1>5, <3>1 DEF Greater
      <3>3. f = ShiftDown(k, when, at, e)
        BY <3>2
      <3> HIDE DEF f
      <3>4. LET d == ShiftDown(k, when, at, e)
            IN  /\ d \in HeapType /\ d.size = k.size
                /\ \A i \in 0 .. k.size - 1 : d.event[i] = k.event[i]
                /\ \A u \in Timer : d.idx[u] = IF u = e THEN at ELSE k.idx[u]
        BY <1>0, <1>2, <2>1, ShiftDownAtEnd
      <3>5. /\ f \in HeapType /\ f.size = k.size
            /\ \A i \in 0 .. k.size - 1 : f.event[i] = h.event[i]
            /\ \A u \in Timer : u # t => f.idx[u] = h.idx[u]
        BY <1>2, <3>1, <3>3, <3>4
      <3>6. ASSUME NEW i \in 0 .. k.size - 1
            PROVE  f.event[i] \in M \ {t} /\ f.idx[f.event[i]] = i
        <4>1. i \in 0 .. h.size - 1 /\ h.event[i] # t
          BY <1>2, <3>1
        <4> QED BY <3>5, <4>1, MembersAre
      <3>7. ASSUME NEW i \in 0 .. k.size - 1, i > 0
            PROVE  ~Greater(when, f.event[Parent(i)], f.event[i])
        <4>1. i \in 1 .. h.size - 1
          BY <1>2, <3>7
        <4>2. Parent(i) \in 0 .. k.size - 1 /\ E(Parent(i)) <= E(i) /\ i \in 0 .. h.size - 1
              /\ Parent(i) \in 0 .. h.size - 1
          BY <1>2, <4>1, HeapOrdered
        <4> QED BY <1>4, <3>5, <4>2 DEF Greater
      <3>8. IsHeap(f, when)
        BY <3>5, <3>6, <3>7 DEF IsHeap
      <3>9. Members(f) = M \ {t}
        <4>1. ASSUME NEW u \in M, u # t PROVE u \in Members(f)
          <5>1. h.idx[u] \in 0 .. h.size - 1 /\ h.event[h.idx[u]] = u
            BY MembersAre
          <5>2. h.idx[u] # k.size
            BY <1>0, <2>1, <4>1, <5>1
          <5>3. h.idx[u] \in 0 .. k.size - 1
            BY <1>0, <1>2, <5>1, <5>2
          <5> QED BY <3>5, <5>1, <5>3 DEF Members
        <4> QED BY <3>5, <3>6, <4>1 DEF Members
      <3>10. ASSUME h.event[0] # t PROVE f.size > 0 /\ f.event[0] = h.event[0]
        <4>1. k.size # 0
          BY <1>0, <2>1, <3>10
        <4>2. 0 \in 0 .. k.size - 1 /\ k.size > 0
          <5>1. k.size \in Nat
            BY <1>2
          <5> QED BY <4>1, <5>1
        <4> QED BY <3>5, <4>2
      <3> QED BY <3>5, <3>8, <3>9, <3>10
    <2>2. CASE at # k.size
      <3>1. at \in 0 .. k.size - 1 /\ k.size > 0
        BY <1>0, <1>2, <2>2
      <3>2. /\ Loose(k, at, e) /\ OrderedButAt(k, when, at)
            /\ Others(k, at) \cup {e} = M \ {t}
        BY <1>0, <1>2, <3>1
      <3>3. ASSUME NEW i \in 1 .. k.size - 1
            PROVE  i \in 1 .. h.size - 1 /\ i \in 0 .. h.size - 1
        BY <1>0, <1>2
      <3>4. \A i \in 1 .. k.size - 1 : Parent(i) = at => E(at) <= E(i) /\ E(i) \in Int
        BY <1>4, <3>3, HeapOrdered
      <3>5. E(at) \in Int /\ when[e] \in Int
        BY <1>0, <1>2, <1>4
      <3>6. /\ Filled(k, f, at, e) /\ IsHeap(f, when)
            /\ h.event[0] # t => f.event[0] = h.event[0]
        <4>0. h.event[0] # t => at > 0
          BY <1>0
        <4>1. CASE at > 0 /\ Greater(when, h.event[Parent(at)], e)
          <5>1. f = ShiftUp(k, when, at, e)
            BY <4>1
          <5> HIDE DEF f
          <5>2. E(Parent(at)) > when[e] /\ E(Parent(at)) <= E(at) /\ E(Parent(at)) \in Int
            BY <1>4, <1>5, <4>1 DEF Greater
          <5>3. ASSUME NEW i \in 1 .. k.size - 1, Parent(i) = at
                PROVE  when[e] <= E(i) /\ E(Parent(at)) <= E(i)
            BY <3>4, <3>5, <5>2, <5>3
          <5>4. FitsAbove(k, when, at, e)
            BY <1>2, <5>3 DEF FitsAbove
          <5>5. when[h.event[0]] <= when[e]
            <6>1. e \in M /\ HeapTop(h) = h.event[0]
              BY <1>1, <1>2, TopIs
            <6> QED BY <6>1, TopIsLeast
          <5>6. /\ Filled(k, f, at, e) /\ IsHeap(f, when)
                /\ at > 0 /\ when[k.event[0]] <= when[e] => f.event[0] = k.event[0]
            BY <1>2, <3>2, <5>1, <5>4, ShiftUpOrders
          <5> QED BY <1>2, <4>1, <5>5, <5>6
        <4>2. CASE ~(at > 0 /\ Greater(when, h.event[Parent(at)], e))
          <5>1. f = ShiftDown(k, when, at, e)
            BY <4>2
          <5> HIDE DEF f
          <5>2. ASSUME at > 0
                PROVE  /\ E(Parent(at)) <= when[e]
                       /\ E(Parent(at)) <= E(at) /\ E(Parent(at)) \in Int
            <6>1. ~(E(Parent(at)) > when[e])
              BY <4>2, <5>2 DEF Greater
            <6> QED BY <1>4, <1>5, <3>5, <5>2, <6>1
          <5>3. ASSUME at > 0, NEW i \in 1 .. k.size - 1, Parent(i) = at
                PROVE  E(Parent(at)) <= E(i)
            BY <3>4, <3>5, <5>2, <5>3
          <5>4. FitsBelow(k, when, at, e)
            BY <1>2, <5>2, <5>3 DEF FitsBelow
          <5>5. /\ Filled(k, f, at, e) /\ IsHeap(f, when)
                /\ at > 0 => f.event[0] = k.event[0]
            BY <1>2, <3>2, <5>1, <5>4, ShiftDownOrders
          <5> QED BY <1>2, <4>0, <5>5
        <4> QED BY <4>1, <4>2
      <3> HIDE DEF f
      <3>7. Members(f) = M \ {t} /\ f \in HeapType /\ f.size = k.size
        BY <3>2, <3>6 DEF Filled
      <3>8. \A u \in Timer : u \notin M => f.idx[u] = h.idx[u]
        BY <1>2, <3>6, <3>7 DEF Filled
      <3> QED BY <3>1, <3>6, <3>7, <3>8
    <2> QED BY <2>1, <2>2
  <1> HIDE DEF f
  <1>7. /\ g.event = f.event /\ g.size = f.size /\ g \in HeapType
        /\ g.idx = [f.idx EXCEPT ![t] = NotInHeap]
    BY <1>0, <1>3, <1>6 DEF ForgetSlot, HeapType
  <1>8. g.idx[t] = NotInHeap /\ \A u \in Timer : u # t => g.idx[u] = f.idx[u]
    BY <1>0, <1>6, <1>7, HeapParts
  <1>9. Members(g) = M \ {t}
    BY <1>6, <1>7 DEF Members
  <1>10. IsHeap(g, when)
    <2>1. \A i \in 0 .. f.size - 1 : f.event[i] \in M \ {t}
      BY <1>6 DEF Members
    <2> QED BY <1>0, <1>6, <1>7, <1>8, <2>1 DEF IsHeap
  <1>11. HeapOf(g, when, M \ {t})
    BY <1>0, <1>7, <1>9, <1>10 DEF HeapOf
  <1> QED BY <1>0, <1>2, <1>6, <1>7, <1>8, <1>11 DEF Erased

(* ... and does nothing to what it knows is not in the heap.               *)
LEMMA EraseNothing ==
    ASSUME NEW h, NEW when, NEW t, h.idx[t] = NotInHeap
    PROVE  HeapErase(h, when, t) = h
  BY DEF HeapErase

----------------------------------------------------------------------------
(* The steps of the loop thread and of the others.                         *)

(* The types of what the steps are about.                                  *)
LEMMA Types ==
    ASSUME TypeOK
    PROVE  /\ heap \in HeapType /\ exp \in [Timer -> 0 .. MaxTime + Interval]
           /\ exp \in [Timer -> Int] /\ now \in Nat /\ pollTime \in Nat /\ now <= MaxTime
           /\ ops \in Seq([op : {"add", "cancel"}, timer : Timer])
           /\ batch \in Nat /\ batch <= Len(ops)
           /\ status \in [Timer -> {"new", "queued", "armed", "cancelled", "fired"}]
  <1>1. exp \in [Timer -> 0 .. MaxTime + Interval] /\ MaxTime + Interval \in Nat
    BY MaxTimeAssumption DEF TypeOK, Interval
  <1>2. 0 .. MaxTime + Interval \subseteq Int
    BY <1>1
  <1>3. exp \in [Timer -> Int]
    BY <1>1, <1>2
  <1>4. heap \in HeapType
    BY DEF TypeOK, HeapType
  <1>5. now \in Nat /\ now <= MaxTime
    BY MaxTimeAssumption DEF TypeOK
  <1>6. ops \in Seq([op : {"add", "cancel"}, timer : Timer])
    BY DEF TypeOK
  <1>7. batch \in 0 .. Len(ops) /\ Len(ops) \in Nat
    BY <1>6 DEF TypeOK
  <1>8. batch \in Nat /\ batch <= Len(ops)
    BY <1>7
  <1> QED BY <1>1, <1>3, <1>4, <1>5, <1>6, <1>8 DEF TypeOK

(* The members of the heap are those that are armed, or run.               *)
LEMMA InHeap ==
    ASSUME QueueInv, NEW t \in Timer
    PROVE  /\ t \in Armed \cup Running <=> status[t] = "armed" \/ (pc = "callback" /\ t = cur)
           /\ t \in Armed \cup Running => heap.idx[t] \in Nat
  <1>1. t \in Armed \cup Running <=> status[t] = "armed" \/ (pc = "callback" /\ t = cur)
    BY DEF Armed, Running
  <1>2. t \in Armed \cup Running => heap.idx[t] \in 0 .. heap.size - 1
    BY MembersAre DEF QueueInv, HeapRight
  <1> QED BY <1>1, <1>2

(* Nothing is known by less than it was as long as the heap, the timers    *)
(* and the queue stay as they are, outside of callbacks.                   *)
LEMMA QuietKept ==
    ASSUME QueueInv, UNCHANGED <<heap, exp, ops, cur, status, undef>>,
           pc # "callback", pc' # "callback", pollTime' <= now'
    PROVE  ~undef' /\ HeapRight' /\ OnTop' /\ SlotsKnown' /\ QueueOrdered'
  <1>1. HeapRight'
    <2>1. Armed' = Armed /\ Running' = Running
      BY DEF Armed, Running
    <2> QED BY <2>1 DEF QueueInv, HeapRight
  <1>2. OnTop'
    BY DEF QueueInv, OnTop
  <1>3. SlotsKnown'
    BY DEF QueueInv, SlotsKnown
  <1>4. QueueOrdered'
    BY DEF QueueInv, QueueOrdered, IsAdd
  <1> QED BY <1>1, <1>2, <1>3, <1>4 DEF QueueInv

(* A timer that was not armed is: its time is not before that of the timer *)
(* whose callback runs.                                                    *)
LEMMA AddKept ==
    ASSUME QueueInv, NEW t \in Timer, status[t] \in {"new", "queued"},
           exp' \in [Timer -> Int], \A u \in Timer : u # t => exp'[u] = exp[u],
           pc = "callback" => exp[cur] <= exp'[t],
           heap' = HeapPush(heap, exp', t),
           status' = [status EXCEPT ![t] = "armed"],
           UNCHANGED <<pc, now, pollTime, cur>>
    PROVE  HeapRight' /\ OnTop' /\ SlotsKnown'
  <1> DEFINE M == Armed \cup Running
  <1>0. /\ exp \in [Timer -> Int]
        /\ status \in [Timer -> {"new", "queued", "armed", "cancelled", "fired"}]
    BY Types DEF QueueInv
  <1>1. t \notin M /\ (pc = "callback" => t # cur)
    BY <1>0, InHeap DEF QueueInv, OnTop
  <1>2. HeapOf(heap, exp', M)
    <2>1. HeapOf(heap, exp, M)
      BY DEF QueueInv, HeapRight
    <2>2. \A u \in M : exp'[u] = exp[u]
      BY <1>1, <2>1 DEF HeapOf
    <2> QED BY <2>1, <2>2, OtherTimes
  <1>3. /\ HeapOf(heap', exp', M \cup {t}) /\ heap'.size = heap.size + 1
        /\ \A u \in Timer : u \notin M /\ u # t => heap'.idx[u] = heap.idx[u]
        /\ heap.size > 0 /\ exp'[heap.event[0]] <= exp'[t] => heap'.event[0] = heap.event[0]
    <2>1. Added(heap, heap', exp', M, t)
      BY <1>1, <1>2, PushAdds
    <2> QED BY <2>1 DEF Added
  <1>4. Armed' \cup Running' = M \cup {t}
    <2>1. Running' = Running
      BY DEF Running
    <2>2. Armed' = Armed \cup {t}
      BY <1>0 DEF Armed
    <2> QED BY <2>1, <2>2
  <1>5. HeapRight'
    BY <1>3, <1>4 DEF HeapRight
  <1>6. OnTop'
    <2>1. CASE pc = "callback"
      <3>1. /\ pollTime <= now /\ cur \in Timer /\ heap.size > 0 /\ heap.event[0] = cur
            /\ exp[cur] <= pollTime
            /\ status[cur] = IF cur \in Repeating THEN "armed" ELSE "fired"
        BY <2>1 DEF QueueInv, OnTop
      <3>2. exp'[cur] = exp[cur] /\ status'[cur] = status[cur]
        BY <1>0, <1>1, <2>1, <3>1
      <3>3. heap'.event[0] = cur
        BY <1>3, <2>1, <3>1, <3>2
      <3>4. heap'.size > 0
        <4>1. heap.size \in Nat
          BY <1>2, MembersAre
        <4> QED BY <1>3, <4>1
      <3> QED BY <2>1, <3>1, <3>2, <3>3, <3>4 DEF OnTop
    <2>2. CASE pc # "callback"
      BY <2>2 DEF QueueInv, OnTop
    <2> QED BY <2>1, <2>2
  <1>7. SlotsKnown'
    <2> SUFFICES ASSUME NEW u \in Timer
                 PROVE  /\ status'[u] \in {"new", "queued"} <=> heap'.idx[u] = Unset
                        /\ status'[u] = "cancelled" => heap'.idx[u] = NotInHeap
                        /\ status'[u] = "fired" => u \notin Repeating
      BY DEF SlotsKnown
    <2>1. CASE u = t
      <3>1. heap'.idx[t] \in 0 .. heap'.size - 1
        BY <1>3, MembersAre
      <3>2. heap'.idx[t] # Unset
        BY <3>1 DEF Unset
      <3> QED BY <1>0, <2>1, <3>2
    <2>2. CASE u # t /\ u \notin M
      <3>1. status'[u] = status[u] /\ heap'.idx[u] = heap.idx[u]
        BY <1>0, <1>3, <2>2
      <3> QED BY <3>1 DEF QueueInv, SlotsKnown
    <2>3. CASE u # t /\ u \in M
      <3>1. heap'.idx[u] \in 0 .. heap'.size - 1
        BY <1>3, <2>3, MembersAre
      <3>2. heap'.idx[u] # Unset
        BY <3>1 DEF Unset
      <3>3. heap.idx[u] \in Nat
        BY <2>3, InHeap
      <3>4. heap.idx[u] # Unset /\ heap.idx[u] # NotInHeap
        BY <3>3 DEF Unset, NotInHeap
      <3>5. status'[u] = status[u]
        BY <1>0, <2>3
      <3> QED BY <3>2, <3>4, <3>5 DEF QueueInv, SlotsKnown
    <2> QED BY <2>1, <2>2, <2>3
  <1> QED BY <1>5, <1>6, <1>7

(* A timer other than the one whose callback runs, armed or cancelled      *)
(* before, is cancelled.                                                   *)
LEMMA CancelKept ==
    ASSUME QueueInv, NEW t \in Timer, status[t] \in {"armed", "cancelled"}, t # cur,
           CancelInLoop(t), status' = Cancelled(t),
           UNCHANGED <<pc, now, pollTime, cur, exp>>
    PROVE  ~undef' /\ HeapRight' /\ OnTop' /\ SlotsKnown'
  <1> DEFINE M == Armed \cup Running
  <1>0. /\ exp \in [Timer -> Int] /\ HeapOf(heap, exp, M)
        /\ status \in [Timer -> {"new", "queued", "armed", "cancelled", "fired"}]
    BY Types DEF QueueInv, HeapRight
  <1>1. CASE status[t] = "cancelled"
    <2>1. heap.idx[t] = NotInHeap
      BY <1>1 DEF QueueInv, SlotsKnown
    <2>2. ~EraseUndefined(heap, t)
      BY <2>1 DEF EraseUndefined, NotInHeap, Unset
    <2>3. heap' = heap /\ undef' = undef
      BY <2>1, <2>2, EraseNothing DEF CancelInLoop
    <2>4. status' = status
      BY <1>0, <1>1 DEF Cancelled
    <2>5. Armed' = Armed /\ Running' = Running
      BY <2>4 DEF Armed, Running
    <2> QED BY <2>3, <2>4, <2>5 DEF QueueInv, HeapRight, OnTop, SlotsKnown
  <1>2. CASE status[t] = "armed"
    <2>1. t \in M /\ heap.idx[t] \in Nat
      BY <1>2, InHeap
    <2>2. ~EraseUndefined(heap, t)
      <3>1. heap.size # 0
        BY <1>0, <2>1, TopIs
      <3>2. heap.idx[t] # Unset
        BY <2>1 DEF Unset
      <3> QED BY <3>1, <3>2 DEF EraseUndefined
    <2>3. heap' = HeapErase(heap, exp, t) /\ undef' = undef
      BY <2>2 DEF CancelInLoop
    <2>4. /\ HeapOf(heap', exp, M \ {t}) /\ heap'.idx[t] = NotInHeap
          /\ \A u \in Timer : u \notin M => heap'.idx[u] = heap.idx[u]
          /\ heap.event[0] # t => heap'.size > 0 /\ heap'.event[0] = heap.event[0]
      <3>1. Erased(heap, heap', exp, M, t)
        BY <1>0, <2>1, <2>3, EraseRemoves
      <3> QED BY <3>1 DEF Erased
    <2>5. status' = [status EXCEPT ![t] = "cancelled"]
      BY <1>0, <1>2 DEF Cancelled
    <2>6. Armed' \cup Running' = M \ {t}
      <3>1. Running' = Running /\ t \notin Running
        BY DEF Running
      <3>2. Armed' = Armed \ {t}
        BY <1>0, <2>5 DEF Armed
      <3> QED BY <3>1, <3>2
    <2>7. HeapRight'
      BY <2>4, <2>6 DEF HeapRight
    <2>8. OnTop'
      <3>1. CASE pc = "callback"
        <4>1. status'[cur] = status[cur]
          BY <1>0, <2>5, <3>1 DEF QueueInv, OnTop
        <4> QED BY <2>4, <3>1, <4>1 DEF QueueInv, OnTop
      <3>2. CASE pc # "callback"
        BY <3>2 DEF QueueInv, OnTop
      <3> QED BY <3>1, <3>2
    <2>9. SlotsKnown'
      <3> SUFFICES ASSUME NEW u \in Timer
                   PROVE  /\ status'[u] \in {"new", "queued"} <=> heap'.idx[u] = Unset
                          /\ status'[u] = "cancelled" => heap'.idx[u] = NotInHeap
                          /\ status'[u] = "fired" => u \notin Repeating
        BY DEF SlotsKnown
      <3>1. CASE u = t
        <4>1. status'[u] = "cancelled" /\ heap'.idx[u] = NotInHeap
          BY <1>0, <2>4, <2>5, <3>1
        <4> QED BY <4>1 DEF NotInHeap, Unset
      <3>2. CASE u # t /\ u \notin M
        <4>1. status'[u] = status[u] /\ heap'.idx[u] = heap.idx[u]
          BY <1>0, <2>4, <2>5, <3>2
        <4> QED BY <4>1 DEF QueueInv, SlotsKnown
      <3>3. CASE u # t /\ u \in M
        <4>1. heap'.idx[u] \in 0 .. heap'.size - 1
          BY <2>4, <3>3, MembersAre
        <4>2. heap'.idx[u] # Unset
          BY <4>1 DEF Unset
        <4>3. heap.idx[u] \in Nat
          BY <3>3, InHeap
        <4>4. heap.idx[u] # Unset /\ heap.idx[u] # NotInHeap
          BY <4>3 DEF Unset, NotInHeap
        <4>5. status'[u] = status[u]
          BY <1>0, <2>5, <3>3
        <4> QED BY <4>2, <4>4, <4>5 DEF QueueInv, SlotsKnown
      <3> QED BY <3>1, <3>2, <3>3
    <2> QED BY <2>3, <2>7, <2>8, <2>9 DEF QueueInv
  <1> QED BY <1>1, <1>2

----------------------------------------------------------------------------
(* The queued operations.                                                  *)

(* What is queued.                                                         *)
LEMMA OpsAre ==
    ASSUME TypeOK, NEW i \in DOMAIN ops
    PROVE  /\ ops[i] \in [op : {"add", "cancel"}, timer : Timer]
           /\ ops[i].op \in {"add", "cancel"} /\ ops[i].timer \in Timer
  <1>1. ops \in Seq([op : {"add", "cancel"}, timer : Timer])
    BY DEF TypeOK
  <1>2. ops[i] \in [op : {"add", "cancel"}, timer : Timer]
    <2> DEFINE R == [op : {"add", "cancel"}, timer : Timer]
    <2> HIDE DEF R
    <2>1. ops \in Seq(R)
      BY <1>1 DEF R
    <2>2. ops[i] \in R
      BY <2>1
    <2> QED BY <2>2 DEF R
  <1> QED BY <1>2

(* As long as the same timers are queued, the queue keeps its order.       *)
LEMMA OrderKept ==
    ASSUME QueueInv, ops' = ops,
           \A t \in Timer : /\ status'[t] = "queued" <=> status[t] = "queued"
                            /\ status'[t] = "new" => status[t] = "new"
    PROVE  QueueOrdered'
  <1>1. ASSUME NEW i \in DOMAIN ops PROVE ops[i].timer \in Timer
    BY OpsAre DEF QueueInv
  <1> QED BY <1>1 DEF QueueInv, QueueOrdered, IsAdd

(* An operation more at the end.                                           *)
LEMMA Appended ==
    ASSUME TypeOK, NEW x \in [op : {"add", "cancel"}, timer : Timer], ops' = Append(ops, x)
    PROVE  /\ ops' \in Seq([op : {"add", "cancel"}, timer : Timer])
           /\ Len(ops) \in Nat /\ Len(ops') = Len(ops) + 1 /\ batch \in 0 .. Len(ops')
           /\ \A i : i \in DOMAIN ops' <=> i \in DOMAIN ops \/ i = Len(ops) + 1
           /\ \A i \in DOMAIN ops : ops'[i] = ops[i] /\ i \in 1 .. Len(ops)
           /\ ops'[Len(ops) + 1] = x
  <1>1. ops \in Seq([op : {"add", "cancel"}, timer : Timer]) /\ batch \in 0 .. Len(ops)
    BY DEF TypeOK
  <1>2. /\ ops' \in Seq([op : {"add", "cancel"}, timer : Timer])
        /\ Len(ops) \in Nat /\ Len(ops') = Len(ops) + 1
        /\ DOMAIN ops = 1 .. Len(ops) /\ DOMAIN ops' = 1 .. Len(ops) + 1
    BY <1>1
  <1>3. \A i \in 1 .. Len(ops) : ops'[i] = ops[i]
    BY <1>1
  <1>4. ops'[Len(ops) + 1] = x
    BY <1>1
  <1>5. batch \in 0 .. Len(ops')
    BY <1>1, <1>2
  <1> QED BY <1>2, <1>3, <1>4, <1>5

(* The oldest operation less.                                              *)
LEMMA TakenOff ==
    ASSUME TypeOK, batch > 0, ops' = Tail(ops), batch' = batch - 1
    PROVE  /\ ops' \in Seq([op : {"add", "cancel"}, timer : Timer])
           /\ batch' \in 0 .. Len(ops')
           /\ Head(ops) = ops[1] /\ 1 \in DOMAIN ops
           /\ Head(ops) \in [op : {"add", "cancel"}, timer : Timer]
           /\ \A i \in DOMAIN ops' : /\ ops'[i] = ops[i + 1] /\ i + 1 \in DOMAIN ops
                                     /\ i \in Nat /\ i >= 1
           /\ \A i \in DOMAIN ops : /\ i \in Nat /\ i >= 1
                                    /\ i # 1 => i - 1 \in DOMAIN ops'
  <1>1. ops \in Seq([op : {"add", "cancel"}, timer : Timer]) /\ batch \in 0 .. Len(ops)
    BY DEF TypeOK
  <1>2. Len(ops) \in Nat /\ Len(ops) > 0 /\ DOMAIN ops = 1 .. Len(ops)
    BY <1>1
  <1>3. ops # <<>>
    BY <1>1, <1>2
  <1>4. /\ ops' \in Seq([op : {"add", "cancel"}, timer : Timer])
        /\ Len(ops') = Len(ops) - 1 /\ DOMAIN ops' = 1 .. Len(ops) - 1
        /\ Head(ops) = ops[1]
    BY <1>1, <1>2, <1>3
  <1>5. \A i \in 1 .. Len(ops) - 1 : ops'[i] = ops[i + 1]
    BY <1>1, <1>2, <1>3
  <1>6. batch' \in 0 .. Len(ops')
    BY <1>1, <1>2, <1>4
  <1>7. 1 \in DOMAIN ops /\ ops[1] \in [op : {"add", "cancel"}, timer : Timer]
    <2>1. 1 \in DOMAIN ops
      BY <1>2
    <2> QED BY <2>1, OpsAre
  <1>8. \A i \in DOMAIN ops' : i + 1 \in DOMAIN ops /\ i \in Nat /\ i >= 1
    BY <1>2, <1>4
  <1>9. \A i \in DOMAIN ops : i \in Nat /\ i >= 1 /\ (i # 1 => i - 1 \in DOMAIN ops')
    BY <1>2, <1>4
  <1> QED BY <1>4, <1>5, <1>6, <1>7, <1>8, <1>9

(* When the oldest operation has been run its timer is not queued, any     *)
(* more or as before, and the queue keeps its order.                       *)
LEMMA OrderTaken ==
    ASSUME QueueInv, batch > 0, ops' = Tail(ops), batch' = batch - 1,
           \A u \in Timer :
                /\ status'[u] = "queued" <=> status[u] = "queued" /\ ~IsAdd(1, u)
                /\ status'[u] = "new" => status[u] = "new"
    PROVE  QueueOrdered'
  <1>1. /\ \A i \in DOMAIN ops' : /\ ops'[i] = ops[i + 1] /\ i + 1 \in DOMAIN ops
                                  /\ i \in Nat /\ i >= 1
        /\ \A i \in DOMAIN ops : /\ i \in Nat /\ i >= 1
                                 /\ i # 1 => i - 1 \in DOMAIN ops'
        /\ 1 \in DOMAIN ops
    BY TakenOff DEF QueueInv
  <1>2. \A i \in DOMAIN ops : ops[i].timer \in Timer
    BY OpsAre DEF QueueInv
  <1>3. ASSUME NEW u \in Timer, status'[u] = "queued"
        PROVE  \E i \in DOMAIN ops' : ops'[i].op = "add" /\ ops'[i].timer = u
    <2>1. PICK i \in DOMAIN ops : IsAdd(i, u)
      BY <1>3 DEF QueueInv, QueueOrdered
    <2>2. i # 1
      BY <1>3, <2>1
    <2>3. i - 1 \in DOMAIN ops' /\ (i - 1) + 1 = i
      BY <1>1, <2>2
    <2>4. ops'[i - 1] = ops[i]
      BY <1>1, <2>3
    <2> QED BY <2>1, <2>3, <2>4 DEF IsAdd
  <1>4. ASSUME NEW i \in DOMAIN ops', ops'[i].op = "add"
        PROVE  /\ status'[ops'[i].timer] = "queued"
               /\ \A j \in DOMAIN ops' :
                     ops'[j].op = "add" /\ ops'[j].timer = ops'[i].timer => j = i
    <2>0. /\ i + 1 \in DOMAIN ops /\ ops'[i] = ops[i + 1] /\ i \in Nat /\ i >= 1
          /\ ops[i + 1].timer \in Timer
      BY <1>1, <1>2
    <2>1. /\ status[ops[i + 1].timer] = "queued"
          /\ \A j \in DOMAIN ops : IsAdd(j, ops[i + 1].timer) => j = i + 1
      BY <1>4, <2>0 DEF QueueInv, QueueOrdered
    <2>2. 1 # i + 1
      BY <2>0
    <2>3. ~IsAdd(1, ops[i + 1].timer)
      BY <1>1, <2>1, <2>2
    <2>4. status'[ops'[i].timer] = "queued"
      BY <2>0, <2>1, <2>3
    <2>5. ASSUME NEW j \in DOMAIN ops', ops'[j].op = "add", ops'[j].timer = ops'[i].timer
          PROVE  j = i
      <3>1. j + 1 \in DOMAIN ops /\ ops'[j] = ops[j + 1] /\ j \in Nat
        BY <1>1
      <3>2. j + 1 = i + 1
        BY <2>0, <2>1, <2>5, <3>1 DEF IsAdd
      <3> QED BY <2>0, <3>1, <3>2
    <2> QED BY <2>4, <2>5
  <1>5. ASSUME NEW i \in DOMAIN ops', ops'[i].op = "cancel"
        PROVE  /\ ops'[i].timer \in Repeating
               /\ status'[ops'[i].timer] # "new"
               /\ status'[ops'[i].timer] = "queued" =>
                     \E j \in 1 .. i - 1 : ops'[j].op = "add" /\ ops'[j].timer = ops'[i].timer
    <2>0. /\ i + 1 \in DOMAIN ops /\ ops'[i] = ops[i + 1] /\ i \in Nat /\ i >= 1
          /\ ops[i + 1].timer \in Timer
      BY <1>1, <1>2
    <2>1. /\ ops[i + 1].timer \in Repeating
          /\ status[ops[i + 1].timer] # "new"
          /\ status[ops[i + 1].timer] = "queued" =>
                \E j \in 1 .. (i + 1) - 1 : IsAdd(j, ops[i + 1].timer)
      BY <1>5, <2>0 DEF QueueInv, QueueOrdered
    <2>2. ASSUME status'[ops[i + 1].timer] = "queued"
          PROVE  \E j \in 1 .. i - 1 : ops'[j].op = "add" /\ ops'[j].timer = ops[i + 1].timer
      <3>1. status[ops[i + 1].timer] = "queued" /\ ~IsAdd(1, ops[i + 1].timer)
        BY <2>0, <2>2
      <3>2. PICK j \in 1 .. (i + 1) - 1 : IsAdd(j, ops[i + 1].timer)
        BY <2>1, <3>1
      <3>3. j # 1
        BY <3>1, <3>2
      <3>4. j - 1 \in 1 .. i - 1 /\ (j - 1) + 1 = j
        BY <2>0, <3>2, <3>3
      <3>5. j - 1 \in DOMAIN ops'
        <4>1. ops \in Seq([op : {"add", "cancel"}, timer : Timer])
          BY Types DEF QueueInv
        <4>2. j \in DOMAIN ops
          BY <2>0, <3>2, <4>1
        <4> QED BY <1>1, <3>3, <4>2
      <3>6. ops'[j - 1] = ops[j]
        BY <1>1, <3>4, <3>5
      <3> QED BY <3>2, <3>4, <3>6 DEF IsAdd
    <2> QED BY <2>0, <2>1, <2>2
  <1> QED BY <1>3, <1>4, <1>5 DEF QueueOrdered, IsAdd

(* Another thread adds a new timer: TimerQueue::addTimer.                  *)
LEMMA OtherAddsOrder ==
    ASSUME QueueInv, NEW t \in Timer, NEW w, OtherAdds(t, w)
    PROVE  QueueOrdered'
  <1> DEFINE x == [op |-> "add", timer |-> t]
             n == Len(ops)
  <1>0. /\ status[t] = "new" /\ ops' = Append(ops, x) /\ TypeOK
        /\ status' = [status EXCEPT ![t] = "queued"]
        /\ status \in [Timer -> {"new", "queued", "armed", "cancelled", "fired"}]
    BY Types DEF OtherAdds, QueueInv
  <1>1. /\ n \in Nat
        /\ \A i : i \in DOMAIN ops' <=> i \in DOMAIN ops \/ i = n + 1
        /\ \A i \in DOMAIN ops : ops'[i] = ops[i] /\ i \in 1 .. n
        /\ ops'[n + 1] = x
    <2>1. x \in [op : {"add", "cancel"}, timer : Timer]
      OBVIOUS
    <2> QED BY <1>0, <2>1, Appended
  <1>2. \A i \in DOMAIN ops : ops[i].timer \in Timer
    BY OpsAre DEF QueueInv
  <1>3. \A u \in Timer : u # t => status'[u] = status[u]
    BY <1>0
  <1>4. status'[t] = "queued"
    BY <1>0
  <1>5. \A i \in DOMAIN ops : ops[i].timer # t
    <2> SUFFICES ASSUME NEW i \in DOMAIN ops, ops[i].timer = t PROVE FALSE
      OBVIOUS
    <2>1. ops[i].op \in {"add", "cancel"}
      BY OpsAre DEF QueueInv
    <2> QED BY <1>0, <2>1 DEF QueueInv, QueueOrdered
  <1>6. ASSUME NEW u \in Timer, status'[u] = "queued"
        PROVE  \E i \in DOMAIN ops' : ops'[i].op = "add" /\ ops'[i].timer = u
    <2>1. CASE u = t
      BY <1>1, <2>1
    <2>2. CASE u # t
      <3>1. PICK i \in DOMAIN ops : IsAdd(i, u)
        BY <1>3, <1>6, <2>2 DEF QueueInv, QueueOrdered
      <3> QED BY <1>1, <3>1 DEF IsAdd
    <2> QED BY <2>1, <2>2
  <1>7. ASSUME NEW i \in DOMAIN ops', ops'[i].op = "add"
        PROVE  /\ status'[ops'[i].timer] = "queued"
               /\ \A j \in DOMAIN ops' :
                     ops'[j].op = "add" /\ ops'[j].timer = ops'[i].timer => j = i
    <2>1. CASE i = n + 1
      BY <1>1, <1>4, <1>5, <2>1
    <2>2. CASE i \in DOMAIN ops
      <3>1. /\ ops'[i] = ops[i] /\ ops[i].timer \in Timer /\ ops[i].timer # t
            /\ status[ops[i].timer] = "queued"
            /\ \A j \in DOMAIN ops : IsAdd(j, ops[i].timer) => j = i
        BY <1>1, <1>2, <1>5, <1>7, <2>2 DEF QueueInv, QueueOrdered
      <3> QED BY <1>1, <1>3, <3>1 DEF IsAdd
    <2> QED BY <1>1, <2>1, <2>2
  <1>8. ASSUME NEW i \in DOMAIN ops', ops'[i].op = "cancel"
        PROVE  /\ ops'[i].timer \in Repeating
               /\ status'[ops'[i].timer] # "new"
               /\ status'[ops'[i].timer] = "queued" =>
                     \E j \in 1 .. i - 1 : ops'[j].op = "add" /\ ops'[j].timer = ops'[i].timer
    <2>1. i \in DOMAIN ops /\ ops'[i] = ops[i] /\ i \in 1 .. n
      BY <1>1, <1>8
    <2>2. ops[i].timer \in Timer /\ ops[i].timer # t
      BY <1>2, <1>5, <2>1
    <2>3. /\ ops[i].timer \in Repeating /\ status[ops[i].timer] # "new"
          /\ status[ops[i].timer] = "queued" => \E j \in 1 .. i - 1 : IsAdd(j, ops[i].timer)
      BY <1>8, <2>1 DEF QueueInv, QueueOrdered
    <2>4. \A j \in 1 .. i - 1 : ops'[j] = ops[j]
      <3>1. ops \in Seq([op : {"add", "cancel"}, timer : Timer])
        BY Types DEF QueueInv
      <3>2. \A j \in 1 .. i - 1 : j \in DOMAIN ops
        BY <1>1, <2>1, <3>1
      <3> QED BY <1>1, <3>2
    <2> QED BY <1>3, <2>1, <2>2, <2>3, <2>4 DEF IsAdd
  <1> QED BY <1>6, <1>7, <1>8 DEF QueueOrdered, IsAdd

(* Another thread cancels a repeating timer: TimerQueue::cancel.           *)
LEMMA OtherCancelsOrder ==
    ASSUME QueueInv, NEW t \in Timer, t \in Repeating, OtherCancels(t)
    PROVE  QueueOrdered'
  <1> DEFINE x == [op |-> "cancel", timer |-> t]
             n == Len(ops)
  <1>0. status[t] # "new" /\ ops' = Append(ops, x) /\ TypeOK /\ status' = status
    BY DEF OtherCancels, QueueInv
  <1>1. /\ n \in Nat
        /\ \A i : i \in DOMAIN ops' <=> i \in DOMAIN ops \/ i = n + 1
        /\ \A i \in DOMAIN ops : ops'[i] = ops[i] /\ i \in 1 .. n
        /\ ops'[n + 1] = x
    <2>1. x \in [op : {"add", "cancel"}, timer : Timer]
      OBVIOUS
    <2> QED BY <1>0, <2>1, Appended
  <1>2. ASSUME NEW u \in Timer, status[u] = "queued"
        PROVE  \E i \in DOMAIN ops : ops[i].op = "add" /\ ops[i].timer = u
    BY <1>2 DEF QueueInv, QueueOrdered, IsAdd
  <1>3. ASSUME NEW i \in DOMAIN ops', ops'[i].op = "add"
        PROVE  /\ status'[ops'[i].timer] = "queued"
               /\ \A j \in DOMAIN ops' :
                     ops'[j].op = "add" /\ ops'[j].timer = ops'[i].timer => j = i
    <2>1. i \in DOMAIN ops /\ ops'[i] = ops[i]
      BY <1>1, <1>3
    <2>2. \A j \in DOMAIN ops' : ops'[j].op = "add" => j \in DOMAIN ops /\ ops'[j] = ops[j]
      BY <1>1
    <2> QED BY <1>0, <1>3, <2>1, <2>2 DEF QueueInv, QueueOrdered, IsAdd
  <1>4. ASSUME NEW i \in DOMAIN ops', ops'[i].op = "cancel"
        PROVE  /\ ops'[i].timer \in Repeating
               /\ status'[ops'[i].timer] # "new"
               /\ status'[ops'[i].timer] = "queued" =>
                     \E j \in 1 .. i - 1 : ops'[j].op = "add" /\ ops'[j].timer = ops'[i].timer
    <2>1. CASE i = n + 1
      <3>1. ops'[i].timer = t
        BY <1>1, <2>1
      <3>2. ASSUME status[t] = "queued"
            PROVE  \E j \in 1 .. i - 1 : ops'[j].op = "add" /\ ops'[j].timer = t
        <4>1. PICK j \in DOMAIN ops : ops[j].op = "add" /\ ops[j].timer = t
          BY <1>2, <3>2
        <4>2. j \in 1 .. i - 1 /\ ops'[j] = ops[j]
          BY <1>1, <2>1
        <4> QED BY <4>1, <4>2
      <3> QED BY <1>0, <3>1, <3>2
    <2>2. CASE i \in DOMAIN ops
      <3>1. ops'[i] = ops[i] /\ i \in 1 .. n
        BY <1>1, <2>2
      <3>2. /\ ops[i].timer \in Repeating /\ status[ops[i].timer] # "new"
            /\ status[ops[i].timer] = "queued" =>
                  \E j \in 1 .. i - 1 : IsAdd(j, ops[i].timer)
        BY <1>4, <2>2, <3>1 DEF QueueInv, QueueOrdered
      <3>3. \A j \in 1 .. i - 1 : ops'[j] = ops[j]
        <4>1. ops \in Seq([op : {"add", "cancel"}, timer : Timer])
          BY Types DEF QueueInv
        <4>2. \A j \in 1 .. i - 1 : j \in DOMAIN ops
          BY <1>1, <3>1, <4>1
        <4> QED BY <1>1, <4>2
      <3> QED BY <1>0, <3>1, <3>2, <3>3 DEF IsAdd
    <2> QED BY <1>1, <2>1, <2>2
  <1>5. \A u \in Timer : status'[u] = "queued" =>
            \E i \in DOMAIN ops' : ops'[i].op = "add" /\ ops'[i].timer = u
    BY <1>0, <1>1, <1>2
  <1> QED BY <1>3, <1>4, <1>5 DEF QueueOrdered, IsAdd


----------------------------------------------------------------------------
(* Every step keeps the invariant, as long as nobody is Careless.          *)

(* The queue begins empty.                                                 *)
LEMMA InitQueueInv == Init => QueueInv
  <1> SUFFICES ASSUME Init PROVE QueueInv
    OBVIOUS
  <1>1. Cardinality(Timer) \in Nat
    BY TimerAssumption, FS_CardinalityType
  <1>2. EmptyHeap \in HeapType
    BY <1>1 DEF EmptyHeap, HeapType
  <1>3. until \in Nat /\ now \in 0 .. MaxTime /\ 0 \in 0 .. MaxTime + Interval
    BY MaxTimeAssumption DEF Init, defaultTimeout, Tick_ms, Interval
  <1>4. TypeOK
    <2>1. heap \in HeapType
      BY <1>2 DEF Init
    <2>2. exp \in [Timer -> 0 .. MaxTime + Interval]
      BY <1>3 DEF Init
    <2>3. ops \in Seq([op : {"add", "cancel"}, timer : Timer]) /\ batch \in 0 .. Len(ops)
      BY DEF Init
    <2>4. {until, pollTime} \subseteq Nat
      BY <1>3 DEF Init
    <2> QED BY <1>3, <2>1, <2>2, <2>3, <2>4 DEF Init, TypeOK, HeapType
  <1>5. heap.size = 0 /\ 0 .. heap.size - 1 = {}
    BY DEF Init, EmptyHeap
  <1>6. Armed = {} /\ Running = {}
    BY DEF Init, Armed, Running
  <1>7. HeapRight
    BY <1>2, <1>5, <1>6 DEF HeapRight, HeapOf, IsHeap, Members, Init
  <1>8. OnTop
    BY DEF OnTop, Init
  <1>9. SlotsKnown
    BY DEF SlotsKnown, Init, EmptyHeap
  <1>10. QueueOrdered
    BY DEF QueueOrdered, Init
  <1> QED BY <1>4, <1>7, <1>8, <1>9, <1>10 DEF QueueInv, Init

(* A poll of d tenths of a second, as it is computed, is no longer.        *)
LEMMA PollLength ==
    ASSUME NEW d \in Nat
    PROVE  /\ ((d * Tick_ms) \div 1000) \div Tick_ms \in Nat
           /\ ((d * Tick_ms) \div 1000) \div Tick_ms <= d
  <1> DEFINE e == (d * 100) \div 1000
  <1>1. e \in Nat /\ e <= d
    OBVIOUS
  <1> HIDE DEF e
  <1>2. e \div 100 \in Nat /\ e \div 100 <= d
    BY <1>1
  <1> QED BY <1>2 DEF e, Tick_ms

(* The greater of two.                                                     *)
LEMMA MaxOfTwo ==
    ASSUME NEW a \in Int, NEW b \in Int
    PROVE  Max({a, b}) \in Int /\ a <= Max({a, b}) /\ b <= Max({a, b})
  <1>1. \E x \in {a, b} : \A y \in {a, b} : x >= y
    OBVIOUS
  <1>2. Max({a, b}) \in {a, b} /\ \A y \in {a, b} : Max({a, b}) >= y
    BY <1>1 DEF Max
  <1> QED BY <1>2

(* The poll keeps no armed timer waiting.                                  *)
LEMMA PollEndIs ==
    ASSUME QueueInv, pc # "callback"
    PROVE  /\ PollEnd(heap, exp) \in Nat
           /\ \A t \in Timer : status[t] = "armed" =>
                 PollEnd(heap, exp) <= Max({exp[t], now}) + 1
  <1> DEFINE top == HeapTop(heap)
  <1>1. now \in Nat /\ exp \in [Timer -> Int]
    BY Types DEF QueueInv
  <1>2. HeapOf(heap, exp, Armed) /\ \A t \in Timer : status[t] = "armed" <=> t \in Armed
    BY DEF QueueInv, HeapRight, Armed, Running
  <1>3. \A t \in Timer : Max({exp[t], now}) \in Int /\ exp[t] <= Max({exp[t], now})
                           /\ now <= Max({exp[t], now})
    <2> SUFFICES ASSUME NEW t \in Timer
                 PROVE  /\ Max({exp[t], now}) \in Int /\ exp[t] <= Max({exp[t], now})
                        /\ now <= Max({exp[t], now})
      OBVIOUS
    <2>1. exp[t] \in Int /\ now \in Int
      BY <1>1
    <2> QED BY <2>1, MaxOfTwo
  <1>4. CASE top = NoTimer
    <2>1. earliestExpiredTime(heap, exp) = 10000
      BY <1>4 DEF earliestExpiredTime, defaultTimeout
    <2>2. PollEnd(heap, exp) = now + 100
      BY <1>1, <2>1 DEF PollEnd, Tick_ms
    <2>3. Armed = {}
      BY <1>2, <1>4, TopIs
    <2> QED BY <1>1, <1>2, <2>2, <2>3
  <1>5. CASE top # NoTimer /\ exp[top] > now
    <2> DEFINE d == exp[top] - now
    <2>1. top \in Timer /\ exp[top] \in Int
      BY <1>1, <1>2, <1>5, TopIs
    <2>2. d \in Nat /\ now + d = exp[top]
      BY <1>1, <1>5, <2>1
    <2>3. earliestExpiredTime(heap, exp) = (d * Tick_ms) \div 1000
      BY <1>5 DEF earliestExpiredTime
    <2>4. PollEnd(heap, exp) = now + ((d * Tick_ms) \div 1000) \div Tick_ms
      BY <2>3 DEF PollEnd
    <2> HIDE DEF d
    <2>5. PollEnd(heap, exp) \in Nat /\ PollEnd(heap, exp) <= exp[top]
      <3> DEFINE l == ((d * Tick_ms) \div 1000) \div Tick_ms
      <3>1. l \in Nat /\ l <= d
        BY <2>2, PollLength
      <3> HIDE DEF l
      <3>2. PollEnd(heap, exp) = now + l
        BY <2>4 DEF l
      <3> QED BY <1>1, <2>1, <2>2, <3>1, <3>2
    <2>6. ASSUME NEW t \in Timer, status[t] = "armed"
          PROVE  PollEnd(heap, exp) <= Max({exp[t], now}) + 1
      <3>1. exp[top] <= exp[t]
        BY <1>1, <1>2, <2>6, TopIsLeast
      <3>2. exp[t] \in Int
        BY <1>1
      <3> QED BY <1>3, <2>1, <2>5, <3>1, <3>2
    <2> QED BY <2>5, <2>6
  <1>6. CASE top # NoTimer /\ ~(exp[top] > now)
    <2>1. earliestExpiredTime(heap, exp) = 100
      BY <1>6 DEF earliestExpiredTime, defaultOuttime
    <2>2. PollEnd(heap, exp) = now + 1
      BY <1>1, <2>1 DEF PollEnd, Tick_ms
    <2> QED BY <1>1, <1>3, <2>2
  <1> QED BY <1>4, <1>5, <1>6

(* Polling, the end of the timers, the swap, the next poll.                *)
LEMMA QuietSteps ==
    ASSUME QueueInv, PollReturns \/ NoMoreDue \/ SwapFunctors \/ EndIteration
    PROVE  QueueInv'
  <1>0. /\ UNCHANGED <<now, heap, exp, ops, cur, status, undef>>
        /\ pc # "callback" /\ pc' # "callback"
    BY DEF PollReturns, NoMoreDue, SwapFunctors, EndIteration
  <1>1. now \in Nat /\ pollTime <= now /\ ops \in Seq([op : {"add", "cancel"}, timer : Timer])
    BY Types DEF QueueInv, OnTop
  <1>2. pollTime' \in Nat /\ pollTime' <= now'
    BY <1>1, Types DEF QueueInv, PollReturns, NoMoreDue, SwapFunctors, EndIteration
  <1>3. until' \in Nat
    BY <1>0, PollEndIs
       DEF QueueInv, TypeOK, PollReturns, NoMoreDue, SwapFunctors, EndIteration
  <1>4. batch' \in 0 .. Len(ops')
    BY <1>1 DEF QueueInv, TypeOK, PollReturns, NoMoreDue, SwapFunctors, EndIteration
  <1>5. pc' \in {"poll", "expire", "callback", "handle", "functors"}
    BY DEF PollReturns, NoMoreDue, SwapFunctors, EndIteration
  <1>6. TypeOK'
    BY <1>0, <1>2, <1>3, <1>4, <1>5 DEF QueueInv, TypeOK
  <1> QED BY <1>0, <1>2, <1>6, QuietKept DEF QueueInv

(* Time passes.                                                            *)
LEMMA TickKept == ASSUME QueueInv, Tick PROVE QueueInv'
  <1>0. UNCHANGED <<pc, until, pollTime, heap, exp, ops, batch, cur, status, undef>>
    BY DEF Tick
  <1>1. now \in Nat /\ pollTime \in Nat /\ now <= MaxTime
    BY Types DEF QueueInv
  <1>2. now' \in 0 .. MaxTime /\ (pollTime <= now => pollTime <= now')
    BY <1>1, MaxTimeAssumption DEF Tick
  <1>3. TypeOK'
    BY <1>0, <1>2 DEF QueueInv, TypeOK
  <1>4. HeapRight'
    BY <1>0 DEF QueueInv, HeapRight, Armed, Running
  <1>5. OnTop'
    BY <1>0, <1>2 DEF QueueInv, OnTop
  <1>6. SlotsKnown'
    BY <1>0 DEF QueueInv, SlotsKnown
  <1>7. QueueOrdered'
    BY <1>0 DEF QueueInv, QueueOrdered, IsAdd
  <1> QED BY <1>0, <1>3, <1>4, <1>5, <1>6, <1>7 DEF QueueInv

(* Another thread adds a timer, which nobody looks at before it is run.    *)
LEMMA OtherAddsKept ==
    ASSUME QueueInv, Careless = {}, NEW t \in Timer, NEW w \in WhenSet, OtherAdds(t, w)
    PROVE  QueueInv'
  <1>0. /\ status[t] = "new" /\ status' = [status EXCEPT ![t] = "queued"]
        /\ exp' = [exp EXCEPT ![t] = w] /\ ops' = Append(ops, [op |-> "add", timer |-> t])
        /\ UNCHANGED <<pc, now, until, pollTime, heap, batch, cur, undef>>
    BY DEF OtherAdds
  <1>1. /\ exp \in [Timer -> 0 .. MaxTime + Interval]
        /\ status \in [Timer -> {"new", "queued", "armed", "cancelled", "fired"}]
    BY Types DEF QueueInv
  <1>2. w \in 0 .. MaxTime + Interval
    BY MaxTimeAssumption DEF WhenSet, Interval
  <1>3. /\ exp' \in [Timer -> 0 .. MaxTime + Interval]
        /\ \A u \in Timer : u # t => exp'[u] = exp[u] /\ status'[u] = status[u]
        /\ status' \in [Timer -> {"new", "queued", "armed", "cancelled", "fired"}]
        /\ status'[t] = "queued"
    BY <1>0, <1>1, <1>2
  <1>4. /\ ops' \in Seq([op : {"add", "cancel"}, timer : Timer])
        /\ batch \in 0 .. Len(ops')
    <2> DEFINE x == [op |-> "add", timer |-> t]
    <2>1. x \in [op : {"add", "cancel"}, timer : Timer]
      OBVIOUS
    <2>2. ops' = Append(ops, x) /\ TypeOK
      BY <1>0 DEF QueueInv
    <2> HIDE DEF x
    <2> QED BY <2>1, <2>2, Appended
  <1>5. TypeOK'
    BY <1>0, <1>3, <1>4 DEF QueueInv, TypeOK
  <1>6. t \notin Armed \cup Running
    BY <1>0, InHeap DEF QueueInv, OnTop
  <1>7. HeapRight'
    <2>1. HeapOf(heap, exp, Armed \cup Running)
      BY DEF QueueInv, HeapRight
    <2>2. \A u \in Armed \cup Running : exp'[u] = exp[u]
      BY <1>3, <1>6, <2>1 DEF HeapOf
    <2>3. HeapOf(heap, exp', Armed \cup Running)
      BY <2>1, <2>2, OtherTimes
    <2>4. Armed' = Armed /\ Running' = Running
      BY <1>0, <1>3 DEF Armed, Running
    <2> QED BY <1>0, <2>3, <2>4 DEF HeapRight
  <1>8. OnTop'
    <2>1. CASE pc = "callback"
      <3>1. cur \in Timer /\ cur # t
        BY <1>6, <2>1 DEF QueueInv, OnTop, Running
      <3>2. exp'[cur] = exp[cur] /\ status'[cur] = status[cur]
        BY <1>3, <3>1
      <3> QED BY <1>0, <2>1, <3>2 DEF QueueInv, OnTop
    <2>2. CASE pc # "callback"
      BY <1>0, <2>2 DEF QueueInv, OnTop
    <2> QED BY <2>1, <2>2
  <1>9. SlotsKnown'
    <2> SUFFICES ASSUME NEW u \in Timer
                 PROVE  /\ status'[u] \in {"new", "queued"} <=> heap'.idx[u] = Unset
                        /\ status'[u] = "cancelled" => heap'.idx[u] = NotInHeap
                        /\ status'[u] = "fired" => u \notin Repeating
      BY DEF SlotsKnown
    <2>1. /\ status[u] \in {"new", "queued"} <=> heap.idx[u] = Unset
          /\ status[u] = "cancelled" => heap.idx[u] = NotInHeap
          /\ status[u] = "fired" => u \notin Repeating
      BY DEF QueueInv, SlotsKnown
    <2> QED BY <1>0, <1>3, <2>1
  <1>10. QueueOrdered'
    BY OtherAddsOrder
  <1> QED BY <1>0, <1>5, <1>7, <1>8, <1>9, <1>10 DEF QueueInv

(* Another thread cancels a timer, which has no effect yet.                *)
LEMMA OtherCancelsKept ==
    ASSUME QueueInv, Careless = {}, NEW t \in Timer, OtherCancels(t)
    PROVE  QueueInv'
  <1>0. /\ t \in Repeating /\ ops' = Append(ops, [op |-> "cancel", timer |-> t])
        /\ UNCHANGED <<pc, now, until, pollTime, heap, exp, batch, cur, status, undef>>
    BY DEF OtherCancels, OtherMayCancel
  <1>1. /\ ops' \in Seq([op : {"add", "cancel"}, timer : Timer])
        /\ batch \in 0 .. Len(ops')
    <2> DEFINE x == [op |-> "cancel", timer |-> t]
    <2>1. x \in [op : {"add", "cancel"}, timer : Timer]
      OBVIOUS
    <2>2. ops' = Append(ops, x) /\ TypeOK
      BY <1>0 DEF QueueInv
    <2> HIDE DEF x
    <2> QED BY <2>1, <2>2, Appended
  <1>2. TypeOK'
    BY <1>0, <1>1 DEF QueueInv, TypeOK
  <1>3. HeapRight'
    BY <1>0 DEF QueueInv, HeapRight, Armed, Running
  <1>4. OnTop'
    BY <1>0 DEF QueueInv, OnTop
  <1>5. SlotsKnown'
    BY <1>0 DEF QueueInv, SlotsKnown
  <1>6. QueueOrdered'
    BY <1>0, OtherCancelsOrder
  <1> QED BY <1>0, <1>2, <1>3, <1>4, <1>5, <1>6 DEF QueueInv

(* The loop adds a timer: it is not due before the one that runs.          *)
LEMMA LoopAddsKept ==
    ASSUME QueueInv, Careless = {}, NEW t \in Timer, NEW w \in WhenSet, LoopAdds(t, w)
    PROVE  QueueInv'
  <1>0. /\ status[t] = "new" /\ status' = [status EXCEPT ![t] = "armed"]
        /\ exp' = [exp EXCEPT ![t] = w] /\ heap' = HeapPush(heap, [exp EXCEPT ![t] = w], t)
        /\ UNCHANGED <<pc, now, until, pollTime, ops, batch, cur, undef>>
    BY DEF LoopAdds, AddTimerInLoop
  <1>1. /\ exp \in [Timer -> 0 .. MaxTime + Interval] /\ exp \in [Timer -> Int]
        /\ status \in [Timer -> {"new", "queued", "armed", "cancelled", "fired"}]
        /\ now \in Nat /\ pollTime \in Nat
    BY Types DEF QueueInv
  <1>2. w \in 0 .. MaxTime + Interval /\ w \in Nat /\ w >= now
    BY <1>1, MaxTimeAssumption DEF WhenSet, Interval
  <1>3. /\ exp' \in [Timer -> 0 .. MaxTime + Interval] /\ exp' \in [Timer -> Int]
        /\ \A u \in Timer : u # t => exp'[u] = exp[u] /\ status'[u] = status[u]
        /\ status' \in [Timer -> {"new", "queued", "armed", "cancelled", "fired"}]
        /\ status'[t] = "armed" /\ exp'[t] = w
    BY <1>0, <1>1, <1>2
  <1>4. pc = "callback" => exp[cur] <= exp'[t]
    <2> SUFFICES ASSUME pc = "callback" PROVE exp[cur] <= exp'[t]
      OBVIOUS
    <2>1. cur \in Timer /\ exp[cur] <= pollTime /\ pollTime <= now
      BY DEF QueueInv, OnTop
    <2>2. exp[cur] \in Int
      BY <1>1, <2>1
    <2> QED BY <1>1, <1>2, <1>3, <2>1, <2>2
  <1>5. HeapRight' /\ OnTop' /\ SlotsKnown'
    <2>1. heap' = HeapPush(heap, exp', t)
      BY <1>0
    <2> QED BY <1>0, <1>3, <1>4, <2>1, AddKept
  <1>6. QueueOrdered'
    <2>1. \A u \in Timer : /\ status'[u] = "queued" <=> status[u] = "queued"
                           /\ status'[u] = "new" => status[u] = "new"
      BY <1>0, <1>3
    <2> QED BY <1>0, <2>1, OrderKept
  <1>7. heap' \in HeapType
    BY <1>5 DEF HeapRight, HeapOf
  <1>8. TypeOK'
    BY <1>0, <1>3, <1>7 DEF QueueInv, TypeOK, HeapType
  <1> QED BY <1>0, <1>5, <1>6, <1>8 DEF QueueInv

(* A cancelled timer is typed, and not queued.                             *)
LEMMA CancelTypes ==
    ASSUME QueueInv, NEW t \in Timer, status[t] \in {"armed", "cancelled"},
           status' = Cancelled(t)
    PROVE  /\ status' \in [Timer -> {"new", "queued", "armed", "cancelled", "fired"}]
           /\ \A u \in Timer : /\ status'[u] = "queued" <=> status[u] = "queued"
                               /\ status'[u] = "new" => status[u] = "new"
  <1>1. status \in [Timer -> {"new", "queued", "armed", "cancelled", "fired"}]
    BY Types DEF QueueInv
  <1>2. status' = [status EXCEPT ![t] = "cancelled"]
    BY <1>1 DEF Cancelled
  <1> QED BY <1>1, <1>2

(* The loop cancels a timer that has not fired.                            *)
LEMMA LoopCancelsKept ==
    ASSUME QueueInv, Careless = {}, NEW t \in Timer, LoopCancels(t)
    PROVE  QueueInv'
  <1>0. /\ status[t] \in {"armed", "cancelled"} /\ t # cur
        /\ CancelInLoop(t) /\ status' = Cancelled(t)
        /\ UNCHANGED <<pc, now, until, pollTime, exp, ops, batch, cur>>
    BY DEF LoopCancels, LoopMayCancel
  <1>1. ~undef' /\ HeapRight' /\ OnTop' /\ SlotsKnown'
    BY <1>0, CancelKept
  <1>2. /\ status' \in [Timer -> {"new", "queued", "armed", "cancelled", "fired"}]
        /\ \A u \in Timer : /\ status'[u] = "queued" <=> status[u] = "queued"
                            /\ status'[u] = "new" => status[u] = "new"
    BY <1>0, CancelTypes
  <1>3. QueueOrdered'
    BY <1>0, <1>2, OrderKept
  <1>4. heap' \in HeapType
    BY <1>1 DEF HeapRight, HeapOf
  <1>5. undef' \in BOOLEAN
    BY <1>0 DEF CancelInLoop, QueueInv, TypeOK
  <1>6. TypeOK'
    BY <1>0, <1>2, <1>4, <1>5 DEF QueueInv, TypeOK, HeapType
  <1> QED BY <1>1, <1>3, <1>6 DEF QueueInv

(* doPendingFunctors adds a timer another thread has queued.               *)
LEMMA RunAddKept ==
    ASSUME QueueInv, RunAdd
    PROVE  QueueInv'
  <1> DEFINE t == Head(ops).timer
  <1>0. /\ pc = "functors" /\ batch > 0 /\ batch' = batch - 1 /\ ops' = Tail(ops)
        /\ Head(ops).op = "add"
        /\ heap' = HeapPush(heap, [exp EXCEPT ![t] = exp[t]], t)
        /\ status' = [status EXCEPT ![t] = IF @ = "queued" THEN "armed" ELSE @]
        /\ UNCHANGED <<pc, now, until, pollTime, exp, cur, undef>>
    BY DEF RunAdd, AddTimerInLoop
  <1>1. /\ exp \in [Timer -> 0 .. MaxTime + Interval] /\ exp \in [Timer -> Int]
        /\ status \in [Timer -> {"new", "queued", "armed", "cancelled", "fired"}]
    BY Types DEF QueueInv
  <1>2. /\ ops' \in Seq([op : {"add", "cancel"}, timer : Timer])
        /\ batch' \in 0 .. Len(ops') /\ 1 \in DOMAIN ops /\ Head(ops) = ops[1]
    BY <1>0, TakenOff DEF QueueInv
  <1>3. t \in Timer /\ t = ops[1].timer /\ ops[1].op = "add"
    BY <1>0, <1>2, OpsAre DEF QueueInv
  <1>4. status[t] = "queued"
    BY <1>2, <1>3 DEF QueueInv, QueueOrdered
  <1> HIDE DEF t
  <1>5. status' = [status EXCEPT ![t] = "armed"] /\ heap' = HeapPush(heap, exp', t)
    <2>1. [exp EXCEPT ![t] = exp[t]] = exp
      BY <1>1, <1>3
    <2> QED BY <1>0, <1>1, <1>3, <1>4, <2>1
  <1>6. HeapRight' /\ OnTop' /\ SlotsKnown'
    <2>1. exp' \in [Timer -> Int] /\ (\A u \in Timer : u # t => exp'[u] = exp[u])
      BY <1>0, <1>1
    <2> QED BY <1>0, <1>3, <1>4, <1>5, <2>1, AddKept
  <1>7. QueueOrdered'
    <2>1. ASSUME NEW u \in Timer
          PROVE  /\ status'[u] = "queued" <=> status[u] = "queued" /\ ~IsAdd(1, u)
                 /\ status'[u] = "new" => status[u] = "new"
      BY <1>1, <1>3, <1>5 DEF IsAdd
    <2> QED BY <1>0, <2>1, OrderTaken
  <1>8. heap' \in HeapType
    BY <1>6 DEF HeapRight, HeapOf
  <1>9. status' \in [Timer -> {"new", "queued", "armed", "cancelled", "fired"}]
    BY <1>1, <1>3, <1>5
  <1>10. TypeOK'
    BY <1>0, <1>2, <1>8, <1>9 DEF QueueInv, TypeOK, HeapType
  <1> QED BY <1>0, <1>6, <1>7, <1>10 DEF QueueInv

(* doPendingFunctors cancels one: its add came first.                      *)
LEMMA RunCancelKept ==
    ASSUME QueueInv, RunCancel
    PROVE  QueueInv'
  <1> DEFINE t == Head(ops).timer
  <1>0. /\ pc = "functors" /\ batch > 0 /\ batch' = batch - 1 /\ ops' = Tail(ops)
        /\ Head(ops).op = "cancel" /\ CancelInLoop(t) /\ status' = Cancelled(t)
        /\ UNCHANGED <<pc, now, until, pollTime, exp, cur>>
    BY DEF RunCancel
  <1>1. status \in [Timer -> {"new", "queued", "armed", "cancelled", "fired"}]
    BY Types DEF QueueInv
  <1>2. /\ ops' \in Seq([op : {"add", "cancel"}, timer : Timer])
        /\ batch' \in 0 .. Len(ops') /\ 1 \in DOMAIN ops /\ Head(ops) = ops[1]
    BY <1>0, TakenOff DEF QueueInv
  <1>3. t \in Timer /\ t = ops[1].timer /\ ops[1].op = "cancel"
    BY <1>0, <1>2, OpsAre DEF QueueInv
  <1> HIDE DEF t
  <1>4. status[t] \in {"armed", "cancelled"}
    <2>1. /\ t \in Repeating /\ status[t] # "new"
          /\ status[t] = "queued" => \E j \in 1 .. 1 - 1 : IsAdd(j, t)
      BY <1>2, <1>3 DEF QueueInv, QueueOrdered
    <2>2. 1 .. 1 - 1 = {}
      OBVIOUS
    <2>3. status[t] = "fired" => t \notin Repeating
      BY <1>3 DEF QueueInv, SlotsKnown
    <2> QED BY <1>1, <1>3, <2>1, <2>2, <2>3
  <1>5. t # cur
    BY <1>0, <1>3, TimerAssumption DEF QueueInv, OnTop
  <1>6. ~undef' /\ HeapRight' /\ OnTop' /\ SlotsKnown'
    BY <1>0, <1>3, <1>4, <1>5, CancelKept
  <1>7. /\ status' \in [Timer -> {"new", "queued", "armed", "cancelled", "fired"}]
        /\ \A u \in Timer : /\ status'[u] = "queued" <=> status[u] = "queued"
                            /\ status'[u] = "new" => status[u] = "new"
    BY <1>0, <1>3, <1>4, CancelTypes
  <1>8. QueueOrdered'
    <2>1. \A u \in Timer : ~IsAdd(1, u)
      BY <1>3 DEF IsAdd
    <2> QED BY <1>0, <1>7, <2>1, OrderTaken
  <1>9. heap' \in HeapType
    BY <1>6 DEF HeapRight, HeapOf
  <1>10. undef' \in BOOLEAN
    BY <1>0 DEF CancelInLoop, QueueInv, TypeOK
  <1>11. TypeOK'
    BY <1>0, <1>2, <1>7, <1>9, <1>10 DEF QueueInv, TypeOK, HeapType
  <1> QED BY <1>6, <1>8, <1>11 DEF QueueInv

(* The top of the heap, when no callback runs, is the earliest timer set.  *)
LEMMA TopIsArmed ==
    ASSUME QueueInv, pc # "callback", heap.size > 0
    PROVE  /\ HeapTop(heap) \in Timer /\ HeapTop(heap) = heap.event[0]
           /\ status[HeapTop(heap)] = "armed"
           /\ \A t \in Timer : status[t] = "armed" => exp[HeapTop(heap)] <= exp[t]
  <1>1. HeapOf(heap, exp, Armed) /\ exp \in [Timer -> Int]
    BY Types DEF QueueInv, HeapRight, Running
  <1>2. HeapTop(heap) \in Armed /\ HeapTop(heap) = heap.event[0]
    BY <1>1, TopIs
  <1>3. \A t \in Armed : exp[HeapTop(heap)] <= exp[t]
    BY <1>1, TopIsLeast
  <1> QED BY <1>2, <1>3 DEF Armed

(* The top timer runs, and stays in the heap meanwhile.                    *)
LEMMA RunTimerKept ==
    ASSUME QueueInv, RunTimer
    PROVE  QueueInv'
  <1> DEFINE t == HeapTop(heap)
  <1>0. /\ pc = "expire" /\ pc' = "callback" /\ heap.size > 0 /\ exp[t] <= pollTime
        /\ cur' = t
        /\ status' = [status EXCEPT ![t] = IF @ = "armed" /\ t \notin Repeating
                                           THEN "fired" ELSE @]
        /\ UNCHANGED <<now, until, pollTime, heap, exp, ops, batch, undef>>
    BY DEF RunTimer, TopIsDue
  <1>1. t \in Timer /\ t = heap.event[0] /\ status[t] = "armed"
    BY <1>0, TopIsArmed
  <1>2. status \in [Timer -> {"new", "queued", "armed", "cancelled", "fired"}]
    BY Types DEF QueueInv
  <1> HIDE DEF t
  <1>3. /\ status' \in [Timer -> {"new", "queued", "armed", "cancelled", "fired"}]
        /\ status'[t] = IF t \in Repeating THEN "armed" ELSE "fired"
        /\ \A u \in Timer : u # t => status'[u] = status[u]
    BY <1>0, <1>1, <1>2
  <1>4. TypeOK'
    BY <1>0, <1>1, <1>3 DEF QueueInv, TypeOK
  <1>5. HeapRight'
    <2>1. Armed' \cup Running' = Armed \cup Running
      BY <1>0, <1>1, <1>3 DEF Armed, Running
    <2> QED BY <1>0, <2>1 DEF QueueInv, HeapRight
  <1>6. OnTop'
    BY <1>0, <1>1, <1>3 DEF QueueInv, OnTop
  <1>7. SlotsKnown'
    <2> SUFFICES ASSUME NEW u \in Timer
                 PROVE  /\ status'[u] \in {"new", "queued"} <=> heap'.idx[u] = Unset
                        /\ status'[u] = "cancelled" => heap'.idx[u] = NotInHeap
                        /\ status'[u] = "fired" => u \notin Repeating
      BY DEF SlotsKnown
    <2>1. /\ status[u] \in {"new", "queued"} <=> heap.idx[u] = Unset
          /\ status[u] = "cancelled" => heap.idx[u] = NotInHeap
          /\ status[u] = "fired" => u \notin Repeating
      BY DEF QueueInv, SlotsKnown
    <2> QED BY <1>0, <1>1, <1>3, <2>1
  <1>8. QueueOrdered'
    <2>1. \A u \in Timer : /\ status'[u] = "queued" <=> status[u] = "queued"
                           /\ status'[u] = "new" => status[u] = "new"
      BY <1>1, <1>3
    <2> QED BY <1>0, <2>1, OrderKept
  <1> QED BY <1>0, <1>4, <1>5, <1>6, <1>7, <1>8 DEF QueueInv

(* The timer that has run leaves the heap, and comes back if it repeats.   *)
LEMMA CallbackReturnsKept ==
    ASSUME QueueInv, CallbackReturns
    PROVE  QueueInv'
  <1> DEFINE M == Armed \cup Running
             p == HeapPop(heap, exp)
  <1>0. /\ pc = "callback" /\ pc' = "expire" /\ cur' = NoTimer
        /\ exp' = IF cur \in Repeating THEN [exp EXCEPT ![cur] = pollTime + Interval] ELSE exp
        /\ heap' = IF cur \in Repeating THEN HeapPush(p, exp', cur) ELSE p
        /\ UNCHANGED <<now, until, pollTime, ops, batch, status, undef>>
    BY DEF CallbackReturns, PopAndRestart
  <1>1. /\ exp \in [Timer -> 0 .. MaxTime + Interval] /\ exp \in [Timer -> Int]
        /\ pollTime \in Nat /\ now \in Nat /\ now <= MaxTime /\ HeapOf(heap, exp, M)
        /\ status \in [Timer -> {"new", "queued", "armed", "cancelled", "fired"}]
    BY Types DEF QueueInv, HeapRight
  <1>2. /\ cur \in Timer /\ heap.size > 0 /\ heap.event[0] = cur /\ pollTime <= now
        /\ status[cur] = IF cur \in Repeating THEN "armed" ELSE "fired"
    BY <1>0 DEF QueueInv, OnTop
  <1>3. M = Armed \cup {cur} /\ cur \in M /\ M \subseteq Timer
    BY <1>0, <1>2 DEF Running, Armed
  <1>4. HeapTop(heap) = cur /\ heap.idx[cur] = 0
    BY <1>1, <1>2, TopIs
  <1>5. /\ HeapOf(p, exp, M \ {cur})
        /\ \A u \in Timer : u \notin M \/ u = cur => p.idx[u] = heap.idx[u]
    <2>1. Popped(heap, p, exp, M)
      BY <1>1, <1>2, PopRemoves
    <2> QED BY <1>4, <2>1 DEF Popped
  <1> HIDE DEF p
  <1>6. /\ exp' \in [Timer -> 0 .. MaxTime + Interval] /\ exp' \in [Timer -> Int]
        /\ \A u \in Timer : u # cur => exp'[u] = exp[u]
    <2>1. pollTime + Interval \in 0 .. MaxTime + Interval /\ pollTime + Interval \in Int
      BY <1>1, <1>2, MaxTimeAssumption DEF Interval
    <2> QED BY <1>0, <1>1, <2>1
  <1>7. /\ HeapOf(heap', exp', Armed)
        /\ \A u \in Timer : u \notin M => heap'.idx[u] = heap.idx[u]
        /\ cur \notin Repeating => heap'.idx[cur] = 0
    <2>1. CASE cur \in Repeating
      <3>1. \A u \in M \ {cur} : exp'[u] = exp[u]
        BY <1>3, <1>6
      <3>2. HeapOf(p, exp', M \ {cur})
        BY <1>5, <3>1, OtherTimes
      <3>3. Added(p, heap', exp', M \ {cur}, cur)
        BY <1>0, <1>2, <1>6, <2>1, <3>2, PushAdds
      <3>4. (M \ {cur}) \cup {cur} = Armed
        BY <1>2, <1>3, <2>1 DEF Armed
      <3>5. /\ HeapOf(heap', exp', (M \ {cur}) \cup {cur})
            /\ \A u \in Timer : u \notin M \ {cur} /\ u # cur => heap'.idx[u] = p.idx[u]
        BY <3>3 DEF Added
      <3>6. \A u \in Timer : u \notin M => heap'.idx[u] = heap.idx[u]
        BY <1>3, <1>5, <3>5
      <3> QED BY <2>1, <3>4, <3>5, <3>6
    <2>2. CASE cur \notin Repeating
      <3>1. M \ {cur} = Armed
        BY <1>2, <1>3, <2>2 DEF Armed
      <3>2. heap' = p /\ exp' = exp
        BY <1>0, <2>2
      <3> QED BY <1>2, <1>4, <1>5, <3>1, <3>2
    <2> QED BY <2>1, <2>2
  <1>8. Armed' = Armed /\ Running' = {}
    BY <1>0 DEF Armed, Running
  <1>9. HeapRight'
    BY <1>7, <1>8 DEF HeapRight
  <1>10. OnTop'
    BY <1>0, <1>2 DEF OnTop
  <1>11. SlotsKnown'
    <2> SUFFICES ASSUME NEW u \in Timer
                 PROVE  /\ status[u] \in {"new", "queued"} <=> heap'.idx[u] = Unset
                        /\ status[u] = "cancelled" => heap'.idx[u] = NotInHeap
                        /\ status[u] = "fired" => u \notin Repeating
      BY <1>0 DEF SlotsKnown
    <2>1. /\ status[u] \in {"new", "queued"} <=> heap.idx[u] = Unset
          /\ status[u] = "cancelled" => heap.idx[u] = NotInHeap
          /\ status[u] = "fired" => u \notin Repeating
      BY DEF QueueInv, SlotsKnown
    <2>2. CASE u \notin M
      BY <1>7, <2>1, <2>2
    <2>3. CASE u = cur /\ cur \notin Repeating
      BY <1>2, <1>7, <2>1, <2>3 DEF Unset
    <2>4. CASE u \in Armed
      <3>1. heap'.idx[u] \in 0 .. heap'.size - 1
        BY <1>7, <2>4, MembersAre
      <3>2. heap'.idx[u] # Unset
        BY <3>1 DEF Unset
      <3> QED BY <2>1, <2>4, <3>2 DEF Armed
    <2> QED BY <1>2, <1>3, <2>2, <2>3, <2>4 DEF Armed
  <1>12. QueueOrdered'
    BY <1>0, OrderKept
  <1>13. heap' \in HeapType
    BY <1>7 DEF HeapOf
  <1>14. TypeOK'
    BY <1>0, <1>6, <1>13 DEF QueueInv, TypeOK, HeapType
  <1> QED BY <1>0, <1>9, <1>10, <1>11, <1>12, <1>14 DEF QueueInv

(* A stuttering step, too.                                                 *)
LEMMA StutterKept == ASSUME QueueInv, UNCHANGED vars PROVE QueueInv'
  <1>1. UNCHANGED <<pc, now, until, pollTime, heap, exp, ops, batch, cur, status, undef>>
    BY DEF vars
  <1>2. TypeOK'
    BY <1>1 DEF QueueInv, TypeOK
  <1>3. HeapRight'
    BY <1>1 DEF QueueInv, HeapRight, Armed, Running
  <1>4. OnTop'
    BY <1>1 DEF QueueInv, OnTop
  <1>5. SlotsKnown'
    BY <1>1 DEF QueueInv, SlotsKnown
  <1>6. QueueOrdered'
    BY <1>1 DEF QueueInv, QueueOrdered, IsAdd
  <1> QED BY <1>1, <1>2, <1>3, <1>4, <1>5, <1>6 DEF QueueInv

(* So every step does.                                                     *)
LEMMA NextQueueInv == ASSUME Careless = {}, QueueInv, [Next]_vars PROVE QueueInv'
  <1>1. CASE PollReturns \/ NoMoreDue \/ SwapFunctors \/ EndIteration
    BY <1>1, QuietSteps
  <1>2. CASE RunTimer
    BY <1>2, RunTimerKept
  <1>3. CASE CallbackReturns
    BY <1>3, CallbackReturnsKept
  <1>4. CASE RunAdd
    BY <1>4, RunAddKept
  <1>5. CASE RunCancel
    BY <1>5, RunCancelKept
  <1>6. CASE Tick
    BY <1>6, TickKept
  <1>7. ASSUME NEW t \in Timer, NEW w \in WhenSet, OtherAdds(t, w) PROVE QueueInv'
    BY <1>7, OtherAddsKept
  <1>8. ASSUME NEW t \in Timer, NEW w \in WhenSet, LoopAdds(t, w) PROVE QueueInv'
    BY <1>8, LoopAddsKept
  <1>9. ASSUME NEW t \in Timer, OtherCancels(t) PROVE QueueInv'
    BY <1>9, OtherCancelsKept
  <1>10. ASSUME NEW t \in Timer, LoopCancels(t) PROVE QueueInv'
    BY <1>10, LoopCancelsKept
  <1>11. CASE UNCHANGED vars
    BY <1>11, StutterKept
  <1> QED BY <1>1, <1>2, <1>3, <1>4, <1>5, <1>6, <1>7, <1>8, <1>9, <1>10, <1>11
          DEF Next, LoopStep

----------------------------------------------------------------------------
(* The theorems.                                                           *)

(* The queue keeps its invariant (timerQueue.cpp:52-137).                  *)
THEOREM QueueInvariant == ASSUME Careless = {} PROVE Spec => []QueueInv
  <1>1. QueueInv /\ [Next]_vars => QueueInv'
    BY NextQueueInv
  <1> QED BY <1>1, InitQueueInv, PTL DEF Spec

(* The heap holds the timers that are set, and the one that runs, each     *)
(* knowing its slot, through every push, pop and erase (timeMinHeap.h).    *)
THEOREM HeapIsRight == ASSUME Careless = {} PROVE Spec => []HeapMatchesTimers
  <1>1. QueueInv => HeapMatchesTimers
    BY DEF QueueInv, HeapRight, HeapOf, Armed, Running, HeapMatchesTimers
  <1> QED BY <1>1, QueueInvariant, PTL

(* No timer that is set is missing from the heap that the next poll looks  *)
(* at (timerQueue.cpp:63-73).                                              *)
THEOREM TimersKept == ASSUME Careless = {} PROVE Spec => []NoTimerLost
  <1>1. QueueInv => NoTimerLost
    BY DEF QueueInv, HeapRight, HeapOf, Armed, Running, NoTimerLost
  <1> QED BY <1>1, QueueInvariant, PTL

(* expiredProcess runs the earliest of the timers that are set, when it is *)
(* due, and no poll ends too late for one (timerQueue.cpp:63-110).         *)
THEOREM EarliestRuns == ASSUME Careless = {} PROVE Spec => RunsEarliestArmed
  <1> DEFINE Starts == pc' = "callback" /\ pc # "callback" =>
                          /\ status[cur'] = "armed"
                          /\ exp[cur'] <= pollTime
                          /\ \A t \in Timer : status[t] = "armed" => exp[cur'] <= exp[t]
             Polls  == pc' = "poll" /\ pc # "poll" =>
                          \A t \in Timer : status[t] = "armed" =>
                                              until' <= Max({exp[t], now}) + 1
  <1>1. ASSUME QueueInv, Next PROVE Starts
    <2> SUFFICES ASSUME pc' = "callback", pc # "callback"
                 PROVE  /\ status[cur'] = "armed"
                        /\ exp[cur'] <= pollTime
                        /\ \A t \in Timer : status[t] = "armed" => exp[cur'] <= exp[t]
      OBVIOUS
    <2>1. RunTimer
      BY <1>1 DEF Next, LoopStep, PollReturns, CallbackReturns, NoMoreDue, SwapFunctors,
                  RunAdd, RunCancel, EndIteration, Tick, OtherAdds, LoopAdds, OtherCancels,
                  LoopCancels
    <2>2. cur' = HeapTop(heap) /\ heap.size > 0 /\ exp[HeapTop(heap)] <= pollTime
      BY <2>1 DEF RunTimer, TopIsDue
    <2> QED BY <1>1, <2>2, TopIsArmed
  <1>2. ASSUME QueueInv, Next PROVE Polls
    <2> SUFFICES ASSUME pc' = "poll", pc # "poll", NEW t \in Timer, status[t] = "armed"
                 PROVE  until' <= Max({exp[t], now}) + 1
      OBVIOUS
    <2>1. EndIteration
      BY <1>2 DEF Next, LoopStep, PollReturns, RunTimer, CallbackReturns, NoMoreDue,
                  SwapFunctors, RunAdd, RunCancel, Tick, OtherAdds, LoopAdds, OtherCancels,
                  LoopCancels
    <2>2. until' = PollEnd(heap, exp) /\ pc # "callback"
      BY <2>1 DEF EndIteration
    <2> QED BY <1>2, <2>2, PollEndIs
  <1>3. QueueInv /\ [Next]_vars => [Starts /\ Polls]_vars
    BY <1>1, <1>2
  <1> QED BY <1>3, QueueInvariant, PTL DEF Spec, RunsEarliestArmed

=============================================================================
