--------------------------- MODULE EPollPollerProof ---------------------------
(***************************************************************************)
(* Theorems of EPollPoller over EpollPort, for any handles and addresses,  *)
(* any number of operations, failures, channels and changes.               *)
(***************************************************************************)
EXTENDS EPollPoller, FiniteSetTheorems, SequenceTheorems, TLAPS

----------------------------------------------------------------------------
(* The port.                                                               *)
Event      == {"IN", "OUT"}
Results    == {"IN", "OUT", "LOCAL_CLOSE", "ERROR", "CLOSED"}
Datum      == [sock : Fd \X Nat, registered : SUBSET Event, gen : Nat,
               user : Fd \X Nat, opCount : Nat]
Op         == [data : Data, sock : Fd \X Nat, gen : Nat, events : SUBSET Event]
Completion == [op : Op, result : Results]
Report     == [user : Fd \X Nat, result : Results]

PortTypes ==
    /\ PortTypeOK
    /\ data \in [Data -> Datum \cup {Free}]
    /\ ops \in [Data -> Seq(Op)]
    /\ \A d \in Data : \A i \in DOMAIN ops[d] : ops[d][i].data = d
    /\ completed \in Seq(Completion)
    /\ errors \in Nat
    /\ errors = 0 => \A i \in DOMAIN completed : completed[i].result # "ERROR"

(* What is at an address counts the n operations that refer to it, of      *)
(* which it may count too many once something has failed; where nothing    *)
(* is, nothing refers to.                                                  *)
Counts(x, n) == IF x = Free THEN n = 0
                ELSE x.opCount >= n /\ (errors = 0 => x.opCount = n)
Counted == \A d \in Data : Counts(data[d], OpsOf(d))

(* The tree and the attention list refer to data of the sockets there are. *)
TreeOK ==
    /\ Registered \subseteq Alive
    /\ attn \subseteq Registered
    /\ \A f \in Fd : tree[f] # 0 => data[tree[f]].sock = <<f, uses[f]>>

(* The operations of d among the completions at the places S, and all.     *)
OfData(seq, d)  == {i \in DOMAIN seq : seq[i].op.data = d}
OpsAt(seq, S)   == {seq[i].op : i \in S}
InKernel(seq)   == {seq[i] : i \in DOMAIN seq}
Outstanding(d, seq, all) == InKernel(seq) \cup OpsAt(all, OfData(all, d))

(* Nothing registered is forgotten: it will be polled again, as it is on   *)
(* the attention list with no generation that would hide an operation, or  *)
(* an operation is outstanding that is not superseded.                     *)
Awaits(x, listed, O) == \/ listed /\ x.gen = 0
                        \/ \E o \in O : o.gen >= x.gen
Heard == errors = 0 =>
    \A f \in Fd : tree[f] # 0 =>
        Awaits(data[tree[f]], tree[f] \in attn,
               Outstanding(tree[f], ops[tree[f]], completed))

PortInv == PortTypes /\ Counted /\ (port = "open" => TreeOK /\ Heard)

----------------------------------------------------------------------------
(* The poller.                                                             *)
Polls == {"functors", "wait", "dispatch"}

PollerTypes ==
    /\ number \in [Fd -> Nat \ {0}]
    /\ events \in [Fd -> Interests \cup {{}}]
    /\ index \in [Fd -> {"kNew", "kAdded", "kDeleted"}]
    /\ channels \in [Fd -> Nat]
    /\ size \in Nat \ {0}
    /\ active \in Seq(Report) /\ Len(active) <= size

Phases ==
    /\ phase \in Polls => port = "open"
    /\ port = "open" => phase \in Polls \cup {"aborted"}
    /\ phase = "create" => /\ port = "none" /\ attn = {}
                           /\ \A f \in Fd : index[f] = "kNew" /\ tree[f] = 0
    /\ phase = "destroy" => port = "closing"
    /\ phase = "wait" => attn = {}

(* A channel is in channels_ unless it is kNew, and in the tree while it   *)
(* is kAdded, with data that points to it.                                 *)
Tables ==
    /\ \A f \in Fd : channels[f] = IF index[f] = "kNew" THEN 0 ELSE number[f]
    /\ phase \in Polls => \A f \in Fd :
          /\ index[f] = "kAdded" <=> tree[f] # 0
          /\ tree[f] # 0 => data[tree[f]].user = Channel(f)

(* A channel that has wanted to read ever since it was added has asked for *)
(* it each time.                                                           *)
Reading ==
    phase \in Polls /\ errors = 0 =>
        \A f \in Fd : tree[f] # 0 /\ f \notin deaf =>
            /\ "IN" \in data[tree[f]].registered
            /\ \A o \in InKernel(ops[tree[f]]) : "IN" \in o.events

IInv == PortInv /\ PollerTypes /\ Phases /\ Tables /\ Reading

----------------------------------------------------------------------------
(* Sequences and counting.                                                 *)

(* The relation of the well-foundedness theorem is the order on the        *)
(* naturals.                                                               *)
LEMMA Below == \A n, m \in Nat : n < m <=> <<n, m>> \in OpToRel(<, Nat)
  BY DEF OpToRel

(* Every set of numbers has a least...                                     *)
LEMMA LeastElement ==
    ASSUME NEW T, T \subseteq Nat, T # {}
    PROVE  \E x \in T : \A y \in T : ~(y < x)
  <1>1. PICK x \in T : \A y \in T : <<y, x>> \notin OpToRel(<, Nat)
    BY NatLessThanWellFounded, WFMin
  <1> QED BY <1>1, Below

(* ... and every set of numbers up to n a greatest, which Max() chooses.   *)
LEMMA GreatestElement ==
    ASSUME NEW n \in Nat, NEW T, T \subseteq 1 .. n, T # {}
    PROVE  Max(T) \in T
  <1> DEFINE D == {k \in Nat : \E x \in T : k = n - x}
  <1>1. PICK t \in T : t \in 1 .. n
    OBVIOUS
  <1>2. n - t \in D
    BY <1>1
  <1>3. D \subseteq Nat /\ D # {}
    BY <1>2
  <1>4. PICK k \in D : \A j \in D : ~(j < k)
    BY <1>3, LeastElement
  <1>5. PICK x \in T : k = n - x
    BY <1>4
  <1>6. ASSUME NEW y \in T PROVE x >= y
    <2>1. x \in 1 .. n /\ y \in 1 .. n
      OBVIOUS
    <2>2. n - y \in D
      BY <2>1
    <2>3. ~(n - y < n - x)
      BY <1>4, <1>5, <2>2
    <2> QED BY <2>1, <2>3
  <1> QED BY <1>6 DEF Max

(* A sequence without its i-th element.                                    *)
LEMMA Removed ==
    ASSUME NEW S, NEW s \in Seq(S), NEW i \in DOMAIN s
    PROVE  /\ RemoveAt(s, i) \in Seq(S)
           /\ Len(RemoveAt(s, i)) = Len(s) - 1
           /\ InKernel(s) = InKernel(RemoveAt(s, i)) \cup {s[i]}
  <1> DEFINE a == SubSeq(s, 1, i - 1)
             b == SubSeq(s, i + 1, Len(s))
             n == Len(s)
  <1>1. n \in Nat /\ i \in 1 .. n /\ DOMAIN s = 1 .. n
    OBVIOUS
  <1>2. /\ a \in Seq(S) /\ Len(a) = i - 1
        /\ \A k \in 1 .. i - 1 : a[k] = s[k]
    <2>1. \A k \in 1 .. i - 1 : s[k] \in S
      BY <1>1
    <2>2. 1 \in Int /\ i - 1 \in Int /\ ((i - 1) - 1) + 1 = i - 1
      BY <1>1
    <2>3. /\ a \in Seq(S) /\ Len(a) = IF 1 <= i - 1 THEN ((i - 1) - 1) + 1 ELSE 0
          /\ \A k \in 1 .. ((i - 1) - 1) + 1 : a[k] = s[(1 + k) - 1]
      BY <2>1, <2>2, SubSeqProperties
    <2> QED BY <1>1, <2>3
  <1>3. /\ b \in Seq(S) /\ Len(b) = n - i
        /\ \A k \in 1 .. n - i : b[k] = s[i + k]
    <2>1. \A k \in i + 1 .. n : s[k] \in S
      BY <1>1
    <2>2. i + 1 \in Int /\ n \in Int
      BY <1>1
    <2>3. /\ b \in Seq(S) /\ Len(b) = IF i + 1 <= n THEN (n - (i + 1)) + 1 ELSE 0
          /\ \A k \in 1 .. (n - (i + 1)) + 1 : b[k] = s[((i + 1) + k) - 1]
      BY <2>1, <2>2, SubSeqProperties
    <2> QED BY <1>1, <2>3
  <1> HIDE DEF a, b, n
  <1> DEFINE t == a \o b
  <1>4. /\ t \in Seq(S) /\ Len(t) = n - 1
        /\ \A k \in 1 .. n - 1 : t[k] = IF k < i THEN s[k] ELSE s[k + 1]
    <2>1. /\ t \in Seq(S) /\ Len(t) = (i - 1) + (n - i)
          /\ \A k \in 1 .. (i - 1) + (n - i) :
                t[k] = IF k <= i - 1 THEN a[k] ELSE b[k - (i - 1)]
      <3>1. /\ t \in Seq(S) /\ Len(t) = Len(a) + Len(b)
            /\ \A k \in 1 .. Len(a) + Len(b) :
                  t[k] = IF k <= Len(a) THEN a[k] ELSE b[k - Len(a)]
        BY <1>2, <1>3, ConcatProperties
      <3>2. Len(a) = i - 1 /\ Len(b) = n - i
        BY <1>2, <1>3
      <3> HIDE DEF t
      <3> QED BY <3>1, <3>2
    <2>2. (i - 1) + (n - i) = n - 1
      BY <1>1
    <2>3. ASSUME NEW k \in 1 .. n - 1 PROVE t[k] = IF k < i THEN s[k] ELSE s[k + 1]
      <3>1. CASE k < i
        BY <1>1, <1>2, <2>1, <2>2, <3>1
      <3>2. CASE ~(k < i)
        <4>1. k - (i - 1) \in 1 .. n - i /\ i + (k - (i - 1)) = k + 1 /\ ~(k <= i - 1)
          BY <1>1, <3>2
        <4> QED BY <1>3, <2>1, <2>2, <3>2, <4>1
      <3> QED BY <3>1, <3>2
    <2> QED BY <2>1, <2>2, <2>3
  <1> HIDE DEF t
  <1>5. DOMAIN t = 1 .. n - 1
    BY <1>1, <1>4
  <1>6. ASSUME NEW k \in 1 .. n, k # i PROVE s[k] \in InKernel(t)
    <2>1. CASE k < i
      <3>1. k \in 1 .. n - 1
        BY <1>1, <2>1
      <3> QED BY <1>4, <1>5, <2>1, <3>1 DEF InKernel
    <2>2. CASE ~(k < i)
      <3>1. k - 1 \in 1 .. n - 1 /\ (k - 1) + 1 = k /\ ~(k - 1 < i)
        BY <1>1, <1>6, <2>2
      <3>2. t[k - 1] = s[k]
        BY <1>4, <3>1
      <3> QED BY <1>5, <3>1, <3>2 DEF InKernel
    <2> QED BY <2>1, <2>2
  <1>7. ASSUME NEW k \in 1 .. n - 1 PROVE t[k] \in InKernel(s)
    <2>1. k \in DOMAIN s /\ k + 1 \in DOMAIN s
      BY <1>1
    <2> QED BY <1>4, <2>1 DEF InKernel
  <1>8. InKernel(s) = InKernel(t) \cup {s[i]}
    <2>1. \A o \in InKernel(s) : o \in InKernel(t) \/ o = s[i]
      BY <1>1, <1>6 DEF InKernel
    <2>2. \A o \in InKernel(t) : o \in InKernel(s)
      BY <1>5, <1>7 DEF InKernel
    <2>3. s[i] \in InKernel(s)
      BY DEF InKernel
    <2> QED BY <2>1, <2>2, <2>3
  <1>9. RemoveAt(s, i) = t
    BY DEF RemoveAt, t, a, b, n
  <1> QED BY <1>4, <1>8, <1>9 DEF n

(* An operation more in the kernel.                                        *)
LEMMA Begun ==
    ASSUME NEW s \in Seq(Op), NEW o \in Op
    PROVE  /\ Append(s, o) \in Seq(Op) /\ Len(Append(s, o)) = Len(s) + 1
           /\ InKernel(Append(s, o)) = InKernel(s) \cup {o}
  <1> DEFINE t == Append(s, o)
             n == Len(s)
  <1>1. /\ t \in Seq(Op) /\ Len(t) = n + 1 /\ t[n + 1] = o
        /\ \A i \in 1 .. n : t[i] = s[i]
        /\ n \in Nat /\ DOMAIN s = 1 .. n /\ DOMAIN t = 1 .. n + 1
    OBVIOUS
  <1> HIDE DEF t, n
  <1>2. \A i \in 1 .. n : i \in 1 .. n + 1
    BY <1>1
  <1>3. \A i \in 1 .. n + 1 : i \in 1 .. n \/ i = n + 1
    BY <1>1
  <1>4. n + 1 \in 1 .. n + 1
    BY <1>1
  <1>5. InKernel(t) = InKernel(s) \cup {o}
    BY <1>1, <1>2, <1>3, <1>4 DEF InKernel
  <1> QED BY <1>1, <1>5 DEF t, n

(* The places of a datum's completions are finitely many...                *)
LEMMA PlacesFinite ==
    ASSUME NEW s \in Seq(Completion), NEW d, NEW T, T \subseteq OfData(s, d)
    PROVE  IsFiniteSet(T) /\ Cardinality(T) \in Nat
  <1>1. IsFiniteSet(1 .. Len(s)) /\ DOMAIN s = 1 .. Len(s)
    BY FS_Interval
  <1>2. T \subseteq 1 .. Len(s)
    BY <1>1 DEF OfData
  <1> QED BY <1>1, <1>2, FS_Subset, FS_CardinalityType

(* ... and one more with a completion of it.                               *)
LEMMA Completes ==
    ASSUME NEW s \in Seq(Completion), NEW c \in Completion, NEW d
    PROVE  LET t == Append(s, c)
           IN  /\ Cardinality(OfData(t, d)) =
                    Cardinality(OfData(s, d)) + IF c.op.data = d THEN 1 ELSE 0
               /\ OpsAt(t, OfData(t, d)) = OpsAt(s, OfData(s, d))
                    \cup IF c.op.data = d THEN {c.op} ELSE {}
  <1> DEFINE t == Append(s, c)
             n == Len(s)
             A == OfData(s, d)
             B == OfData(t, d)
  <1>1. /\ t \in Seq(Completion) /\ t[n + 1] = c
        /\ \A i \in 1 .. n : t[i] = s[i]
        /\ n \in Nat /\ DOMAIN s = 1 .. n /\ DOMAIN t = 1 .. n + 1
    OBVIOUS
  <1> HIDE DEF t, n
  <1>2. \A i \in 1 .. n : i \in 1 .. n + 1
    BY <1>1
  <1>3. \A i \in 1 .. n + 1 : i \in 1 .. n \/ i = n + 1
    BY <1>1
  <1>4. n + 1 \in 1 .. n + 1 /\ n + 1 \notin 1 .. n
    BY <1>1
  <1>5. B = IF c.op.data = d THEN A \cup {n + 1} ELSE A
    BY <1>1, <1>2, <1>3, <1>4 DEF OfData
  <1>6. n + 1 \notin A /\ A \subseteq 1 .. n
    BY <1>1, <1>4 DEF OfData
  <1>7. IsFiniteSet(A) /\ Cardinality(A) \in Nat
    BY PlacesFinite
  <1> HIDE DEF A, B
  <1>8. Cardinality(A \cup {n + 1}) = Cardinality(A) + 1
    BY <1>6, <1>7, FS_AddElement
  <1>9. Cardinality(B) = Cardinality(A) + IF c.op.data = d THEN 1 ELSE 0
    BY <1>5, <1>7, <1>8
  <1>10. OpsAt(t, B) = OpsAt(s, A) \cup IF c.op.data = d THEN {c.op} ELSE {}
    BY <1>1, <1>5, <1>6 DEF OpsAt
  <1> QED BY <1>9, <1>10 DEF t, A, B

(* The completions at the places after the n-th...                         *)
After(s, n, d) == {i \in n + 1 .. Len(s) : s[i].op.data = d}

(* ... are all at first, lose the next place with the next completion...   *)
LEMMA AfterNext ==
    ASSUME NEW s \in Seq(Completion), NEW d
    PROVE  /\ After(s, 0, d) = OfData(s, d)
           /\ \A n \in 1 .. Len(s) :
                /\ After(s, n, d) \subseteq OfData(s, d)
                /\ After(s, n - 1, d) = After(s, n, d) \cup
                        IF s[n].op.data = d THEN {n} ELSE {}
                /\ n \notin After(s, n, d)
                /\ Cardinality(After(s, n - 1, d)) =
                        Cardinality(After(s, n, d)) + IF s[n].op.data = d THEN 1 ELSE 0
  <1>1. Len(s) \in Nat /\ DOMAIN s = 1 .. Len(s)
    OBVIOUS
  <1>2. After(s, 0, d) = OfData(s, d)
    BY <1>1 DEF After, OfData
  <1>3. ASSUME NEW n \in 1 .. Len(s)
        PROVE  /\ After(s, n, d) \subseteq OfData(s, d)
               /\ After(s, n - 1, d) = After(s, n, d) \cup
                        IF s[n].op.data = d THEN {n} ELSE {}
               /\ n \notin After(s, n, d)
    <2>1. (n - 1) + 1 = n
      OBVIOUS
    <2>2. \A i \in n .. Len(s) : i = n \/ i \in n + 1 .. Len(s)
      BY <1>1
    <2>3. \A i \in n + 1 .. Len(s) : i \in n .. Len(s) /\ i \in 1 .. Len(s) /\ i # n
      BY <1>1
    <2>4. n \in n .. Len(s)
      BY <1>1
    <2> QED BY <1>1, <2>1, <2>2, <2>3, <2>4 DEF After, OfData
  <1>4. ASSUME NEW n \in 1 .. Len(s)
        PROVE  Cardinality(After(s, n - 1, d)) =
                        Cardinality(After(s, n, d)) + IF s[n].op.data = d THEN 1 ELSE 0
    <2>1. IsFiniteSet(After(s, n, d)) /\ Cardinality(After(s, n, d)) \in Nat
      BY <1>3, PlacesFinite
    <2>2. Cardinality(After(s, n, d) \cup {n}) = Cardinality(After(s, n, d)) + 1
      BY <1>3, <2>1, FS_AddElement
    <2>3. CASE s[n].op.data = d
      BY <1>3, <2>2, <2>3
    <2>4. CASE s[n].op.data # d
      <3>1. After(s, n - 1, d) = After(s, n, d)
        BY <1>3, <2>4
      <3> QED BY <2>1, <2>4, <3>1
    <2> QED BY <2>3, <2>4
  <1> QED BY <1>2, <1>3, <1>4

(* ... and are what is left when n of them have been dequeued.             *)
LEMMA AfterBatchLeft ==
    ASSUME NEW s \in Seq(Completion), NEW n \in 0 .. Len(s), NEW d
    PROVE  LET t == SubSeq(s, n + 1, Len(s))
           IN  /\ t \in Seq(Completion)
               /\ \A i \in DOMAIN t : i + n \in DOMAIN s /\ t[i] = s[i + n]
               /\ Cardinality(OfData(t, d)) = Cardinality(After(s, n, d))
               /\ OpsAt(t, OfData(t, d)) = OpsAt(s, After(s, n, d))
  <1> DEFINE t == SubSeq(s, n + 1, Len(s))
             m == Len(s)
             A == After(s, n, d)
             B == OfData(t, d)
             b == [i \in B |-> i + n]
  <1>1. m \in Nat /\ n \in Nat /\ n <= m /\ DOMAIN s = 1 .. m
    OBVIOUS
  <1>2. /\ t \in Seq(Completion) /\ DOMAIN t = 1 .. m - n
        /\ \A i \in 1 .. m - n : t[i] = s[i + n]
    <2>1. \A i \in n + 1 .. m : s[i] \in Completion
      BY <1>1
    <2>2. n + 1 \in Int /\ m \in Int
      BY <1>1
    <2>3. /\ t \in Seq(Completion) /\ Len(t) = IF n + 1 <= m THEN (m - (n + 1)) + 1 ELSE 0
          /\ \A i \in 1 .. (m - (n + 1)) + 1 : t[i] = s[((n + 1) + i) - 1]
      BY <2>1, <2>2, SubSeqProperties
    <2> HIDE DEF t, m
    <2>4. Len(t) = m - n
      BY <1>1, <2>3
    <2>5. ASSUME NEW i \in 1 .. m - n PROVE t[i] = s[i + n]
      <3>1. i \in 1 .. (m - (n + 1)) + 1 /\ ((n + 1) + i) - 1 = i + n
        BY <1>1
      <3> QED BY <2>3, <3>1
    <2> QED BY <2>3, <2>4, <2>5
  <1> HIDE DEF t, m
  <1>3. A = {i \in n + 1 .. m : s[i].op.data = d}
    BY DEF After, m
  <1>4. B = {i \in 1 .. m - n : s[i + n].op.data = d}
    BY <1>2 DEF OfData
  <1> HIDE DEF A, B
  <1>5. \A i \in B : i + n \in A /\ i \in DOMAIN t /\ t[i] = s[i + n]
    <2>1. \A i \in 1 .. m - n : i + n \in n + 1 .. m
      BY <1>1
    <2> QED BY <1>2, <1>3, <1>4, <2>1
  <1>6. \A j \in A : j - n \in B /\ (j - n) + n = j
    <2>1. \A j \in n + 1 .. m : j - n \in 1 .. m - n /\ (j - n) + n = j
      BY <1>1
    <2> QED BY <1>3, <1>4, <2>1
  <1>7. b \in Bijection(B, A)
    <2>1. b \in [B -> A]
      BY <1>5
    <2>2. \A i, j \in B : b[i] = b[j] => i = j
      BY <1>1, <1>4
    <2>3. \A j \in A : \E i \in B : b[i] = j
      BY <1>6
    <2> HIDE DEF b
    <2> QED BY <2>1, <2>2, <2>3 DEF Bijection, Injection, Surjection, IsInjective
  <1>8. Cardinality(B) = Cardinality(A)
    <2>1. IsFiniteSet(B)
      BY <1>2, PlacesFinite DEF B
    <2> HIDE DEF b
    <2> QED BY <1>7, <2>1, FS_Bijection DEF ExistsBijection
  <1>9. OpsAt(t, B) = OpsAt(s, A)
    <2>1. \A o \in OpsAt(t, B) : o \in OpsAt(s, A)
      BY <1>5 DEF OpsAt
    <2>2. \A o \in OpsAt(s, A) : o \in OpsAt(t, B)
      <3> SUFFICES ASSUME NEW j \in A PROVE s[j].op \in OpsAt(t, B)
        BY DEF OpsAt
      <3>1. j - n \in B /\ t[j - n] = s[j]
        BY <1>5, <1>6
      <3> QED BY <3>1 DEF OpsAt
    <2> QED BY <2>1, <2>2
  <1>10. \A i \in DOMAIN t : i + n \in DOMAIN s /\ t[i] = s[i + n]
    <2>1. \A i \in 1 .. m - n : i + n \in 1 .. m
      BY <1>1
    <2> QED BY <1>1, <1>2, <2>1
  <1> QED BY <1>2, <1>8, <1>9, <1>10 DEF t, m, A, B

----------------------------------------------------------------------------
(* Data and operations.                                                    *)

(* Free is no datum.                                                       *)
LEMMA FreeIsNone == Free \notin Datum
  <1>1. DOMAIN Free = {"free"}
    BY DEF Free
  <1>2. \A x \in Datum : "sock" \in DOMAIN x
    BY DEF Datum
  <1> QED BY <1>1, <1>2

(* submit() gives an operation the next generation, and counts it.         *)
LEMMA Submits ==
    ASSUME NEW x \in Datum, NEW d \in Data
    PROVE  /\ Submitted(x) \in Datum /\ Submitted(x) # Free
           /\ Submitted(x).sock = x.sock /\ Submitted(x).user = x.user
           /\ Submitted(x).registered = x.registered
           /\ Submitted(x).gen = x.gen + 1 /\ Submitted(x).opCount = x.opCount + 1
           /\ NewOp(d, x) \in Op /\ NewOp(d, x).data = d
           /\ NewOp(d, x).gen = x.gen + 1 /\ NewOp(d, x).events = x.registered
  <1>0. x.gen + 1 \in Nat /\ x.opCount + 1 \in Nat
    BY DEF Datum
  <1>1. /\ Submitted(x) \in Datum
        /\ Submitted(x).sock = x.sock /\ Submitted(x).user = x.user
        /\ Submitted(x).registered = x.registered
        /\ Submitted(x).gen = x.gen + 1 /\ Submitted(x).opCount = x.opCount + 1
    <2> DEFINE g == x.gen + 1
               n == x.opCount + 1
    <2>1. Submitted(x) = [x EXCEPT !.gen = g, !.opCount = n]
      BY DEF Submitted
    <2>2. g \in Nat /\ n \in Nat
      BY <1>0
    <2> HIDE DEF g, n
    <2>3. /\ Submitted(x) \in Datum
          /\ Submitted(x).sock = x.sock /\ Submitted(x).user = x.user
          /\ Submitted(x).registered = x.registered
          /\ Submitted(x).gen = g /\ Submitted(x).opCount = n
      BY <2>1, <2>2 DEF Datum
    <2> QED BY <2>3 DEF g, n
  <1>2. /\ NewOp(d, x) \in Op /\ NewOp(d, x).data = d
        /\ NewOp(d, x).gen = x.gen + 1 /\ NewOp(d, x).events = x.registered
    BY DEF NewOp, Op, Datum
  <1> QED BY <1>1, <1>2, FreeIsNone

(* An operation less.                                                      *)
LEMMA Deletes ==
    ASSUME NEW x \in Datum, x.opCount > 0
    PROVE  /\ OpDeleted(x) \in Datum /\ OpDeleted(x) # Free
           /\ OpDeleted(x).sock = x.sock /\ OpDeleted(x).user = x.user
           /\ OpDeleted(x).registered = x.registered
           /\ OpDeleted(x).gen = x.gen /\ OpDeleted(x).opCount = x.opCount - 1
  <1>1. x.opCount - 1 \in Nat
    BY DEF Datum
  <1>2. /\ OpDeleted(x) \in Datum
        /\ OpDeleted(x).sock = x.sock /\ OpDeleted(x).user = x.user
        /\ OpDeleted(x).registered = x.registered
        /\ OpDeleted(x).gen = x.gen /\ OpDeleted(x).opCount = x.opCount - 1
    BY <1>1 DEF OpDeleted, Datum
  <1> QED BY <1>2, FreeIsNone

(* What becomes of data when a completion of it is dequeued: it keeps what *)
(* it is, one operation less unless that has failed, and a generation that *)
(* hides nothing; or it goes, removed and with its last operation.         *)
LEMMA DataLooked ==
    ASSUME NEW x \in Datum, x.opCount > 0, NEW c \in Completion, NEW y, y = DataAfter(c, x)
    PROVE  IF y = Free
           THEN x.opCount = 1 /\ c.op.gen >= x.gen /\ ~find(tree, c.op.data, x)
           ELSE /\ y \in Datum /\ y.sock = x.sock /\ y.user = x.user
                /\ y.registered = x.registered \/ y.registered = x.registered \ {"OUT"}
                /\ y.opCount >= x.opCount - 1
                /\ c.result # "ERROR" => y.opCount = x.opCount - 1
                /\ y.gen = IF c.op.gen < x.gen THEN x.gen ELSE 0
  <1>1. x.gen \in Nat /\ x.opCount \in Nat /\ c.op.gen \in Nat
    BY DEF Datum, Completion, Op
  <1>2. CASE c.op.gen < x.gen
    <2>1. y = OpDeleted(x)
      BY <1>2 DEF DataAfter
    <2> QED BY <1>1, <1>2, <2>1, Deletes
  <1>3. CASE ~(c.op.gen < x.gen)
    <2> DEFINE z == [x EXCEPT !.gen = 0]
    <2>1. /\ z \in Datum /\ z.sock = x.sock /\ z.user = x.user /\ z.gen = 0
          /\ z.registered = x.registered /\ z.opCount = x.opCount
      BY DEF Datum
    <2>2. y = IF ~find(tree, c.op.data, x) THEN GoesWithLast(OpDeleted(z))
              ELSE IF c.result = "ERROR" THEN z
              ELSE [OpDeleted(z) EXCEPT !.registered = @ \ {"OUT"}]
      BY <1>3 DEF DataAfter
    <2> HIDE DEF z
    <2> DEFINE w == OpDeleted(z)
    <2>3. /\ w \in Datum /\ w # Free /\ w.sock = x.sock /\ w.user = x.user /\ w.gen = 0
          /\ w.registered = x.registered /\ w.opCount = x.opCount - 1
      BY <2>1, Deletes
    <2> HIDE DEF w
    <2>4. CASE ~find(tree, c.op.data, x)
      <3>1. y = IF w.opCount = 0 THEN Free ELSE w
        BY <2>2, <2>4 DEF GoesWithLast, w
      <3>2. CASE w.opCount = 0
        BY <1>1, <1>3, <2>3, <2>4, <3>1, <3>2
      <3>3. CASE w.opCount # 0
        BY <1>1, <1>3, <2>3, <3>1, <3>3
      <3> QED BY <3>2, <3>3
    <2>5. CASE find(tree, c.op.data, x) /\ c.result = "ERROR"
      <3>1. y = z /\ y # Free
        BY <2>1, <2>2, <2>5, FreeIsNone
      <3> QED BY <1>1, <1>3, <2>1, <2>5, <3>1
    <2>6. CASE find(tree, c.op.data, x) /\ c.result # "ERROR"
      <3>1. y = [w EXCEPT !.registered = @ \ {"OUT"}]
        BY <2>2, <2>6 DEF w
      <3>2. /\ y \in Datum /\ y.sock = w.sock /\ y.user = w.user /\ y.gen = w.gen
            /\ y.registered = w.registered \ {"OUT"} /\ y.opCount = w.opCount
        BY <2>3, <3>1 DEF Datum
      <3>3. y # Free
        BY <3>2, FreeIsNone
      <3> QED BY <1>1, <1>3, <2>3, <3>2, <3>3
    <2> QED BY <2>4, <2>5, <2>6
  <1> QED BY <1>2, <1>3

----------------------------------------------------------------------------
(* The batch of completions.                                               *)

(* Both recursions over the completions, the one of epoll_wait and the one *)
(* of epoll_close.                                                         *)
First(closing) == IF closing THEN [tree |-> tree, data |-> data, attn |-> attn]
                             ELSE [data |-> data, attn |-> attn, reports |-> <<>>]
Step(closing, s, c) == IF closing THEN CloseLooks(s, c) ELSE Look(s, c)
Recursion(closing, f, n) ==
    f = [i \in 0 .. n |-> IF i = 0 THEN First(closing)
                          ELSE Step(closing, f[i - 1], completed[i])]

(* Such functions exist, by the least number of completions without one.   *)
LEMMA RecursionExists ==
    ASSUME NEW closing \in BOOLEAN
    PROVE  \A n \in Nat : \E f : Recursion(closing, f, n)
  <1> DEFINE Bad == {n \in Nat : ~ \E f : Recursion(closing, f, n)}
  <1> SUFFICES ASSUME Bad # {} PROVE FALSE
    OBVIOUS
  <1>1. PICK n \in Bad : \A y \in Bad : ~(y < n)
    BY LeastElement
  <1>2. CASE n = 0
    <2> DEFINE f == [i \in 0 .. 0 |-> First(closing)]
    <2>1. Recursion(closing, f, 0)
      BY DEF Recursion
    <2> QED BY <1>1, <1>2, <2>1
  <1>3. CASE n # 0
    <2>1. n \in Nat /\ n - 1 \in Nat /\ n - 1 < n /\ n - 1 \notin Bad
      BY <1>1, <1>3
    <2>2. PICK g : Recursion(closing, g, n - 1)
      BY <2>1
    <2> DEFINE f == [i \in 0 .. n |-> IF i < n THEN g[i]
                                      ELSE Step(closing, g[i - 1], completed[i])]
    <2> HIDE DEF Bad
    <2>3. ASSUME NEW i \in 0 .. n - 1
          PROVE  g[i] = IF i = 0 THEN First(closing)
                        ELSE Step(closing, g[i - 1], completed[i])
      BY <2>2 DEF Recursion
    <2>4. ASSUME NEW i \in 0 .. n
          PROVE  f[i] = IF i = 0 THEN First(closing)
                        ELSE Step(closing, f[i - 1], completed[i])
      <3>1. CASE i < n
        <4>1. i \in 0 .. n - 1 /\ f[i] = g[i]
          BY <2>1, <3>1
        <4>2. i # 0 => i - 1 \in 0 .. n /\ i - 1 < n /\ f[i - 1] = g[i - 1]
          BY <2>1, <3>1
        <4> HIDE DEF f
        <4> QED BY <4>1, <4>2, <2>3
      <3>2. CASE i = n
        <4>1. f[i] = Step(closing, g[i - 1], completed[i])
          BY <2>1, <3>2
        <4>2. i - 1 \in 0 .. n /\ i - 1 < n /\ f[i - 1] = g[i - 1]
          BY <2>1, <3>2, <1>3
        <4> HIDE DEF f
        <4> QED BY <4>1, <4>2, <3>2, <1>3
      <3> QED BY <3>1, <3>2, <2>1
    <2>5. Recursion(closing, f, n)
      <3> DEFINE h == [i \in 0 .. n |-> IF i = 0 THEN First(closing)
                                        ELSE Step(closing, f[i - 1], completed[i])]
      <3>1. \A i \in 0 .. n : f[i] = h[i]
        BY <2>4
      <3>2. f = h
        BY <3>1
      <3> QED BY <3>2 DEF Recursion
    <2> QED BY <1>1, <2>1, <2>5 DEF Bad
  <1> QED BY <1>2, <1>3

(* So that the definitions define what they say.                           *)
LEMMA BatchSteps ==
    ASSUME completed \in Seq(Completion)
    PROVE  /\ Looked[0] = First(FALSE)
           /\ \A i \in 1 .. Len(completed) : Looked[i] = Look(Looked[i - 1], completed[i])
           /\ Closed[0] = First(TRUE)
           /\ \A i \in 1 .. Len(completed) :
                 Closed[i] = CloseLooks(Closed[i - 1], completed[i])
  <1> DEFINE n == Len(completed)
  <1>1. n \in Nat
    OBVIOUS
  <1>2. Recursion(FALSE, Looked, n)
    <2>1. \E f : Recursion(FALSE, f, n)
      BY <1>1, RecursionExists
    <2>2. \E f : f = [i \in 0 .. n |->
                        IF i = 0 THEN [data |-> data, attn |-> attn, reports |-> <<>>]
                        ELSE Look(f[i - 1], completed[i])]
      BY <2>1 DEF Recursion, First, Step
    <2>3. Looked = [i \in 0 .. n |->
                        IF i = 0 THEN [data |-> data, attn |-> attn, reports |-> <<>>]
                        ELSE Look(Looked[i - 1], completed[i])]
      BY <2>2 DEF Looked
    <2> QED BY <2>3 DEF Recursion, First, Step
  <1>3. Recursion(TRUE, Closed, n)
    <2>1. \E f : Recursion(TRUE, f, n)
      BY <1>1, RecursionExists
    <2>2. \E f : f = [i \in 0 .. n |->
                        IF i = 0 THEN [tree |-> tree, data |-> data, attn |-> attn]
                        ELSE CloseLooks(f[i - 1], completed[i])]
      BY <2>1 DEF Recursion, First, Step
    <2>3. Closed = [i \in 0 .. n |->
                        IF i = 0 THEN [tree |-> tree, data |-> data, attn |-> attn]
                        ELSE CloseLooks(Closed[i - 1], completed[i])]
      BY <2>2 DEF Closed
    <2> QED BY <2>3 DEF Recursion, First, Step
  <1> HIDE DEF n
  <1>4. 0 \in 0 .. n /\ \A i \in 1 .. n : i \in 0 .. n /\ i # 0
    BY <1>1
  <1>5. /\ Looked[0] = First(FALSE)
        /\ \A i \in 1 .. n : Looked[i] = Look(Looked[i - 1], completed[i])
    <2>1. \A i \in 0 .. n : Looked[i] = IF i = 0 THEN First(FALSE)
                                       ELSE Step(FALSE, Looked[i - 1], completed[i])
      BY <1>2 DEF Recursion
    <2> QED BY <1>4, <2>1 DEF Step
  <1>6. /\ Closed[0] = First(TRUE)
        /\ \A i \in 1 .. n : Closed[i] = CloseLooks(Closed[i - 1], completed[i])
    <2>1. \A i \in 0 .. n : Closed[i] = IF i = 0 THEN First(TRUE)
                                       ELSE Step(TRUE, Closed[i - 1], completed[i])
      BY <1>3 DEF Recursion
    <2> QED BY <1>4, <2>1 DEF Step
  <1> QED BY <1>5, <1>6 DEF n

(* What holds when n completions of the batch have been looked at.         *)
BatchOK(n, s) ==
    /\ s.data \in [Data -> Datum \cup {Free}]
    /\ s.attn \subseteq Registered
    /\ s.reports \in Seq(Report) /\ Len(s.reports) <= n
    /\ \A k \in DOMAIN s.reports :
          \E f \in Fd : tree[f] # 0 /\ s.reports[k].user = data[tree[f]].user
    /\ \A d \in Data :
          Counts(s.data[d], Len(ops[d]) + Cardinality(After(completed, n, d)))
    /\ \A f \in Fd : tree[f] # 0 =>
          LET x == data[tree[f]]
              y == s.data[tree[f]]
          IN  /\ y # Free /\ y.sock = x.sock /\ y.user = x.user
              /\ y.registered = x.registered \/ y.registered = x.registered \ {"OUT"}
              /\ errors = 0 =>
                    Awaits(y, tree[f] \in s.attn,
                           InKernel(ops[tree[f]])
                             \cup OpsAt(completed, After(completed, n, tree[f])))

(* Data to which an operation refers is there, and counts it.              *)
LEMMA InUse ==
    ASSUME NEW x \in Datum \cup {Free}, NEW k \in Nat, NEW m \in Nat, Counts(x, k + (m + 1))
    PROVE  x \in Datum /\ x # Free /\ x.opCount > 0 /\ x.opCount \in Nat
  <1>1. k + (m + 1) > 0
    OBVIOUS
  <1>2. x # Free
    BY <1>1 DEF Counts
  <1>3. x.opCount >= k + (m + 1)
    BY <1>2 DEF Counts
  <1>4. x \in Datum /\ x.opCount \in Nat
    BY <1>2 DEF Datum
  <1> QED BY <1>1, <1>2, <1>3, <1>4

(* An operation counted before and one less counted after.                 *)
LEMMA OneLess ==
    ASSUME NEW x \in Datum, NEW k \in Nat, NEW m \in Nat, Counts(x, k + (m + 1)),
           NEW y \in Datum \cup {Free},
           IF y = Free THEN x.opCount = 1
           ELSE y.opCount >= x.opCount - 1 /\ (errors = 0 => y.opCount = x.opCount - 1)
    PROVE  Counts(y, k + m)
  <1>1. x.opCount \in Nat /\ x # Free
    BY FreeIsNone DEF Datum
  <1>2. x.opCount >= k + (m + 1) /\ (errors = 0 => x.opCount = k + (m + 1))
    BY <1>1 DEF Counts
  <1>3. CASE y = Free
    <2>1. k + m = 0
      BY <1>1, <1>2, <1>3
    <2> QED BY <1>3, <2>1 DEF Counts
  <1>4. CASE y # Free
    <2>1. y.opCount \in Nat
      BY <1>4 DEF Datum
    <2>2. y.opCount >= k + m
      BY <1>1, <1>2, <1>4, <2>1
    <2>3. errors = 0 => y.opCount = k + m
      BY <1>1, <1>2, <1>4, <2>1
    <2> QED BY <1>4, <2>2, <2>3 DEF Counts
  <1> QED BY <1>3, <1>4

(* One completion after the other keeps it.                                *)
LEMMA LookKeeps ==
    ASSUME PortTypes, TreeOK, NEW n \in 1 .. Len(completed), NEW s, BatchOK(n - 1, s)
    PROVE  BatchOK(n, Look(s, completed[n]))
  <1> DEFINE c == completed[n]
             d == c.op.data
             x == s.data[d]
             y == DataAfter(c, x)
             z == Look(s, c)
             A(e) == After(completed, n, e)
             B(e) == After(completed, n - 1, e)
  <1>1. completed \in Seq(Completion) /\ ops \in [Data -> Seq(Op)]
    BY DEF PortTypes
  <1>2. c \in Completion /\ c.op \in Op /\ d \in Data /\ c.op.gen \in Nat
    <2>1. n \in DOMAIN completed
      BY <1>1
    <2>2. c \in Completion
      BY <1>1, <2>1
    <2> HIDE DEF c
    <2>3. c.op \in Op
      BY <2>2 DEF Completion
    <2> QED BY <2>2, <2>3 DEF Op
  <1>3. d # 0
    BY <1>2, PortAssumption
  <1>4. \A e \in Data : /\ Len(ops[e]) \in Nat
                        /\ Cardinality(A(e)) \in Nat
                        /\ Cardinality(B(e)) = Cardinality(A(e)) + IF d = e THEN 1 ELSE 0
                        /\ OpsAt(completed, B(e)) = OpsAt(completed, A(e))
                             \cup IF d = e THEN {c.op} ELSE {}
    <2> SUFFICES ASSUME NEW e \in Data
                 PROVE  /\ Len(ops[e]) \in Nat
                        /\ Cardinality(A(e)) \in Nat
                        /\ Cardinality(B(e)) = Cardinality(A(e)) + IF d = e THEN 1 ELSE 0
                        /\ OpsAt(completed, B(e)) = OpsAt(completed, A(e))
                             \cup IF d = e THEN {c.op} ELSE {}
      OBVIOUS
    <2>1. ops[e] \in Seq(Op)
      BY <1>1
    <2>2. Len(ops[e]) \in Nat
      BY <2>1
    <2>3. /\ A(e) \subseteq OfData(completed, e)
          /\ B(e) = A(e) \cup IF d = e THEN {n} ELSE {}
          /\ Cardinality(B(e)) = Cardinality(A(e)) + IF d = e THEN 1 ELSE 0
      BY <1>1, AfterNext
    <2>4. Cardinality(A(e)) \in Nat
      BY <1>1, <2>3, PlacesFinite
    <2>5. OpsAt(completed, B(e)) = OpsAt(completed, A(e)) \cup IF d = e THEN {c.op} ELSE {}
      BY <2>3 DEF OpsAt
    <2> QED BY <2>2, <2>3, <2>4, <2>5
  <1> HIDE DEF c, A, B
  <1>5. /\ s.data \in [Data -> Datum \cup {Free}]
        /\ \A e \in Data : Counts(s.data[e], Len(ops[e]) + Cardinality(B(e)))
    BY DEF BatchOK, B
  <1>6. Counts(x, Len(ops[d]) + (Cardinality(A(d)) + 1)) /\ x \in Datum \cup {Free}
    BY <1>2, <1>4, <1>5
  <1>7. x \in Datum /\ x # Free /\ x.opCount > 0 /\ x.opCount \in Nat
    BY <1>2, <1>4, <1>6, InUse
  <1> DEFINE told == Reported(c, x)
  <1>8. IF y = Free
        THEN x.opCount = 1 /\ c.op.gen >= x.gen /\ ~find(tree, d, x)
        ELSE /\ y \in Datum /\ y.sock = x.sock /\ y.user = x.user
             /\ y.registered = x.registered \/ y.registered = x.registered \ {"OUT"}
             /\ y.opCount >= x.opCount - 1
             /\ c.result # "ERROR" => y.opCount = x.opCount - 1
             /\ y.gen = IF c.op.gen < x.gen THEN x.gen ELSE 0
    BY <1>2, <1>7, DataLooked
  <1>9. /\ z.data = [s.data EXCEPT ![d] = y]
        /\ z.attn = IF told /\ c.result # "ERROR" THEN s.attn \cup {d} ELSE s.attn
        /\ z.reports = IF told THEN Append(s.reports, [user |-> x.user, result |-> c.result])
                               ELSE s.reports
    BY DEF Look, add_attn
  <1>10. told <=> c.op.gen >= x.gen /\ find(tree, d, x)
    BY DEF Reported
  <1>11. errors = 0 => c.result # "ERROR"
    BY <1>1 DEF PortTypes, c
  <1>12. x.sock[1] \in Fd /\ x.gen \in Nat /\ x.user \in Fd \X Nat
    BY <1>7 DEF Datum
  <1> HIDE DEF x, y, z, told, d
  <1>13. \A f \in Fd : tree[f] = d =>
            /\ x.sock = data[d].sock /\ x.user = data[d].user /\ data[d].sock = <<f, uses[f]>>
            /\ x.registered = data[d].registered \/ x.registered = data[d].registered \ {"OUT"}
            /\ find(tree, d, x)
    <2> SUFFICES ASSUME NEW f \in Fd, tree[f] = d
                 PROVE  /\ x.sock = data[d].sock /\ x.user = data[d].user
                        /\ data[d].sock = <<f, uses[f]>>
                        /\ \/ x.registered = data[d].registered
                           \/ x.registered = data[d].registered \ {"OUT"}
                        /\ find(tree, d, x)
      OBVIOUS
    <2>1. /\ x.sock = data[d].sock /\ x.user = data[d].user
          /\ \/ x.registered = data[d].registered
             \/ x.registered = data[d].registered \ {"OUT"}
      BY <1>3 DEF BatchOK, x
    <2>2. data[d].sock = <<f, uses[f]>>
      BY <1>3 DEF TreeOK
    <2>3. x.sock[1] = f
      BY <2>1, <2>2
    <2> QED BY <2>1, <2>2, <2>3 DEF find
  <1>14. find(tree, d, x) => d \in Registered
    BY <1>3, <1>12 DEF find, Registered
  <1>a. z.data \in [Data -> Datum \cup {Free}]
    BY <1>5, <1>8, <1>9
  <1>b. z.attn \subseteq Registered
    <2>1. s.attn \subseteq Registered
      BY DEF BatchOK
    <2> QED BY <1>9, <1>10, <1>14, <2>1
  <1>c. /\ z.reports \in Seq(Report) /\ Len(z.reports) <= n
        /\ \A k \in DOMAIN z.reports :
              \E f \in Fd : tree[f] # 0 /\ z.reports[k].user = data[tree[f]].user
    <2>1. /\ s.reports \in Seq(Report) /\ Len(s.reports) <= n - 1
          /\ \A k \in DOMAIN s.reports :
                \E f \in Fd : tree[f] # 0 /\ s.reports[k].user = data[tree[f]].user
      BY DEF BatchOK
    <2>2. CASE ~told
      <3>1. z.reports = s.reports /\ Len(s.reports) \in Nat
        BY <1>9, <2>1, <2>2
      <3> QED BY <2>1, <3>1
    <2>3. CASE told
      <3> DEFINE r == [user |-> x.user, result |-> c.result]
                 t == Append(s.reports, r)
                 m == Len(s.reports)
      <3>1. r \in Report /\ r.user = x.user
        BY <1>2, <1>12 DEF Report, Completion
      <3> HIDE DEF r
      <3>2. /\ t \in Seq(Report) /\ Len(t) = m + 1 /\ t[m + 1] = r
            /\ \A k \in 1 .. m : t[k] = s.reports[k]
            /\ m \in Nat /\ DOMAIN s.reports = 1 .. m /\ DOMAIN t = 1 .. m + 1
        BY <2>1, <3>1
      <3> HIDE DEF t, m
      <3>3. z.reports = t /\ m <= n - 1
        BY <1>9, <2>1, <2>3 DEF t, r, m
      <3>4. \E f \in Fd : tree[f] # 0 /\ r.user = data[tree[f]].user
        <4>1. x.sock[1] \in Fd /\ tree[x.sock[1]] = d
          BY <1>10, <1>12, <2>3 DEF find
        <4> QED BY <1>3, <1>13, <3>1, <4>1
      <3>5. ASSUME NEW k \in 1 .. m + 1
            PROVE  \E f \in Fd : tree[f] # 0 /\ t[k].user = data[tree[f]].user
        <4>1. k \in 1 .. m \/ k = m + 1
          BY <3>2
        <4> QED BY <2>1, <3>2, <3>4, <4>1
      <3>6. m + 1 <= n
        BY <3>2, <3>3
      <3> QED BY <3>2, <3>3, <3>5, <3>6
    <2> QED BY <2>2, <2>3
  <1>d. \A e \in Data : Counts(z.data[e], Len(ops[e]) + Cardinality(A(e)))
    <2> SUFFICES ASSUME NEW e \in Data
                 PROVE  Counts(z.data[e], Len(ops[e]) + Cardinality(A(e)))
      OBVIOUS
    <2>1. CASE e # d
      <3>1. z.data[e] = s.data[e] /\ Cardinality(B(e)) = Cardinality(A(e)) + 0
        BY <1>4, <1>5, <1>9, <2>1
      <3>2. Cardinality(B(e)) = Cardinality(A(e))
        BY <1>4, <3>1
      <3> QED BY <1>5, <3>1, <3>2
    <2>2. CASE e = d
      <3>1. z.data[d] = y /\ y \in Datum \cup {Free}
        BY <1>2, <1>5, <1>8, <1>9
      <3>2. IF y = Free THEN x.opCount = 1
            ELSE y.opCount >= x.opCount - 1 /\ (errors = 0 => y.opCount = x.opCount - 1)
        BY <1>8, <1>11
      <3> QED BY <1>2, <1>4, <1>6, <1>7, <2>2, <3>1, <3>2, OneLess
    <2> QED BY <2>1, <2>2
  <1>e. ASSUME NEW f \in Fd, tree[f] # 0
        PROVE  LET v == data[tree[f]]
                   w == z.data[tree[f]]
               IN  /\ w # Free /\ w.sock = v.sock /\ w.user = v.user
                   /\ w.registered = v.registered \/ w.registered = v.registered \ {"OUT"}
                   /\ errors = 0 =>
                        Awaits(w, tree[f] \in z.attn,
                               InKernel(ops[tree[f]]) \cup OpsAt(completed, A(tree[f])))
    <2> DEFINE e == tree[f]
    <2>1. e \in Data
      BY <1>e DEF PortTypes, PortTypeOK
    <2>2. /\ s.data[e] # Free /\ s.data[e].sock = data[e].sock /\ s.data[e].user = data[e].user
          /\ \/ s.data[e].registered = data[e].registered
             \/ s.data[e].registered = data[e].registered \ {"OUT"}
          /\ errors = 0 => Awaits(s.data[e], e \in s.attn,
                                  InKernel(ops[e]) \cup OpsAt(completed, B(e)))
      BY <1>e DEF BatchOK, B
    <2> HIDE DEF e
    <2>3. CASE e # d
      <3>1. z.data[e] = s.data[e] /\ OpsAt(completed, B(e)) = OpsAt(completed, A(e))
        BY <1>4, <1>5, <1>9, <2>1, <2>3
      <3>2. e \in s.attn => e \in z.attn
        BY <1>9
      <3>3. errors = 0 => Awaits(z.data[e], e \in z.attn,
                                 InKernel(ops[e]) \cup OpsAt(completed, A(e)))
        BY <2>2, <3>1, <3>2 DEF Awaits
      <3> QED BY <2>2, <3>1, <3>3 DEF e
    <2>4. CASE e = d
      <3>1. find(tree, d, x)
        BY <1>13, <2>4 DEF e
      <3>2. z.data[e] = y /\ y # Free
        BY <1>2, <1>5, <1>8, <1>9, <2>4, <3>1
      <3>3. /\ y.sock = data[e].sock /\ y.user = data[e].user
            /\ y.registered = data[e].registered \/ y.registered = data[e].registered \ {"OUT"}
        BY <1>8, <1>13, <2>4, <3>2 DEF e
      <3>4. ASSUME errors = 0
            PROVE  Awaits(y, e \in z.attn, InKernel(ops[e]) \cup OpsAt(completed, A(e)))
        <4>1. CASE c.op.gen < x.gen
          <5>1. x.gen # 0 /\ ~(c.op.gen >= x.gen) /\ y.gen = x.gen
            BY <1>2, <1>8, <1>12, <3>2, <4>1
          <5>2. \E o \in InKernel(ops[e]) \cup OpsAt(completed, B(e)) : o.gen >= x.gen
            BY <2>2, <2>4, <3>4, <5>1 DEF Awaits, x
          <5>3. \E o \in InKernel(ops[e]) \cup OpsAt(completed, A(e)) : o.gen >= x.gen
            BY <1>4, <2>1, <2>4, <5>1, <5>2
          <5> QED BY <5>1, <5>3 DEF Awaits
        <4>2. CASE ~(c.op.gen < x.gen)
          <5>1. y.gen = 0 /\ told /\ c.result # "ERROR"
            BY <1>2, <1>8, <1>10, <1>11, <1>12, <3>1, <3>2, <3>4, <4>2
          <5>2. e \in z.attn
            BY <1>9, <2>4, <5>1
          <5> QED BY <5>1, <5>2 DEF Awaits
        <4> QED BY <4>1, <4>2
      <3> QED BY <3>2, <3>3, <3>4 DEF e
    <2> QED BY <2>3, <2>4
  <1> QED BY <1>a, <1>b, <1>c, <1>d, <1>e DEF BatchOK, A, z, c

(* So it holds of every part of the batch, by the least part of which it   *)
(* would not.                                                              *)
LEMMA BatchKept ==
    ASSUME PortInv, port = "open", NEW n \in 0 .. Len(completed)
    PROVE  BatchOK(n, AfterBatch(n))
  <1>0. PortTypes /\ Counted /\ TreeOK /\ Heard /\ completed \in Seq(Completion)
    BY DEF PortInv, PortTypes
  <1>1. BatchOK(0, Looked[0])
    <2> DEFINE s == First(FALSE)
    <2>1. s.data = data /\ s.attn = attn /\ s.reports = <<>>
      BY DEF First
    <2> HIDE DEF s
    <2>2. Looked[0] = s
      BY <1>0, BatchSteps DEF s
    <2>3. \A d \in Data : After(completed, 0, d) = OfData(completed, d)
      BY <1>0, AfterNext
    <2>4. \A d \in Data : Counts(s.data[d], Len(ops[d]) + Cardinality(After(completed, 0, d)))
      BY <1>0, <2>1, <2>3 DEF Counted, OpsOf, OfData
    <2>5. /\ s.data \in [Data -> Datum \cup {Free}] /\ s.attn \subseteq Registered
          /\ s.reports \in Seq(Report) /\ Len(s.reports) <= 0 /\ DOMAIN s.reports = {}
      BY <1>0, <2>1 DEF PortTypes, TreeOK
    <2>6. ASSUME NEW f \in Fd, tree[f] # 0
          PROVE  /\ data[tree[f]] # Free
                 /\ errors = 0 =>
                      Awaits(data[tree[f]], tree[f] \in attn,
                             InKernel(ops[tree[f]])
                               \cup OpsAt(completed, After(completed, 0, tree[f])))
      <3>1. tree[f] \in Data /\ tree[f] \in Registered
        BY <1>0, <2>6 DEF PortTypes, PortTypeOK, Registered
      <3>2. data[tree[f]] # Free
        BY <1>0, <3>1 DEF TreeOK, Alive
      <3> QED BY <1>0, <2>3, <2>6, <3>1, <3>2 DEF Heard, Outstanding
    <2> QED BY <2>1, <2>2, <2>4, <2>5, <2>6 DEF BatchOK
  <1>2. \A i \in 1 .. Len(completed) :
            BatchOK(i - 1, Looked[i - 1]) => BatchOK(i, Looked[i])
    BY <1>0, BatchSteps, LookKeeps
  <1> DEFINE Bad == {i \in 0 .. Len(completed) : ~BatchOK(i, Looked[i])}
  <1>3. Bad = {}
    <2> SUFFICES ASSUME Bad # {} PROVE FALSE
      OBVIOUS
    <2>1. Bad \subseteq Nat
      OBVIOUS
    <2>2. PICK i \in Bad : \A j \in Bad : ~(j < i)
      BY <2>1, LeastElement
    <2>3. i \in 0 .. Len(completed) /\ ~BatchOK(i, Looked[i]) /\ Len(completed) \in Nat
      BY <1>0
    <2>4. i # 0
      BY <1>1, <2>3
    <2>5. i \in 1 .. Len(completed) /\ i - 1 \in 0 .. Len(completed) /\ i - 1 < i
      BY <2>3, <2>4
    <2>6. i - 1 \notin Bad
      BY <2>2, <2>5
    <2>7. BatchOK(i - 1, Looked[i - 1])
      BY <2>5, <2>6
    <2> QED BY <1>2, <2>3, <2>5, <2>7
  <1> QED BY <1>3 DEF AfterBatch

----------------------------------------------------------------------------
(* What keeps the invariant of the port.                                   *)

(* A step that leaves the data and the operations alone.                   *)
LEMMA PortSame ==
    ASSUME PortInv, UNCHANGED <<uses, tree, data, attn, ops, completed, errors>>,
           port' \in {"none", "null", "open", "closing", "closed", "left"},
           peer' \in {"none", "open", "invalid"}, readable' \subseteq Fd,
           port' = "open" => TreeOK /\ Heard
    PROVE  PortInv'
  <1>1. PortTypes'
    BY DEF PortInv, PortTypes, PortTypeOK
  <1>2. Counted'
    BY DEF PortInv, Counted, Counts, OpsOf
  <1>3. port' = "open" => TreeOK' /\ Heard'
    BY DEF TreeOK, Heard, Registered, Alive, Outstanding
  <1> QED BY <1>1, <1>2, <1>3 DEF PortInv

(* How many operations there are of each data.                             *)
LEMMA OpsNumbered ==
    ASSUME PortTypes, NEW d \in Data
    PROVE  /\ ops[d] \in Seq(Op) /\ Len(ops[d]) \in Nat
           /\ Cardinality(OfData(completed, d)) \in Nat
           /\ OpsOf(d) = Len(ops[d]) + Cardinality(OfData(completed, d))
           /\ OpsOf(d) \in Nat
  <1>1. ops[d] \in Seq(Op) /\ completed \in Seq(Completion)
    BY DEF PortTypes
  <1>2. Len(ops[d]) \in Nat
    BY <1>1
  <1>3. Cardinality(OfData(completed, d)) \in Nat
    BY <1>1, PlacesFinite
  <1>4. OpsOf(d) = Len(ops[d]) + Cardinality(OfData(completed, d))
    BY DEF OpsOf, OfData
  <1> QED BY <1>1, <1>2, <1>3, <1>4

(* Where nothing is, no operation is outstanding.                          *)
LEMMA NoneOutstanding ==
    ASSUME PortTypes, Counted, NEW d \in Data, data[d] = Free
    PROVE  ops[d] = <<>> /\ OpsOf(d) = 0
  <1>1. OpsOf(d) = 0
    BY DEF Counted, Counts
  <1>2. Len(ops[d]) = 0
    BY <1>1, OpsNumbered
  <1>3. ops[d] = <<>>
    BY <1>2, OpsNumbered
  <1> QED BY <1>1, <1>3

(* A call that succeeds or fails.                                          *)
LEMMA Returned ==
    ASSUME errors \in Nat, NEW r \in {0, -1}, Returns(r)
    PROVE  /\ errors' \in Nat /\ (errors' = 0 <=> errors = 0 /\ r = 0)
           /\ r = 0 => errors' = errors
  BY DEF Returns

(* What submit() of data x at d does, which returns r: nothing else        *)
(* changes, and an operation that has begun is not superseded.             *)
SubmitIs(d, x, r) ==
    /\ data' \in [Data -> Datum \cup {Free}]
    /\ ops' \in [Data -> Seq(Op)]
    /\ \A e \in Data : \A i \in DOMAIN ops'[e] : ops'[e][i].data = e
    /\ errors' \in Nat
    /\ errors' = 0 => \A i \in DOMAIN completed' : completed'[i].result # "ERROR"
    /\ Counted'
    /\ \A e \in Data : e # d => data'[e] = data[e] /\ ops'[e] = ops[e]
    /\ data'[d] # Free /\ data'[d].sock = x.sock /\ data'[d].user = x.user
    /\ data'[d].registered = x.registered
    /\ \A o \in InKernel(ops'[d]) : o \in InKernel(ops[d]) \/ o.events = x.registered
    /\ r = 0 => \E o \in Outstanding(d, ops'[d], completed') : o.gen >= data'[d].gen

(* It is what submit() does, and counts stay right.                        *)
LEMMA SubmitKeeps ==
    ASSUME PortTypes, Counted, NEW d \in Data, NEW x \in Datum, Counts(x, OpsOf(d)),
           NEW r \in {0, -1}, Submit(d, x, r), Returns(r), UNCHANGED completed
    PROVE  SubmitIs(d, x, r)
  <1> DEFINE n == OpsOf(d)
  <1>0. /\ data \in [Data -> Datum \cup {Free}] /\ ops \in [Data -> Seq(Op)]
        /\ \A e \in Data : \A i \in DOMAIN ops[e] : ops[e][i].data = e
        /\ completed \in Seq(Completion) /\ errors \in Nat
        /\ errors = 0 => \A i \in DOMAIN completed : completed[i].result # "ERROR"
    BY DEF PortTypes
  <1>1. errors' \in Nat /\ (errors' = 0 <=> errors = 0 /\ r = 0)
    BY <1>0, Returned
  <1>2. x # Free /\ x.opCount \in Nat /\ x.gen \in Nat
    BY FreeIsNone DEF Datum
  <1>3. n \in Nat /\ x.opCount >= n /\ (errors = 0 => x.opCount = n)
    BY <1>2, OpsNumbered DEF Counts
  <1> HIDE DEF n
  <1>4. ASSUME NEW e \in Data, e # d
        PROVE  /\ data'[e] = data[e] /\ ops'[e] = ops[e] /\ Counts(data[e], OpsOf(e))'
    <2>1. data'[e] = data[e] /\ ops'[e] = ops[e]
      BY <1>0, <1>4 DEF Submit
    <2>2. OpsOf(e)' = OpsOf(e)
      BY <2>1 DEF OpsOf
    <2>3. Counts(data[e], OpsOf(e))
      BY DEF Counted
    <2> QED BY <1>1, <2>1, <2>2, <2>3 DEF Counts
  <1>5. CASE r = 0
    <2> DEFINE o == NewOp(d, x)
               y == Submitted(x)
               t == Append(ops[d], o)
    <2>1. /\ y \in Datum /\ y # Free /\ y.sock = x.sock /\ y.user = x.user
          /\ y.registered = x.registered /\ y.gen = x.gen + 1 /\ y.opCount = x.opCount + 1
          /\ o \in Op /\ o.data = d /\ o.gen = x.gen + 1 /\ o.events = x.registered
      BY Submits
    <2>2. data' = [data EXCEPT ![d] = y] /\ ops' = [ops EXCEPT ![d] = t]
      BY <1>5 DEF Submit
    <2> HIDE DEF o, y
    <2>3. t \in Seq(Op) /\ Len(t) = Len(ops[d]) + 1 /\ InKernel(t) = InKernel(ops[d]) \cup {o}
      BY <1>0, <2>1, Begun
    <2>4. \A i \in DOMAIN t : t[i].data = d
      <3>1. \A i \in DOMAIN t : t[i] \in InKernel(t)
        BY DEF InKernel
      <3>2. \A p \in InKernel(ops[d]) : p.data = d
        BY <1>0 DEF InKernel
      <3> QED BY <2>1, <2>3, <3>1, <3>2
    <2> HIDE DEF t
    <2>5. data'[d] = y /\ ops'[d] = t
      BY <1>0, <2>2
    <2>6. data' \in [Data -> Datum \cup {Free}] /\ ops' \in [Data -> Seq(Op)]
      BY <1>0, <2>1, <2>2, <2>3
    <2>7. OpsOf(d)' = n + 1
      <3>1. OpsOf(d)' = Len(t) + Cardinality(OfData(completed, d))
        BY <2>5 DEF OpsOf, OfData
      <3>2. /\ n = Len(ops[d]) + Cardinality(OfData(completed, d))
            /\ Len(ops[d]) \in Nat /\ Cardinality(OfData(completed, d)) \in Nat
        BY OpsNumbered DEF n
      <3> QED BY <2>3, <3>1, <3>2
    <2>8. Counts(data[d], OpsOf(d))'
      BY <1>1, <1>2, <1>3, <2>1, <2>5, <2>7 DEF Counts
    <2>9. Counted'
      BY <1>4, <2>8 DEF Counted
    <2>10. \E p \in Outstanding(d, ops'[d], completed') : p.gen >= data'[d].gen
      <3>1. o \in Outstanding(d, ops'[d], completed')
        BY <2>3, <2>5 DEF Outstanding
      <3>2. o.gen >= y.gen
        BY <1>2, <2>1
      <3> QED BY <2>5, <3>1, <3>2
    <2>11. \A e \in Data : \A i \in DOMAIN ops'[e] : ops'[e][i].data = e
      BY <1>0, <1>4, <2>4, <2>5
    <2>12. \A p \in InKernel(ops'[d]) : p \in InKernel(ops[d]) \/ p.events = x.registered
      BY <2>1, <2>3, <2>5
    <2> QED
      BY <1>0, <1>1, <1>4, <2>1, <2>5, <2>6, <2>9, <2>10, <2>11, <2>12 DEF SubmitIs
  <1>6. CASE r # 0
    <2>1. data' = [data EXCEPT ![d] = x] /\ ops' = ops
      BY <1>6 DEF Submit
    <2>2. data'[d] = x /\ data' \in [Data -> Datum \cup {Free}]
      BY <1>0, <2>1
    <2>3. OpsOf(d)' = n
      BY <2>1 DEF OpsOf, n
    <2>4. Counts(data[d], OpsOf(d))'
      BY <1>1, <1>2, <1>3, <1>6, <2>2, <2>3 DEF Counts
    <2>5. Counted'
      BY <1>4, <2>4 DEF Counted
    <2> QED BY <1>0, <1>1, <1>2, <1>4, <1>6, <2>1, <2>2, <2>5 DEF SubmitIs
  <1> QED BY <1>5, <1>6

(* EPOLL_CTL_ADD of a handle that is not in the tree.                      *)
LEMMA AddKeeps ==
    ASSUME PortInv, port = "open", NEW f \in Fd, NEW ev \in SUBSET Event,
           NEW ptr \in Fd \X Nat, NEW r \in {0, -1}, epoll_add(f, ev, ptr, r)
    PROVE  /\ PortInv'
           /\ errors' = 0 => errors = 0
           /\ r = 0 =>
                /\ tree'[f] # 0
                /\ data'[tree'[f]].user = ptr /\ data'[tree'[f]].registered = ev
                /\ \A o \in InKernel(ops'[tree'[f]]) : o.events = ev
                /\ \A g \in Fd : g # f /\ tree[g] # 0 =>
                      data'[tree[g]] = data[tree[g]] /\ ops'[tree[g]] = ops[tree[g]]
                /\ \A g \in Fd : g # f => tree'[g] = tree[g]
  <1>0. /\ PortTypes /\ PortTypeOK /\ Counted /\ TreeOK /\ Heard
        /\ errors \in Nat /\ data \in [Data -> Datum \cup {Free}]
    BY DEF PortInv, PortTypes
  <1>1. /\ tree[f] = 0 /\ peer' \in PeerSockets /\ Returns(r)
        /\ UNCHANGED <<port, uses, readable, attn, completed>>
    BY DEF epoll_add, sockets
  <1>2. errors' \in Nat /\ (errors' = 0 <=> errors = 0 /\ r = 0)
    BY <1>0, <1>1, Returned
  <1>3. peer' \in {"none", "open", "invalid"}
    BY <1>0, <1>1 DEF PeerSockets, create_peer_socket, PortTypeOK
  <1>4. CASE peer' = "invalid" /\ r = -1 /\ UNCHANGED <<tree, data, ops>>
    <2>1. errors' # 0
      BY <1>2, <1>4
    <2>2. PortTypes'
      BY <1>0, <1>1, <1>2, <1>3, <1>4, <2>1 DEF PortTypes, PortTypeOK
    <2>3. Counted'
      BY <1>0, <1>1, <1>4, <2>1 DEF Counted, Counts, OpsOf
    <2>4. TreeOK' /\ Heard'
      BY <1>0, <1>1, <1>4, <2>1 DEF TreeOK, Heard, Registered, Alive
    <2> QED BY <1>2, <1>4, <2>2, <2>3, <2>4 DEF PortInv
  <1>5. ASSUME NEW d \in Data \ Alive, tree' = [tree EXCEPT ![f] = d],
               Submit(d, [sock |-> <<f, uses[f]>>, registered |-> ev, gen |-> 0,
                          user |-> ptr, opCount |-> 0], r)
        PROVE  /\ PortInv'
               /\ tree'[f] # 0
               /\ data'[tree'[f]].user = ptr /\ data'[tree'[f]].registered = ev
               /\ \A o \in InKernel(ops'[tree'[f]]) : o.events = ev
               /\ \A g \in Fd : g # f /\ tree[g] # 0 =>
                     data'[tree[g]] = data[tree[g]] /\ ops'[tree[g]] = ops[tree[g]]
               /\ \A g \in Fd : g # f => tree'[g] = tree[g]
    <2> DEFINE x == [sock |-> <<f, uses[f]>>, registered |-> ev, gen |-> 0,
                     user |-> ptr, opCount |-> 0]
    <2>1. /\ x \in Datum /\ x.sock = <<f, uses[f]>> /\ x.registered = ev
          /\ x.user = ptr /\ x.opCount = 0
      <3>1. uses[f] \in Nat
        BY <1>0 DEF PortTypeOK
      <3> QED BY <3>1 DEF Datum
    <2>2. Submit(d, x, r)
      BY <1>5
    <2> HIDE DEF x
    <2>3. d \in Data /\ data[d] = Free /\ ops[d] = <<>> /\ OpsOf(d) = 0
      <3>1. d \in Data /\ data[d] = Free
        BY <1>5 DEF Alive
      <3> QED BY <1>0, <3>1, NoneOutstanding
    <2>4. Counts(x, OpsOf(d))
      BY <2>1, <2>3 DEF Counts
    <2>5. SubmitIs(d, x, r)
      BY <1>0, <1>1, <2>1, <2>2, <2>3, <2>4, SubmitKeeps
    <2> USE DEF SubmitIs
    <2>6. d # 0
      BY <2>3, PortAssumption
    <2>7. tree'[f] = d /\ \A g \in Fd : g # f => tree'[g] = tree[g]
      BY <1>0, <1>5 DEF PortTypeOK
    <2>8. \A g \in Fd : tree[g] # 0 => tree[g] \in Data /\ tree[g] # d /\ tree[g] \in Registered
      <3>1. \A g \in Fd : tree[g] # 0 => tree[g] \in Registered /\ tree[g] \in Alive
        BY <1>0 DEF TreeOK, Registered
      <3> QED BY <1>5, <3>1 DEF Alive
    <2>9. PortTypes'
      <3>1. PortTypeOK'
        BY <1>0, <1>1, <1>3, <1>5, <2>3 DEF PortTypeOK
      <3> QED BY <1>0, <1>1, <1>2, <2>5, <3>1 DEF PortTypes
    <2>10. TreeOK'
      <3>1. Registered' = Registered \cup {d}
        BY <1>1, <2>6, <2>7 DEF Registered
      <3>2. d \in Alive'
        BY <2>3, <2>5 DEF Alive
      <3>3. \A e \in Alive : e \in Alive'
        BY <2>3, <2>5 DEF Alive
      <3>4. ASSUME NEW g \in Fd, tree'[g] # 0 PROVE data'[tree'[g]].sock = <<g, uses'[g]>>
        <4>1. CASE g = f
          BY <1>1, <2>1, <2>5, <2>7, <4>1
        <4>2. CASE g # f
          BY <1>0, <1>1, <2>5, <2>7, <2>8, <3>4, <4>2 DEF TreeOK
        <4> QED BY <4>1, <4>2
      <3> QED BY <1>0, <1>1, <3>1, <3>2, <3>3, <3>4 DEF TreeOK
    <2>11. Heard'
      <3> SUFFICES ASSUME errors' = 0, NEW g \in Fd, tree'[g] # 0
                   PROVE  Awaits(data'[tree'[g]], tree'[g] \in attn',
                                 Outstanding(tree'[g], ops'[tree'[g]], completed'))
        BY DEF Heard
      <3>1. CASE g = f
        <4>1. r = 0
          BY <1>2
        <4> QED BY <2>5, <2>7, <3>1, <4>1 DEF Awaits
      <3>2. CASE g # f
        <4> DEFINE e == tree[g]
        <4>1. tree'[g] = e /\ e # 0 /\ e \in Data /\ e # d
          BY <2>7, <2>8, <3>2
        <4>2. Awaits(data[e], e \in attn, Outstanding(e, ops[e], completed))
          BY <1>0, <1>2, <4>1 DEF Heard
        <4> HIDE DEF e
        <4>3. data'[e] = data[e] /\ ops'[e] = ops[e]
          BY <2>5, <4>1
        <4> QED BY <1>1, <4>1, <4>2, <4>3
      <3> QED BY <3>1, <3>2
    <2>12. \A o \in InKernel(ops'[d]) : o.events = ev
      <3>1. InKernel(ops[d]) = {}
        BY <2>3 DEF InKernel
      <3> QED BY <2>1, <2>5, <3>1
    <2> QED BY <2>1, <2>5, <2>6, <2>7, <2>8, <2>9, <2>10, <2>11, <2>12 DEF PortInv
  <1>6. \/ peer' = "invalid" /\ r = -1 /\ UNCHANGED <<tree, data, ops>>
        \/ \E d \in Data \ Alive :
              /\ tree' = [tree EXCEPT ![f] = d]
              /\ Submit(d, [sock |-> <<f, uses[f]>>, registered |-> ev, gen |-> 0,
                            user |-> ptr, opCount |-> 0], r)
    BY DEF epoll_add
  <1> QED BY <1>2, <1>4, <1>5, <1>6

(* EPOLL_CTL_MOD.                                                          *)
LEMMA ModKeeps ==
    ASSUME PortInv, port = "open", NEW f \in Fd, NEW ev \in SUBSET Event,
           NEW ptr \in Fd \X Nat, NEW r \in {0, -1}, epoll_mod(f, ev, ptr, r)
    PROVE  /\ PortInv'
           /\ tree' = tree
           /\ errors' = 0 => errors = 0
           /\ data'[tree[f]].user = ptr /\ data'[tree[f]].registered = ev
           /\ \A o \in InKernel(ops'[tree[f]]) :
                 o \in InKernel(ops[tree[f]]) \/ o.events = ev
           /\ \A g \in Fd : g # f /\ tree[g] # 0 =>
                 data'[tree[g]] = data[tree[g]] /\ ops'[tree[g]] = ops[tree[g]]
  <1> DEFINE d == tree[f]
             x == [data[d] EXCEPT !.registered = ev, !.user = ptr]
  <1>0. /\ PortTypes /\ PortTypeOK /\ Counted /\ TreeOK /\ Heard
        /\ errors \in Nat /\ data \in [Data -> Datum \cup {Free}]
    BY DEF PortInv, PortTypes
  <1>1. /\ d # 0 /\ Returns(r) /\ Submit(d, x, r)
        /\ UNCHANGED <<port, peer, uses, readable, tree, attn, completed>>
    BY DEF epoll_mod, sockets
  <1>2. errors' \in Nat /\ (errors' = 0 <=> errors = 0 /\ r = 0)
    BY <1>0, <1>1, Returned
  <1>3. d \in Data /\ d \in Registered /\ data[d] # Free /\ data[d] \in Datum
    <2>1. d \in Registered
      BY <1>1 DEF Registered
    <2> QED BY <1>0, <2>1 DEF TreeOK, Alive
  <1> HIDE DEF d
  <1>4. /\ x \in Datum /\ x.sock = data[d].sock /\ x.registered = ev
        /\ x.user = ptr /\ x.opCount = data[d].opCount
    BY <1>3 DEF Datum
  <1>5. Counts(x, OpsOf(d))
    <2>1. Counts(data[d], OpsOf(d)) /\ x # Free
      BY <1>0, <1>3, <1>4, FreeIsNone DEF Counted
    <2> HIDE DEF x
    <2> QED BY <1>3, <1>4, <2>1 DEF Counts
  <1> HIDE DEF x
  <1>6. SubmitIs(d, x, r)
    BY <1>0, <1>1, <1>3, <1>4, <1>5, SubmitKeeps
  <1> USE DEF SubmitIs
  <1>7. PortTypes'
    <2>1. PortTypeOK'
      BY <1>0, <1>1 DEF PortTypeOK
    <2> QED BY <1>0, <1>1, <1>2, <1>6, <2>1 DEF PortTypes
  <1>8. \A g \in Fd : tree[g] # 0 => tree[g] \in Data /\ tree[g] \in Registered
    BY <1>0 DEF PortTypeOK, Registered
  <1>9. \A g \in Fd : g # f /\ tree[g] # 0 => tree[g] # d
    BY <1>0, <1>1 DEF TreeOK, d
  <1>10. TreeOK'
    <2>1. Registered' = Registered /\ attn' = attn
      BY <1>1 DEF Registered
    <2>2. \A e \in Alive : e \in Alive'
      BY <1>6 DEF Alive
    <2>3. \A g \in Fd : tree'[g] # 0 => data'[tree'[g]].sock = <<g, uses'[g]>>
      BY <1>0, <1>1, <1>4, <1>6, <1>8 DEF TreeOK
    <2> QED BY <1>0, <2>1, <2>2, <2>3 DEF TreeOK
  <1>11. Heard'
    <2> SUFFICES ASSUME errors' = 0, NEW g \in Fd, tree'[g] # 0
                 PROVE  Awaits(data'[tree'[g]], tree'[g] \in attn',
                                 Outstanding(tree'[g], ops'[tree'[g]], completed'))
      BY DEF Heard
    <2> DEFINE e == tree[g]
    <2>1. tree'[g] = e /\ e # 0 /\ e \in Data
      BY <1>1, <1>8
    <2>2. Awaits(data[e], e \in attn, Outstanding(e, ops[e], completed))
      BY <1>0, <1>2, <2>1 DEF Heard
    <2> HIDE DEF e
    <2>3. CASE e = d
      BY <1>2, <1>6, <2>1, <2>3 DEF Awaits
    <2>4. CASE e # d
      <3>1. data'[e] = data[e] /\ ops'[e] = ops[e]
        BY <1>6, <2>1, <2>4
      <3> QED BY <1>1, <2>1, <2>2, <3>1
    <2> QED BY <2>3, <2>4
  <1> QED
    BY <1>1, <1>2, <1>4, <1>6, <1>7, <1>8, <1>9, <1>10, <1>11 DEF PortInv, d

(* EPOLL_CTL_DEL.                                                          *)
LEMMA DelKeeps ==
    ASSUME PortInv, NEW f \in Fd, epoll_del(f)
    PROVE  /\ PortInv'
           /\ tree'[f] = 0 /\ \A g \in Fd : g # f => tree'[g] = tree[g]
  <1>0. PortTypes /\ PortTypeOK /\ Counted
    BY DEF PortInv, PortTypes
  <1>1. /\ tree[f] # 0 /\ tree' = [tree EXCEPT ![f] = 0] /\ attn' = attn \ {tree[f]}
        /\ UNCHANGED <<port, peer, uses, readable, data, ops, completed, errors>>
    BY DEF epoll_del, sockets
  <1>2. tree'[f] = 0 /\ \A g \in Fd : g # f => tree'[g] = tree[g]
    BY <1>0, <1>1 DEF PortTypeOK
  <1>3. PortTypes'
    <2>1. PortTypeOK'
      BY <1>0, <1>1 DEF PortTypeOK
    <2> QED BY <1>0, <1>1, <2>1 DEF PortTypes
  <1>4. Counted'
    BY <1>0, <1>1 DEF Counted, Counts, OpsOf
  <1>5. ASSUME port = "open" PROVE TreeOK' /\ Heard'
    <2>0. TreeOK /\ Heard
      BY <1>5 DEF PortInv
    <2>1. \A e \in Registered : e # tree[f] => e \in Registered'
      <3> SUFFICES ASSUME NEW g \in Fd, tree[g] # 0, tree[g] # tree[f]
                   PROVE  tree[g] \in Registered'
        BY DEF Registered
      <3>1. tree'[g] = tree[g]
        BY <1>2
      <3> QED BY <3>1 DEF Registered
    <2>2. Registered' \subseteq Registered /\ Alive' = Alive
      BY <1>1, <1>2 DEF Registered, Alive
    <2>3. \A g \in Fd : tree'[g] # 0 => g # f /\ tree'[g] = tree[g] /\ tree[g] # tree[f]
      BY <1>1, <1>2, <2>0 DEF TreeOK
    <2>4. TreeOK'
      <3>1. attn' \subseteq Registered'
        BY <1>1, <2>0, <2>1 DEF TreeOK
      <3>2. \A g \in Fd : tree'[g] # 0 => data'[tree'[g]].sock = <<g, uses'[g]>>
        BY <1>1, <2>0, <2>3 DEF TreeOK
      <3> QED BY <2>0, <2>2, <3>1, <3>2 DEF TreeOK
    <2>5. Heard'
      <3> SUFFICES ASSUME errors' = 0, NEW g \in Fd, tree'[g] # 0
                   PROVE  Awaits(data'[tree'[g]], tree'[g] \in attn',
                                 Outstanding(tree'[g], ops'[tree'[g]], completed'))
        BY DEF Heard
      <3> DEFINE e == tree[g]
      <3>1. tree'[g] = e /\ e # 0 /\ e # tree[f]
        BY <2>3
      <3>2. Awaits(data[e], e \in attn, Outstanding(e, ops[e], completed))
        BY <1>1, <2>0, <3>1 DEF Heard
      <3> HIDE DEF e
      <3>3. e \in attn' <=> e \in attn
        BY <1>1, <3>1
      <3> QED BY <1>1, <3>1, <3>2, <3>3
    <2> QED BY <2>4, <2>5
  <1> QED BY <1>1, <1>2, <1>3, <1>4, <1>5 DEF PortInv

(* Data that counts an operation has one that is outstanding.              *)
LEMMA SomeOutstanding ==
    ASSUME PortTypes, NEW d \in Data, OpsOf(d) # 0
    PROVE  \E o \in Outstanding(d, ops[d], completed) : o.gen >= 0
  <1>0. /\ ops[d] \in Seq(Op) /\ completed \in Seq(Completion)
        /\ Len(ops[d]) \in Nat /\ Cardinality(OfData(completed, d)) \in Nat
        /\ OpsOf(d) = Len(ops[d]) + Cardinality(OfData(completed, d))
    BY OpsNumbered DEF PortTypes
  <1>1. \A o \in Op : o.gen \in Nat /\ o.gen >= 0
    BY DEF Op
  <1>2. CASE Len(ops[d]) # 0
    <2>1. 1 \in DOMAIN ops[d] /\ ops[d][1] \in Op
      BY <1>0, <1>2
    <2>2. ops[d][1] \in Outstanding(d, ops[d], completed)
      BY <2>1 DEF Outstanding, InKernel
    <2> QED BY <1>1, <2>1, <2>2
  <1>3. CASE Len(ops[d]) = 0
    <2>1. Cardinality(OfData(completed, d)) # 0
      BY <1>0, <1>3
    <2>2. OfData(completed, d) # {}
      BY <2>1, FS_EmptySet
    <2>3. PICK i \in DOMAIN completed : i \in OfData(completed, d)
      BY <2>2 DEF OfData
    <2>4. completed[i] \in Completion
      BY <1>0
    <2>5. completed[i].op \in Op
      BY <2>4 DEF Completion
    <2>6. completed[i].op \in Outstanding(d, ops[d], completed)
      BY <2>3 DEF Outstanding, OpsAt
    <2> QED BY <1>1, <2>5, <2>6
  <1> QED BY <1>2, <1>3

(* port submit(): whatever is on the attention list with no operation has  *)
(* one then, unless it fails, and the list is empty.                       *)
LEMMA PortSubmitKeeps ==
    ASSUME PortInv, port = "open", submit
    PROVE  /\ PortInv' /\ attn' = {} /\ tree' = tree /\ port' = port
           /\ errors' = 0 => errors = 0
           /\ \A g \in Fd : tree[g] # 0 =>
                /\ data'[tree[g]].user = data[tree[g]].user
                /\ data'[tree[g]].registered = data[tree[g]].registered
                /\ \A o \in InKernel(ops'[tree[g]]) :
                      \/ o \in InKernel(ops[tree[g]])
                      \/ o.events = data[tree[g]].registered
  <1> DEFINE none == {d \in attn : data[d].opCount = 0}
  <1>0. /\ PortTypes /\ PortTypeOK /\ Counted /\ TreeOK /\ Heard
        /\ errors \in Nat /\ data \in [Data -> Datum \cup {Free}]
        /\ ops \in [Data -> Seq(Op)] /\ attn \subseteq Data
        /\ \A d \in Data : \A i \in DOMAIN ops[d] : ops[d][i].data = d
    BY DEF PortInv, PortTypes, PortTypeOK
  <1>1. PICK begun \in SUBSET none :
            /\ errors' = errors + Cardinality(none \ begun)
            /\ data' = [d \in Data |-> IF d \in begun THEN Submitted(data[d]) ELSE data[d]]
            /\ ops' = [d \in Data |-> IF d \in begun THEN Append(ops[d], NewOp(d, data[d]))
                                                 ELSE ops[d]]
            /\ attn' = {}
            /\ UNCHANGED <<port, peer, uses, readable, tree, completed>>
    BY DEF submit, sockets
  <1>2. errors' \in Nat /\ (errors' = 0 => errors = 0 /\ begun = none)
    <2>1. IsFiniteSet(none \ begun)
      BY <1>0, PortAssumption, FS_Subset
    <2> DEFINE k == Cardinality(none \ begun)
    <2>2. k \in Nat
      BY <2>1, FS_CardinalityType
    <2>3. k = 0 => none \ begun = {}
      BY <2>1, FS_EmptySet
    <2>4. errors' = errors + k
      BY <1>1
    <2> HIDE DEF k, none
    <2>5. errors' \in Nat /\ (errors' = 0 => errors = 0 /\ k = 0)
      BY <1>0, <2>2, <2>4
    <2> QED BY <1>1, <2>3, <2>5
  <1>3. \A d \in begun : d \in Data /\ d \in attn /\ data[d] # Free /\ data[d] \in Datum
    BY <1>0 DEF TreeOK, Alive
  <1>4. \A d \in attn : d \notin none => data[d].opCount # 0
    OBVIOUS
  <1> HIDE DEF none
  <1>5. ASSUME NEW d \in begun
        PROVE  LET x == data[d]
                   y == data'[d]
               IN  /\ y \in Datum /\ y # Free
                   /\ y.sock = x.sock /\ y.user = x.user /\ y.registered = x.registered
                   /\ y.opCount = x.opCount + 1
                   /\ ops'[d] \in Seq(Op) /\ Len(ops'[d]) = Len(ops[d]) + 1
                   /\ \E o \in Op : /\ InKernel(ops'[d]) = InKernel(ops[d]) \cup {o}
                                    /\ o.gen = y.gen /\ o.data = d
                                    /\ o.events = x.registered
    <2>1. d \in Data /\ data[d] \in Datum /\ ops[d] \in Seq(Op)
      BY <1>0, <1>3
    <2>2. data'[d] = Submitted(data[d]) /\ ops'[d] = Append(ops[d], NewOp(d, data[d]))
      BY <1>1, <2>1
    <2> DEFINE o == NewOp(d, data[d])
    <2>3. /\ Submitted(data[d]) \in Datum /\ Submitted(data[d]) # Free
          /\ Submitted(data[d]).sock = data[d].sock /\ Submitted(data[d]).user = data[d].user
          /\ Submitted(data[d]).registered = data[d].registered
          /\ Submitted(data[d]).gen = data[d].gen + 1
          /\ Submitted(data[d]).opCount = data[d].opCount + 1
          /\ o \in Op /\ o.data = d /\ o.gen = data[d].gen + 1
          /\ o.events = data[d].registered
      BY <2>1, Submits
    <2> HIDE DEF o
    <2>4. /\ Append(ops[d], o) \in Seq(Op) /\ Len(Append(ops[d], o)) = Len(ops[d]) + 1
          /\ InKernel(Append(ops[d], o)) = InKernel(ops[d]) \cup {o}
      BY <2>1, <2>3, Begun
    <2>5. ops'[d] = Append(ops[d], o)
      BY <2>2 DEF o
    <2> QED BY <2>2, <2>3, <2>4, <2>5
  <1>6. \A d \in Data : d \notin begun => data'[d] = data[d] /\ ops'[d] = ops[d]
    BY <1>1
  <1>7. data' \in [Data -> Datum \cup {Free}] /\ ops' \in [Data -> Seq(Op)]
    <2>1. \A d \in Data : data'[d] \in Datum \cup {Free} /\ ops'[d] \in Seq(Op)
      BY <1>0, <1>5, <1>6
    <2> QED BY <1>1, <2>1
  <1>8. PortTypes'
    <2>1. \A d \in Data : \A i \in DOMAIN ops'[d] : ops'[d][i].data = d
      <3> SUFFICES ASSUME NEW d \in Data, NEW i \in DOMAIN ops'[d]
                   PROVE  ops'[d][i].data = d
        OBVIOUS
      <3>1. ops'[d][i] \in InKernel(ops'[d])
        BY DEF InKernel
      <3>2. \A o \in InKernel(ops[d]) : o.data = d
        BY <1>0 DEF InKernel
      <3>3. CASE d \in begun
        <4>1. PICK o \in Op : InKernel(ops'[d]) = InKernel(ops[d]) \cup {o} /\ o.data = d
          BY <1>5, <3>3
        <4> QED BY <3>1, <3>2, <4>1
      <3>4. CASE d \notin begun
        BY <1>6, <3>1, <3>2, <3>4
      <3> QED BY <3>3, <3>4
    <2>2. PortTypeOK'
      BY <1>0, <1>1 DEF PortTypeOK
    <2> QED BY <1>0, <1>1, <1>2, <1>7, <2>1, <2>2 DEF PortTypes
  <1>9. Counted'
    <2> SUFFICES ASSUME NEW d \in Data PROVE Counts(data[d], OpsOf(d))'
      BY DEF Counted
    <2> DEFINE n == OpsOf(d)
    <2>1. n \in Nat /\ n = Len(ops[d]) + Cardinality(OfData(completed, d))
          /\ Len(ops[d]) \in Nat /\ Cardinality(OfData(completed, d)) \in Nat
      BY <1>0, OpsNumbered
    <2>2. OpsOf(d)' = Len(ops'[d]) + Cardinality(OfData(completed, d))
      BY <1>1 DEF OpsOf, OfData
    <2>3. Counts(data[d], n)
      BY <1>0 DEF Counted
    <2> HIDE DEF n
    <2>4. CASE d \in begun
      <3>1. OpsOf(d)' = n + 1
        BY <1>5, <2>1, <2>2, <2>4
      <3>2. /\ data[d].opCount \in Nat /\ data[d].opCount >= n
            /\ errors = 0 => data[d].opCount = n
        BY <1>3, <2>3, <2>4 DEF Counts, Datum
      <3>3. data'[d] # Free /\ data'[d].opCount = data[d].opCount + 1
        BY <1>5, <2>4
      <3>4. data'[d].opCount >= n + 1
        BY <2>1, <3>2, <3>3
      <3>5. errors' = 0 => data'[d].opCount = n + 1
        BY <1>2, <3>2, <3>3
      <3> QED BY <3>1, <3>3, <3>4, <3>5 DEF Counts
    <2>5. CASE d \notin begun
      <3>1. OpsOf(d)' = n /\ data'[d] = data[d]
        BY <1>6, <2>1, <2>2, <2>5
      <3> QED BY <1>2, <2>3, <3>1 DEF Counts
    <2> QED BY <2>4, <2>5
  <1>10. \A g \in Fd : tree[g] # 0 =>
            /\ tree[g] \in Data /\ data[tree[g]] # Free
            /\ data'[tree[g]] # Free /\ data'[tree[g]].sock = data[tree[g]].sock
            /\ data'[tree[g]].user = data[tree[g]].user
            /\ data'[tree[g]].registered = data[tree[g]].registered
    <2>1. \A g \in Fd : tree[g] # 0 =>
            tree[g] \in Data /\ tree[g] \in Registered /\ data[tree[g]] # Free
      BY <1>0 DEF PortTypeOK, TreeOK, Registered, Alive
    <2> QED BY <1>5, <1>6, <2>1
  <1>11. TreeOK'
    <2>1. Registered' = Registered /\ attn' = {}
      BY <1>1 DEF Registered
    <2>2. \A d \in Alive : d \in Alive'
      BY <1>5, <1>6 DEF Alive
    <2>3. \A g \in Fd : tree'[g] # 0 => data'[tree'[g]].sock = <<g, uses'[g]>>
      BY <1>0, <1>1, <1>10 DEF TreeOK
    <2> QED BY <1>0, <2>1, <2>2, <2>3 DEF TreeOK
  <1>12. Heard'
    <2> SUFFICES ASSUME errors' = 0, NEW g \in Fd, tree'[g] # 0
                 PROVE  Awaits(data'[tree'[g]], tree'[g] \in attn',
                               Outstanding(tree'[g], ops'[tree'[g]], completed'))
      BY DEF Heard
    <2> DEFINE e == tree[g]
    <2>1. /\ tree'[g] = e /\ e # 0 /\ e \in Data /\ completed' = completed
          /\ data[e] # Free
      BY <1>1, <1>10
    <2>2. Awaits(data[e], e \in attn, Outstanding(e, ops[e], completed))
      BY <1>0, <1>2, <2>1 DEF Heard
    <2> HIDE DEF e
    <2>3. CASE e \in begun
      <3>1. PICK o \in Op : /\ InKernel(ops'[e]) = InKernel(ops[e]) \cup {o}
                            /\ o.gen = data'[e].gen
        BY <1>5, <2>3
      <3>2. o \in Outstanding(e, ops'[e], completed') /\ o.gen >= data'[e].gen
        <4>1. o.gen \in Nat
          BY DEF Op
        <4> QED BY <3>1, <4>1 DEF Outstanding
      <3> QED BY <2>1, <3>2 DEF Awaits
    <2>4. CASE e \notin begun
      <3>1. data'[e] = data[e] /\ ops'[e] = ops[e]
        BY <1>6, <2>1, <2>4
      <3>2. CASE e \in attn /\ data[e].gen = 0
        <4>1. data[e].opCount # 0
          BY <1>2, <1>4, <2>4, <3>2
        <4>2. OpsOf(e) # 0
          BY <1>0, <1>2, <2>1, <4>1 DEF Counted, Counts
        <4>3. \E o \in Outstanding(e, ops[e], completed) : o.gen >= 0
          BY <1>0, <2>1, <4>2, SomeOutstanding
        <4> QED BY <2>1, <3>1, <3>2, <4>3 DEF Awaits
      <3>3. CASE ~(e \in attn /\ data[e].gen = 0)
        BY <2>1, <2>2, <3>1, <3>3 DEF Awaits
      <3> QED BY <3>2, <3>3
    <2> QED BY <2>3, <2>4
  <1>13. \A g \in Fd : tree[g] # 0 => \A o \in InKernel(ops'[tree[g]]) :
            o \in InKernel(ops[tree[g]]) \/ o.events = data[tree[g]].registered
    BY <1>5, <1>6, <1>10
  <1> QED BY <1>1, <1>2, <1>8, <1>9, <1>10, <1>11, <1>12, <1>13 DEF PortInv

(* An operation completes: it is outstanding as before.                    *)
LEMMA CompleteKeeps ==
    ASSUME PortInv, NEW d \in Data, NEW i \in DOMAIN ops[d], NEW result \in Results,
           Complete(d, i, result), errors' \in Nat, errors' = 0 => errors = 0,
           errors' = 0 => result # "ERROR"
    PROVE  /\ PortInv' /\ UNCHANGED <<port, tree, data, attn>>
           /\ \A e \in Data : InKernel(ops'[e]) \subseteq InKernel(ops[e])
  <1> DEFINE s == ops[d]
             t == RemoveAt(s, i)
             c == [op |-> s[i], result |-> result]
  <1>0. /\ PortTypes /\ PortTypeOK /\ Counted
        /\ ops \in [Data -> Seq(Op)] /\ completed \in Seq(Completion)
        /\ \A e \in Data : \A j \in DOMAIN ops[e] : ops[e][j].data = e
        /\ errors = 0 => \A j \in DOMAIN completed : completed[j].result # "ERROR"
    BY DEF PortInv, PortTypes
  <1>1. /\ ops' = [ops EXCEPT ![d] = t] /\ completed' = Append(completed, c)
        /\ UNCHANGED <<port, peer, uses, readable, tree, data, attn>>
    BY DEF Complete, sockets
  <1>2. s \in Seq(Op) /\ s[i] \in Op /\ s[i].data = d
    BY <1>0
  <1>3. c \in Completion /\ c.op = s[i] /\ c.result = result
    BY <1>2 DEF Completion
  <1>4. /\ t \in Seq(Op) /\ Len(t) = Len(s) - 1 /\ InKernel(s) = InKernel(t) \cup {s[i]}
    <2>1. s \in Seq(Op) /\ i \in DOMAIN s
      BY <1>2
    <2> HIDE DEF s, c
    <2> QED BY <2>1, Removed
  <1> HIDE DEF c, t
  <1>5. /\ ops'[d] = t /\ \A e \in Data : e # d => ops'[e] = ops[e]
        /\ ops' \in [Data -> Seq(Op)]
    BY <1>0, <1>1, <1>4
  <1>6. /\ \A j \in DOMAIN completed' :
              \/ j \in DOMAIN completed /\ completed'[j] = completed[j]
              \/ completed'[j] = c
        /\ completed' \in Seq(Completion)
    BY <1>0, <1>1, <1>3
  <1>7. \A e \in Data :
            /\ Cardinality(OfData(completed', e)) =
                 Cardinality(OfData(completed, e)) + IF d = e THEN 1 ELSE 0
            /\ OpsAt(completed', OfData(completed', e)) =
                 OpsAt(completed, OfData(completed, e)) \cup IF d = e THEN {s[i]} ELSE {}
    BY <1>0, <1>1, <1>2, <1>3, Completes
  <1>8. \A e \in Data : InKernel(ops'[e]) \subseteq InKernel(ops[e])
    BY <1>4, <1>5
  <1>9. \A e \in Data : Outstanding(e, ops'[e], completed') = Outstanding(e, ops[e], completed)
    <2> SUFFICES ASSUME NEW e \in Data
                 PROVE  Outstanding(e, ops'[e], completed') = Outstanding(e, ops[e], completed)
      OBVIOUS
    <2>1. CASE e = d
      BY <1>4, <1>5, <1>7, <2>1 DEF Outstanding
    <2>2. CASE e # d
      BY <1>5, <1>7, <2>2 DEF Outstanding
    <2> QED BY <2>1, <2>2
  <1>10. \A e \in Data : OpsOf(e)' = OpsOf(e)
    <2> SUFFICES ASSUME NEW e \in Data PROVE OpsOf(e)' = OpsOf(e)
      OBVIOUS
    <2>1. /\ OpsOf(e) = Len(ops[e]) + Cardinality(OfData(completed, e))
          /\ Len(ops[e]) \in Nat /\ Cardinality(OfData(completed, e)) \in Nat
      BY <1>0, OpsNumbered
    <2>2. OpsOf(e)' = Len(ops'[e]) + Cardinality(OfData(completed', e))
      BY DEF OpsOf, OfData
    <2>3. CASE e = d
      <3>1. Len(ops'[e]) = Len(ops[e]) - 1
        BY <1>4, <1>5, <2>3
      <3>2. Cardinality(OfData(completed', e)) = Cardinality(OfData(completed, e)) + 1
        BY <1>7, <2>3
      <3> QED BY <2>1, <2>2, <3>1, <3>2
    <2>4. CASE e # d
      <3>1. Len(ops'[e]) = Len(ops[e])
        BY <1>5, <2>4
      <3>2. Cardinality(OfData(completed', e)) = Cardinality(OfData(completed, e)) + 0
        BY <1>7, <2>4
      <3> QED BY <2>1, <2>2, <3>1, <3>2
    <2> QED BY <2>3, <2>4
  <1>11. PortTypes'
    <2>1. \A e \in Data : \A j \in DOMAIN ops'[e] : ops'[e][j].data = e
      <3> SUFFICES ASSUME NEW e \in Data, NEW j \in DOMAIN ops'[e]
                   PROVE  ops'[e][j].data = e
        OBVIOUS
      <3>1. ops'[e][j] \in InKernel(ops'[e])
        BY DEF InKernel
      <3>2. \A o \in InKernel(ops[e]) : o.data = e
        BY <1>0 DEF InKernel
      <3> QED BY <1>8, <3>1, <3>2
    <2>2. errors' = 0 => \A j \in DOMAIN completed' : completed'[j].result # "ERROR"
      BY <1>0, <1>3, <1>6
    <2>3. PortTypeOK'
      BY <1>0, <1>1 DEF PortTypeOK
    <2>4. data' \in [Data -> Datum \cup {Free}]
      BY <1>0, <1>1 DEF PortTypes
    <2> QED BY <1>5, <1>6, <2>1, <2>2, <2>3, <2>4 DEF PortTypes
  <1>12. Counted'
    BY <1>0, <1>1, <1>10 DEF Counted, Counts
  <1>13. ASSUME port = "open" PROVE TreeOK' /\ Heard'
    <2>1. TreeOK'
      BY <1>1, <1>13 DEF PortInv, TreeOK, Registered, Alive
    <2>2. Heard'
      <3> SUFFICES ASSUME errors' = 0, NEW g \in Fd, tree'[g] # 0
                   PROVE  Awaits(data'[tree'[g]], tree'[g] \in attn',
                                 Outstanding(tree'[g], ops'[tree'[g]], completed'))
        BY DEF Heard
      <3> DEFINE e == tree[g]
      <3>1. tree'[g] = e /\ e # 0 /\ e \in Data
        BY <1>0, <1>1 DEF PortTypeOK
      <3>2. Awaits(data[e], e \in attn, Outstanding(e, ops[e], completed))
        BY <1>13, <3>1 DEF PortInv, Heard
      <3> HIDE DEF e
      <3> QED BY <1>1, <1>9, <3>1, <3>2
    <2> QED BY <2>1, <2>2
  <1> QED BY <1>1, <1>8, <1>11, <1>12, <1>13 DEF PortInv

(* epoll_wait dequeues: what remains to be looked at is counted, what was  *)
(* reported belongs to what is in the tree.                                *)
LEMMA DequeueKeeps ==
    ASSUME PortInv, port = "open", NEW n \in 0 .. Len(completed), Dequeue(n)
    PROVE  /\ PortInv' /\ UNCHANGED <<port, tree, ops, errors>>
           /\ AfterBatch(n).reports \in Seq(Report) /\ Len(AfterBatch(n).reports) <= n
           /\ \A k \in DOMAIN AfterBatch(n).reports :
                 \E f \in Fd : /\ tree[f] # 0
                               /\ AfterBatch(n).reports[k].user = data[tree[f]].user
           /\ \A f \in Fd : tree[f] # 0 =>
                 /\ data'[tree[f]].user = data[tree[f]].user
                 /\ \/ data'[tree[f]].registered = data[tree[f]].registered
                    \/ data'[tree[f]].registered = data[tree[f]].registered \ {"OUT"}
  <1> DEFINE s == AfterBatch(n)
  <1>0. /\ PortTypes /\ PortTypeOK /\ Counted /\ TreeOK
        /\ completed \in Seq(Completion) /\ errors \in Nat
        /\ errors = 0 => \A i \in DOMAIN completed : completed[i].result # "ERROR"
    BY DEF PortInv, PortTypes
  <1>1. /\ completed' = SubSeq(completed, n + 1, Len(completed))
        /\ data' = s.data /\ attn' = s.attn
        /\ UNCHANGED <<port, peer, uses, readable, tree, ops, errors>>
    BY DEF Dequeue, sockets
  <1>2. BatchOK(n, s)
    BY BatchKept
  <1> HIDE DEF s
  <1>3. /\ completed' \in Seq(Completion)
        /\ \A i \in DOMAIN completed' : i + n \in DOMAIN completed
                                        /\ completed'[i] = completed[i + n]
    BY <1>0, <1>1, AfterBatchLeft
  <1>4. \A d \in Data :
            /\ Cardinality(OfData(completed', d)) = Cardinality(After(completed, n, d))
            /\ OpsAt(completed', OfData(completed', d))
                 = OpsAt(completed, After(completed, n, d))
    BY <1>0, <1>1, AfterBatchLeft
  <1>5. PortTypes'
    <2>1. errors' = 0 => \A i \in DOMAIN completed' : completed'[i].result # "ERROR"
      BY <1>0, <1>1, <1>3
    <2>2. attn' \subseteq Data
      <3>1. Registered \subseteq Data
        BY <1>0 DEF PortTypeOK, Registered
      <3> QED BY <1>1, <1>2, <3>1 DEF BatchOK
    <2>3. PortTypeOK'
      BY <1>0, <1>1, <2>2 DEF PortTypeOK
    <2>4. data' \in [Data -> Datum \cup {Free}]
      BY <1>1, <1>2 DEF BatchOK
    <2> QED BY <1>0, <1>1, <1>3, <2>1, <2>3, <2>4 DEF PortTypes
  <1>6. Counted'
    <2> SUFFICES ASSUME NEW d \in Data PROVE Counts(data[d], OpsOf(d))'
      BY DEF Counted
    <2>1. Counts(s.data[d], Len(ops[d]) + Cardinality(After(completed, n, d)))
      BY <1>2 DEF BatchOK
    <2>2. OpsOf(d)' = Len(ops[d]) + Cardinality(After(completed, n, d))
      BY <1>1, <1>4 DEF OpsOf, OfData
    <2> QED BY <1>1, <2>1, <2>2 DEF Counts
  <1>7. \A f \in Fd : tree[f] # 0 =>
            /\ tree[f] \in Data
            /\ data'[tree[f]] # Free
            /\ data'[tree[f]].sock = data[tree[f]].sock
            /\ data'[tree[f]].user = data[tree[f]].user
            /\ \/ data'[tree[f]].registered = data[tree[f]].registered
               \/ data'[tree[f]].registered = data[tree[f]].registered \ {"OUT"}
    BY <1>0, <1>1, <1>2 DEF BatchOK, PortTypeOK
  <1>8. TreeOK'
    <2>1. Registered' = Registered
      BY <1>1 DEF Registered
    <2>2. Registered \subseteq Alive'
      BY <1>7 DEF Registered, Alive
    <2>3. attn' \subseteq Registered
      BY <1>1, <1>2 DEF BatchOK
    <2>4. \A f \in Fd : tree'[f] # 0 => data'[tree'[f]].sock = <<f, uses'[f]>>
      BY <1>0, <1>1, <1>7 DEF TreeOK
    <2> QED BY <2>1, <2>2, <2>3, <2>4 DEF TreeOK
  <1>9. Heard'
    <2> SUFFICES ASSUME errors' = 0, NEW f \in Fd, tree'[f] # 0
                 PROVE  Awaits(data'[tree'[f]], tree'[f] \in attn',
                               Outstanding(tree'[f], ops'[tree'[f]], completed'))
      BY DEF Heard
    <2> DEFINE e == tree[f]
    <2>1. tree'[f] = e /\ e # 0 /\ e \in Data /\ errors = 0
      BY <1>1, <1>7
    <2>2. Awaits(s.data[e], e \in s.attn,
                 InKernel(ops[e]) \cup OpsAt(completed, After(completed, n, e)))
      BY <1>2, <2>1 DEF BatchOK
    <2> HIDE DEF e
    <2>3. Outstanding(e, ops'[e], completed')
            = InKernel(ops[e]) \cup OpsAt(completed, After(completed, n, e))
      BY <1>1, <1>4, <2>1 DEF Outstanding
    <2> QED BY <1>1, <2>1, <2>2, <2>3
  <1>10. /\ s.reports \in Seq(Report) /\ Len(s.reports) <= n
         /\ \A k \in DOMAIN s.reports :
               \E f \in Fd : tree[f] # 0 /\ s.reports[k].user = data[tree[f]].user
    BY <1>2 DEF BatchOK
  <1>11. PortInv'
    BY <1>5, <1>6, <1>8, <1>9 DEF PortInv
  <1> QED BY <1>1, <1>7, <1>10, <1>11 DEF s

(* What holds when n completions have been looked at as the port closes.   *)
CloseBatchOK(n, s) ==
    /\ s.tree \in [Fd -> Data \cup {0}]
    /\ s.data \in [Data -> Datum \cup {Free}]
    /\ s.attn \subseteq Data
    /\ \A d \in Data :
          Counts(s.data[d], Len(ops[d]) + Cardinality(After(completed, n, d)))

(* One completion after the other keeps it.                                *)
LEMMA CloseLookKeeps ==
    ASSUME PortTypes, NEW n \in 1 .. Len(completed), NEW s, CloseBatchOK(n - 1, s)
    PROVE  CloseBatchOK(n, CloseLooks(s, completed[n]))
  <1> DEFINE c == completed[n]
             d == c.op.data
             x == s.data[d]
             y == GoesWithLast(OpDeleted(x))
             z == CloseLooks(s, c)
             A(e) == After(completed, n, e)
             B(e) == After(completed, n - 1, e)
  <1>1. completed \in Seq(Completion) /\ ops \in [Data -> Seq(Op)]
    BY DEF PortTypes
  <1>2. d \in Data
    <2>1. n \in DOMAIN completed
      BY <1>1
    <2>2. c \in Completion
      BY <1>1, <2>1
    <2> HIDE DEF c
    <2>3. c.op \in Op
      BY <2>2 DEF Completion
    <2> QED BY <2>3 DEF Op
  <1>3. \A e \in Data : /\ Len(ops[e]) \in Nat
                        /\ Cardinality(A(e)) \in Nat
                        /\ Cardinality(B(e)) = Cardinality(A(e)) + IF d = e THEN 1 ELSE 0
    <2> SUFFICES ASSUME NEW e \in Data
                 PROVE  /\ Len(ops[e]) \in Nat
                        /\ Cardinality(A(e)) \in Nat
                        /\ Cardinality(B(e)) = Cardinality(A(e)) + IF d = e THEN 1 ELSE 0
      OBVIOUS
    <2>1. ops[e] \in Seq(Op)
      BY <1>1
    <2>2. Len(ops[e]) \in Nat
      BY <2>1
    <2>3. /\ A(e) \subseteq OfData(completed, e)
          /\ Cardinality(B(e)) = Cardinality(A(e)) + IF d = e THEN 1 ELSE 0
      BY <1>1, AfterNext
    <2>4. Cardinality(A(e)) \in Nat
      BY <1>1, <2>3, PlacesFinite
    <2> QED BY <2>2, <2>3, <2>4
  <1> HIDE DEF c, A, B
  <1>4. /\ s.tree \in [Fd -> Data \cup {0}] /\ s.attn \subseteq Data
        /\ s.data \in [Data -> Datum \cup {Free}]
        /\ \A e \in Data : Counts(s.data[e], Len(ops[e]) + Cardinality(B(e)))
    BY DEF CloseBatchOK, B
  <1>5. Counts(x, Len(ops[d]) + (Cardinality(A(d)) + 1)) /\ x \in Datum \cup {Free}
    BY <1>2, <1>3, <1>4
  <1>6. x \in Datum /\ x.opCount > 0 /\ x.opCount \in Nat
    BY <1>2, <1>3, <1>5, InUse
  <1>7. x.sock[1] \in Fd
    BY <1>6 DEF Datum
  <1> DEFINE w == OpDeleted(x)
  <1>8. w \in Datum /\ w # Free /\ w.opCount = x.opCount - 1
    BY <1>6, Deletes
  <1>9. y = IF w.opCount = 0 THEN Free ELSE w
    BY DEF GoesWithLast
  <1>10. /\ z.tree = IF find(s.tree, d, x) THEN s.tree ELSE [s.tree EXCEPT ![x.sock[1]] = 0]
         /\ z.data = [s.data EXCEPT ![d] = y]
         /\ z.attn = IF find(s.tree, d, x) THEN s.attn ELSE s.attn \ {d}
    BY DEF CloseLooks
  <1> HIDE DEF x, y, z, w, d
  <1>11. /\ z.tree \in [Fd -> Data \cup {0}] /\ z.attn \subseteq Data
         /\ z.data \in [Data -> Datum \cup {Free}]
    <2>1. y \in Datum \cup {Free}
      BY <1>8, <1>9
    <2>2. z.data \in [Data -> Datum \cup {Free}]
      BY <1>4, <1>10, <2>1
    <2>3. [s.tree EXCEPT ![x.sock[1]] = 0] \in [Fd -> Data \cup {0}]
      BY <1>4, <1>7
    <2>4. z.tree \in [Fd -> Data \cup {0}] /\ z.attn \subseteq Data
      BY <1>4, <1>10, <2>3
    <2> QED BY <2>2, <2>4
  <1>12. \A e \in Data : Counts(z.data[e], Len(ops[e]) + Cardinality(A(e)))
    <2> SUFFICES ASSUME NEW e \in Data
                 PROVE  Counts(z.data[e], Len(ops[e]) + Cardinality(A(e)))
      OBVIOUS
    <2>1. CASE e # d
      <3>1. z.data[e] = s.data[e] /\ Cardinality(B(e)) = Cardinality(A(e)) + 0
        BY <1>3, <1>4, <1>10, <2>1
      <3>2. Cardinality(B(e)) = Cardinality(A(e))
        BY <1>3, <3>1
      <3> QED BY <1>4, <3>1, <3>2
    <2>2. CASE e = d
      <3>1. z.data[d] = y /\ y \in Datum \cup {Free}
        BY <1>2, <1>4, <1>8, <1>9, <1>10
      <3>2. IF y = Free THEN x.opCount = 1
            ELSE y.opCount >= x.opCount - 1 /\ (errors = 0 => y.opCount = x.opCount - 1)
        BY <1>6, <1>8, <1>9
      <3> QED BY <1>2, <1>3, <1>5, <1>6, <2>2, <3>1, <3>2, OneLess
    <2> QED BY <2>1, <2>2
  <1> QED BY <1>11, <1>12 DEF CloseBatchOK, A, z, c

(* epoll_close dequeues everything.                                        *)
LEMMA CloseDequeuesKeeps ==
    ASSUME PortInv, CloseDequeues
    PROVE  PortInv' /\ port = "closing" /\ port' = port
  <1> DEFINE n == Len(completed)
             s == Closed[n]
  <1>0. /\ PortTypes /\ PortTypeOK /\ Counted
        /\ completed \in Seq(Completion) /\ n \in Nat
    BY DEF PortInv, PortTypes
  <1>1. /\ tree' = s.tree /\ data' = s.data /\ attn' = s.attn /\ completed' = <<>>
        /\ port = "closing"
        /\ UNCHANGED <<port, peer, uses, readable, ops, errors>>
    BY DEF CloseDequeues, sockets
  <1>2. CloseBatchOK(0, Closed[0])
    <2> DEFINE t == First(TRUE)
    <2>1. t.tree = tree /\ t.data = data /\ t.attn = attn
      BY DEF First
    <2> HIDE DEF t
    <2>2. Closed[0] = t
      BY <1>0, BatchSteps DEF t
    <2>3. \A d \in Data : Counts(t.data[d], Len(ops[d]) + Cardinality(After(completed, 0, d)))
      <3>1. \A d \in Data : After(completed, 0, d) = OfData(completed, d)
        BY <1>0, AfterNext
      <3> QED BY <1>0, <2>1, <3>1 DEF Counted, OpsOf, OfData
    <2> QED BY <1>0, <2>1, <2>2, <2>3 DEF CloseBatchOK, PortTypes, PortTypeOK
  <1>3. \A i \in 1 .. n : CloseBatchOK(i - 1, Closed[i - 1]) => CloseBatchOK(i, Closed[i])
    BY <1>0, BatchSteps, CloseLookKeeps
  <1> DEFINE Bad == {i \in 0 .. n : ~CloseBatchOK(i, Closed[i])}
  <1> HIDE DEF n
  <1>4. Bad = {}
    <2> SUFFICES ASSUME Bad # {} PROVE FALSE
      OBVIOUS
    <2>1. Bad \subseteq Nat
      BY <1>0
    <2>2. PICK i \in Bad : \A j \in Bad : ~(j < i)
      BY <2>1, LeastElement
    <2>3. i \in 0 .. n /\ ~CloseBatchOK(i, Closed[i])
      OBVIOUS
    <2>4. i # 0
      BY <1>2, <2>3
    <2>5. i \in 1 .. n /\ i - 1 \in 0 .. n /\ i - 1 < i
      BY <1>0, <2>3, <2>4
    <2>6. CloseBatchOK(i - 1, Closed[i - 1])
      BY <2>2, <2>5
    <2> QED BY <1>3, <2>3, <2>5, <2>6
  <1>5. CloseBatchOK(n, s)
    <2>1. n \in 0 .. n
      BY <1>0
    <2> QED BY <1>4, <2>1
  <1> HIDE DEF s, Bad
  <1>6. PortTypes'
    <2>1. PortTypeOK'
      BY <1>0, <1>1, <1>5 DEF PortTypeOK, CloseBatchOK
    <2>2. data' \in [Data -> Datum \cup {Free}]
      BY <1>1, <1>5 DEF CloseBatchOK
    <2>3. completed' \in Seq(Completion) /\ DOMAIN completed' = {}
      BY <1>1
    <2> QED BY <1>0, <1>1, <2>1, <2>2, <2>3 DEF PortTypes
  <1>7. Counted'
    <2> SUFFICES ASSUME NEW d \in Data PROVE Counts(data[d], OpsOf(d))'
      BY DEF Counted
    <2>1. After(completed, n, d) = {}
      <3>1. n + 1 .. n = {}
        BY <1>0
      <3> QED BY <3>1 DEF After, n
    <2>2. {i \in DOMAIN completed' : completed'[i].op.data = d} = {}
      BY <1>1
    <2>3. OpsOf(d)' = Len(ops[d]) + Cardinality(After(completed, n, d))
      BY <1>1, <2>1, <2>2 DEF OpsOf
    <2> QED BY <1>1, <1>5, <2>3 DEF CloseBatchOK, Counts
  <1> QED BY <1>1, <1>6, <1>7 DEF PortInv

(* A socket that is not registered is closed.                              *)
LEMMA ClosesocketKeeps ==
    ASSUME PortInv, NEW f \in Fd, port = "open" => tree[f] = 0, closesocket(f)
    PROVE  PortInv' /\ UNCHANGED <<port, tree, data, attn, ops, errors>>
  <1>1. /\ uses' = [uses EXCEPT ![f] = @ + 1] /\ readable' = readable \ {f}
        /\ UNCHANGED <<port, peer, tree, data, attn, ops, completed, errors>>
    BY DEF closesocket
  <1>2. PortTypes'
    <2>1. PortTypeOK'
      BY <1>1 DEF PortInv, PortTypes, PortTypeOK
    <2> QED BY <1>1, <2>1 DEF PortInv, PortTypes
  <1>3. Counted'
    BY <1>1 DEF PortInv, Counted, Counts, OpsOf
  <1>4. port = "open" => TreeOK' /\ Heard'
    <2>1. \A g \in Fd : g # f => uses'[g] = uses[g]
      BY <1>1 DEF PortInv, PortTypes, PortTypeOK
    <2>2. port = "open" => TreeOK'
      BY <1>1, <2>1 DEF PortInv, TreeOK, Registered, Alive
    <2>3. port = "open" => Heard'
      BY <1>1 DEF PortInv, Heard
    <2> QED BY <2>2, <2>3
  <1> QED BY <1>1, <1>2, <1>3, <1>4 DEF PortInv

----------------------------------------------------------------------------
(* The steps of the poller.                                                *)

(* The constructor creates the port.                                       *)
LEMMA CreateKeeps == IInv /\ Create /\ UNCHANGED userVars => IInv'
  <1> SUFFICES ASSUME IInv, Create, UNCHANGED userVars PROVE IInv'
    OBVIOUS
  <1>0. PortInv /\ PollerTypes /\ Phases /\ Tables
    BY DEF IInv
  <1>1. /\ phase = "create" /\ port = "none" /\ attn = {} /\ port' \in {"null", "open"}
        /\ phase' = IF port' = "null" THEN "aborted" ELSE "functors"
        /\ \A f \in Fd : index[f] = "kNew" /\ tree[f] = 0
        /\ UNCHANGED <<peer, uses, readable, tree, data, attn, ops, completed, errors>>
        /\ UNCHANGED <<number, events, index, channels, size, active>>
    BY <1>0 DEF Create, epoll_create, Phases, sockets, pollerVars
  <1>2. TreeOK /\ Heard
    <2>1. Registered = {}
      BY <1>1 DEF Registered
    <2> QED BY <1>1, <2>1 DEF TreeOK, Heard
  <1>3. PortInv'
    <2>1. peer \in {"none", "open", "invalid"} /\ readable \subseteq Fd
      BY <1>0 DEF PortInv, PortTypes, PortTypeOK
    <2> QED BY <1>0, <1>1, <1>2, <2>1, PortSame
  <1>4. PollerTypes'
    BY <1>0, <1>1 DEF PollerTypes
  <1>5. Phases'
    BY <1>1 DEF Phases, Polls
  <1>6. Tables'
    BY <1>0, <1>1 DEF Tables
  <1>7. Reading'
    BY <1>1 DEF Reading
  <1> QED BY <1>3, <1>4, <1>5, <1>6, <1>7 DEF IInv

(* A change of interest, by a functor or a callback.                       *)
LEMMA ChangeKeeps == ASSUME IInv, NEW f \in Fd, Change(f) PROVE IInv'
  <1>0. PortInv /\ PollerTypes /\ Phases /\ Tables /\ Reading
    BY DEF IInv
  <1>1. /\ phase \in Polls /\ phase # "wait" /\ port = "open"
        /\ ~(index[f] = "kAdded" /\ events[f] = {})
    BY <1>0 DEF Change, Phases, Polls
  <1>2. PICK ev \in Interests :
            /\ updateChannel(f, ev)
            /\ deaf' = IF "IN" \notin ev     THEN deaf \cup {f}
                       ELSE IF tree[f] # 0   THEN deaf ELSE deaf \ {f}
    BY DEF Change
  <1>3. /\ events' = [events EXCEPT ![f] = ev]
        /\ UNCHANGED <<number, size, active>>
    BY <1>2 DEF updateChannel
  <1>4. ev \in SUBSET Event /\ Channel(f) \in Fd \X Nat
    BY <1>0, PollerAssumption DEF Event, Channel, PollerTypes
  <1>5. /\ events'[f] = ev /\ events' \in [Fd -> Interests \cup {{}}]
        /\ \A g \in Fd : g # f => events'[g] = events[g]
    BY <1>0, <1>3 DEF PollerTypes
  <1>6. /\ \A g \in Fd : g # f /\ g \notin deaf' => g \notin deaf
        /\ f \notin deaf' => "IN" \in ev /\ (tree[f] # 0 => f \notin deaf)
    BY <1>2
  <1>7. \A g \in Fd : Channel(g)' = Channel(g)
    BY <1>3 DEF Channel
  <1>8. CASE /\ index[f] # "kAdded"
             /\ channels' = [channels EXCEPT ![f] = number[f]]
             /\ index' = [index EXCEPT ![f] = "kAdded"]
             /\ \E r \in {0, -1} : epoll_add(f, ev, Channel(f), r) /\ Update(r)
    <2>1. PICK r \in {0, -1} : epoll_add(f, ev, Channel(f), r) /\ Update(r)
      BY <1>8
    <2>2. /\ PortInv'
          /\ errors' = 0 => errors = 0
          /\ r = 0 =>
               /\ tree'[f] # 0
               /\ data'[tree'[f]].user = Channel(f) /\ data'[tree'[f]].registered = ev
               /\ \A o \in InKernel(ops'[tree'[f]]) : o.events = ev
               /\ \A g \in Fd : g # f /\ tree[g] # 0 =>
                     data'[tree[g]] = data[tree[g]] /\ ops'[tree[g]] = ops[tree[g]]
               /\ \A g \in Fd : g # f => tree'[g] = tree[g]
      BY <1>0, <1>1, <1>4, <2>1, AddKeeps
    <2>3. port' = port /\ phase' \in {phase, "aborted"} /\ (phase' \in Polls => r = 0)
      BY <2>1 DEF epoll_add, Update, Polls
    <2>4. /\ index'[f] = "kAdded" /\ channels'[f] = number[f] /\ number[f] # 0
          /\ \A g \in Fd : g # f => index'[g] = index[g] /\ channels'[g] = channels[g]
          /\ index' \in [Fd -> {"kNew", "kAdded", "kDeleted"}] /\ channels' \in [Fd -> Nat]
      BY <1>0, <1>8 DEF PollerTypes
    <2>5. PollerTypes'
      BY <1>0, <1>3, <1>5, <2>4 DEF PollerTypes
    <2>6. Phases'
      BY <1>1, <2>3 DEF Phases, Polls
    <2>7. Tables'
      <3>1. \A g \in Fd : channels'[g] = IF index'[g] = "kNew" THEN 0 ELSE number'[g]
        BY <1>0, <1>3, <2>4 DEF Tables
      <3>2. ASSUME phase' \in Polls, NEW g \in Fd
            PROVE  /\ index'[g] = "kAdded" <=> tree'[g] # 0
                   /\ tree'[g] # 0 => data'[tree'[g]].user = Channel(g)'
        <4>1. CASE g = f
          BY <1>7, <2>2, <2>3, <2>4, <3>2, <4>1
        <4>2. CASE g # f
          BY <1>0, <1>1, <1>7, <2>2, <2>3, <2>4, <3>2, <4>2 DEF Tables
        <4> QED BY <4>1, <4>2
      <3> QED BY <3>1, <3>2 DEF Tables
    <2>8. Reading'
      <3> SUFFICES ASSUME phase' \in Polls, errors' = 0,
                          NEW g \in Fd, tree'[g] # 0, g \notin deaf'
                   PROVE  /\ "IN" \in data'[tree'[g]].registered
                          /\ \A o \in InKernel(ops'[tree'[g]]) : "IN" \in o.events
        BY DEF Reading
      <3>1. r = 0 /\ errors = 0
        BY <2>2, <2>3
      <3>2. CASE g = f
        BY <1>6, <2>2, <3>1, <3>2
      <3>3. CASE g # f
        <4>1. tree'[g] = tree[g] /\ tree[g] # 0 /\ g \notin deaf
          BY <1>6, <2>2, <3>1, <3>3
        <4>2. data'[tree[g]] = data[tree[g]] /\ ops'[tree[g]] = ops[tree[g]]
          BY <2>2, <3>1, <3>3, <4>1
        <4> QED BY <1>0, <1>1, <3>1, <4>1, <4>2 DEF Reading
      <3> QED BY <3>2, <3>3
    <2> QED BY <2>2, <2>5, <2>6, <2>7, <2>8 DEF IInv
  <1>9. CASE /\ index[f] = "kAdded" /\ ev = {}
             /\ index' = [index EXCEPT ![f] = "kDeleted"]
             /\ epoll_del(f)
             /\ UNCHANGED <<channels, phase>>
    <2>1. PortInv' /\ tree'[f] = 0 /\ \A g \in Fd : g # f => tree'[g] = tree[g]
      BY <1>0, <1>9, DelKeeps
    <2>2. port' = port /\ UNCHANGED <<data, ops, errors>>
      BY <1>9 DEF epoll_del
    <2>3. /\ index'[f] = "kDeleted"
          /\ \A g \in Fd : g # f => index'[g] = index[g]
          /\ index' \in [Fd -> {"kNew", "kAdded", "kDeleted"}]
      BY <1>0, <1>9 DEF PollerTypes
    <2>4. PollerTypes'
      BY <1>0, <1>3, <1>5, <1>9, <2>3 DEF PollerTypes
    <2>5. Phases'
      BY <1>1, <1>9, <2>2 DEF Phases, Polls
    <2>6. Tables'
      BY <1>0, <1>1, <1>3, <1>7, <1>9, <2>1, <2>2, <2>3 DEF Tables
    <2>7. Reading'
      BY <1>0, <1>1, <1>6, <1>9, <2>1, <2>2 DEF Reading
    <2> QED BY <2>1, <2>4, <2>5, <2>6, <2>7 DEF IInv
  <1>10. CASE /\ index[f] = "kAdded" /\ ev # {}
              /\ \E r \in {0, -1} : epoll_mod(f, ev, Channel(f), r) /\ Update(r)
              /\ UNCHANGED <<index, channels>>
    <2>1. PICK r \in {0, -1} : epoll_mod(f, ev, Channel(f), r) /\ Update(r)
      BY <1>10
    <2>2. /\ PortInv' /\ tree' = tree
          /\ errors' = 0 => errors = 0
          /\ data'[tree[f]].user = Channel(f) /\ data'[tree[f]].registered = ev
          /\ \A o \in InKernel(ops'[tree[f]]) :
                o \in InKernel(ops[tree[f]]) \/ o.events = ev
          /\ \A g \in Fd : g # f /\ tree[g] # 0 =>
                data'[tree[g]] = data[tree[g]] /\ ops'[tree[g]] = ops[tree[g]]
      BY <1>0, <1>1, <1>4, <2>1, ModKeeps
    <2>3. port' = port /\ phase' \in {phase, "aborted"}
      BY <2>1 DEF epoll_mod, Update
    <2>4. PollerTypes'
      BY <1>0, <1>3, <1>5, <1>10 DEF PollerTypes
    <2>5. Phases'
      BY <1>1, <2>3 DEF Phases, Polls
    <2>6. Tables'
      <3>1. \A g \in Fd : channels'[g] = IF index'[g] = "kNew" THEN 0 ELSE number'[g]
        BY <1>0, <1>3, <1>10 DEF Tables
      <3>2. ASSUME phase' \in Polls, NEW g \in Fd
            PROVE  /\ index'[g] = "kAdded" <=> tree'[g] # 0
                   /\ tree'[g] # 0 => data'[tree'[g]].user = Channel(g)'
        <4>1. /\ index[g] = "kAdded" <=> tree[g] # 0
              /\ tree[g] # 0 => data[tree[g]].user = Channel(g)
          BY <1>0, <1>1 DEF Tables
        <4>2. CASE g = f
          BY <1>7, <1>10, <2>2, <4>1, <4>2
        <4>3. CASE g # f
          BY <1>7, <1>10, <2>2, <4>1, <4>3
        <4> QED BY <4>2, <4>3
      <3> QED BY <3>1, <3>2 DEF Tables
    <2>7. Reading'
      <3> SUFFICES ASSUME errors' = 0, NEW g \in Fd, tree'[g] # 0, g \notin deaf'
                   PROVE  /\ "IN" \in data'[tree'[g]].registered
                          /\ \A o \in InKernel(ops'[tree'[g]]) : "IN" \in o.events
        BY DEF Reading
      <3>1. errors = 0 /\ tree[g] # 0
        BY <2>2
      <3>2. CASE g = f
        <4>1. "IN" \in ev /\ g \notin deaf
          BY <1>6, <3>1, <3>2
        <4>2. \A o \in InKernel(ops[tree[g]]) : "IN" \in o.events
          BY <1>0, <1>1, <3>1, <4>1 DEF Reading
        <4> QED BY <2>2, <3>2, <4>1, <4>2
      <3>3. CASE g # f
        <4>1. /\ g \notin deaf /\ data'[tree[g]] = data[tree[g]]
              /\ ops'[tree[g]] = ops[tree[g]]
          BY <1>6, <2>2, <3>1, <3>3
        <4> QED BY <1>0, <1>1, <2>2, <3>1, <4>1 DEF Reading
      <3> QED BY <3>2, <3>3
    <2> QED BY <2>2, <2>4, <2>5, <2>6, <2>7 DEF IInv
  <1> QED BY <1>2, <1>8, <1>9, <1>10 DEF updateChannel

(* A channel is removed.                                                   *)
LEMMA WithdrawKeeps == ASSUME IInv, NEW f \in Fd, Withdraw(f) PROVE IInv'
  <1>0. PortInv /\ PollerTypes /\ Phases /\ Tables /\ Reading
    BY DEF IInv
  <1>1. /\ phase \in Polls /\ phase # "wait" /\ port = "open"
        /\ index[f] # "kNew" /\ events[f] = {}
        /\ channels' = [channels EXCEPT ![f] = 0]
        /\ index' = [index EXCEPT ![f] = "kNew"]
        /\ UNCHANGED <<number, events, size, phase, active, deaf>>
    BY <1>0 DEF Withdraw, removeChannel, Phases, Polls, loopVars, userVars
  <1>2. /\ PortInv' /\ tree'[f] = 0 /\ \A g \in Fd : g # f => tree'[g] = tree[g]
        /\ UNCHANGED <<port, data, ops, errors>>
    <2>1. CASE index[f] = "kAdded"
      <3>1. epoll_del(f)
        BY <2>1 DEF Withdraw, removeChannel
      <3>2. UNCHANGED <<port, data, ops, errors>>
        BY <3>1 DEF epoll_del
      <3> QED BY <1>0, <3>1, <3>2, DelKeeps
    <2>2. CASE index[f] # "kAdded"
      <3>1. UNCHANGED <<port, peer, uses, readable, tree, data, attn, ops, completed, errors>>
        BY <2>2 DEF Withdraw, removeChannel, portVars, sockets
      <3>2. tree[f] = 0
        BY <1>0, <1>1, <2>2 DEF Tables
      <3>3. PortInv'
        BY <1>0, <3>1, PortSame DEF PortInv, PortTypes, PortTypeOK
      <3> QED BY <3>1, <3>2, <3>3
    <2> QED BY <2>1, <2>2
  <1>3. /\ index'[f] = "kNew" /\ channels'[f] = 0
        /\ \A g \in Fd : g # f => index'[g] = index[g] /\ channels'[g] = channels[g]
        /\ index' \in [Fd -> {"kNew", "kAdded", "kDeleted"}] /\ channels' \in [Fd -> Nat]
    BY <1>0, <1>1 DEF PollerTypes
  <1>4. PollerTypes'
    BY <1>0, <1>1, <1>3 DEF PollerTypes
  <1>5. Phases'
    BY <1>1, <1>2 DEF Phases, Polls
  <1>6. Tables'
    <2>1. \A g \in Fd : channels'[g] = IF index'[g] = "kNew" THEN 0 ELSE number'[g]
      BY <1>0, <1>1, <1>3 DEF Tables
    <2>2. ASSUME NEW g \in Fd
          PROVE  /\ index'[g] = "kAdded" <=> tree'[g] # 0
                 /\ tree'[g] # 0 => data'[tree'[g]].user = Channel(g)'
      <3>1. Channel(g)' = Channel(g)
        BY <1>1 DEF Channel
      <3>2. CASE g = f
        BY <1>2, <1>3, <3>2
      <3>3. CASE g # f
        BY <1>0, <1>1, <1>2, <1>3, <3>1, <3>3 DEF Tables
      <3> QED BY <3>2, <3>3
    <2> QED BY <2>1, <2>2 DEF Tables
  <1>7. Reading'
    BY <1>0, <1>1, <1>2 DEF Reading
  <1> QED BY <1>2, <1>4, <1>5, <1>6, <1>7 DEF IInv

(* Another channel for the handle.                                         *)
LEMMA RenewKeeps == ASSUME IInv, NEW f \in Fd, Renew(f) PROVE IInv'
  <1>0. PortInv /\ PollerTypes /\ Phases /\ Tables /\ Reading
    BY DEF IInv
  <1>1. /\ phase \in Polls /\ phase = "functors" /\ port = "open" /\ index[f] = "kNew"
        /\ number' = [number EXCEPT ![f] = @ + 1]
        /\ UNCHANGED <<events, index, channels, size, phase, active, deaf>>
    BY <1>0 DEF Renew, NewChannel, Phases, Polls, loopVars, userVars
  <1>2. tree[f] = 0
    BY <1>0, <1>1 DEF Tables
  <1>3. PortInv' /\ UNCHANGED <<port, tree, data, attn, ops, errors>>
    <2>1. CASE closesocket(f)
      BY <1>0, <1>2, <2>1, ClosesocketKeeps
    <2>2. CASE UNCHANGED portVars
      <3>1. UNCHANGED <<port, peer, uses, readable, tree, data, attn, ops, completed, errors>>
        BY <2>2 DEF portVars, sockets
      <3> QED BY <1>0, <3>1, PortSame DEF PortInv, PortTypes, PortTypeOK
    <2> QED BY <2>1, <2>2 DEF Renew, NewChannel
  <1>4. /\ number' \in [Fd -> Nat \ {0}]
        /\ \A g \in Fd : g # f => number'[g] = number[g]
    BY <1>0, <1>1 DEF PollerTypes
  <1>5. PollerTypes'
    BY <1>0, <1>1, <1>4 DEF PollerTypes
  <1>6. Phases'
    BY <1>0, <1>1, <1>3 DEF Phases, Polls
  <1>7. Tables'
    BY <1>0, <1>1, <1>2, <1>3, <1>4 DEF Tables, Channel
  <1>8. Reading'
    BY <1>0, <1>1, <1>3 DEF Reading
  <1> QED BY <1>3, <1>5, <1>6, <1>7, <1>8 DEF IInv

(* poll() begins.                                                          *)
LEMMA PollSubmitsKeeps == IInv /\ PollSubmits /\ UNCHANGED userVars => IInv'
  <1> SUFFICES ASSUME IInv, PollSubmits, UNCHANGED userVars PROVE IInv'
    OBVIOUS
  <1>0. PortInv /\ PollerTypes /\ Phases /\ Tables /\ Reading
    BY DEF IInv
  <1>1. /\ phase \in Polls /\ phase' = "wait" /\ port = "open" /\ submit
        /\ UNCHANGED <<number, events, index, channels, size, active, deaf>>
    BY <1>0 DEF PollSubmits, Phases, Polls, pollerVars, userVars
  <1>2. /\ PortInv' /\ attn' = {} /\ tree' = tree /\ port' = port
        /\ errors' = 0 => errors = 0
        /\ \A g \in Fd : tree[g] # 0 =>
             /\ data'[tree[g]].user = data[tree[g]].user
             /\ data'[tree[g]].registered = data[tree[g]].registered
             /\ \A o \in InKernel(ops'[tree[g]]) :
                   \/ o \in InKernel(ops[tree[g]])
                   \/ o.events = data[tree[g]].registered
    BY <1>0, <1>1, PortSubmitKeeps
  <1>3. PollerTypes'
    BY <1>0, <1>1 DEF PollerTypes
  <1>4. Phases'
    BY <1>1, <1>2 DEF Phases, Polls
  <1>5. Tables'
    BY <1>0, <1>1, <1>2 DEF Tables, Channel
  <1>6. Reading'
    <2> SUFFICES ASSUME errors' = 0, NEW g \in Fd, tree'[g] # 0, g \notin deaf'
                 PROVE  /\ "IN" \in data'[tree'[g]].registered
                        /\ \A o \in InKernel(ops'[tree'[g]]) : "IN" \in o.events
      BY DEF Reading
    <2>1. /\ "IN" \in data[tree[g]].registered
          /\ \A o \in InKernel(ops[tree[g]]) : "IN" \in o.events
      BY <1>0, <1>1, <1>2 DEF Reading
    <2> QED BY <1>2, <2>1
  <1> QED BY <1>2, <1>3, <1>4, <1>5, <1>6 DEF IInv

(* What is handled is what was reported, each with its last report.        *)
LEMMA Filled ==
    ASSUME NEW reports \in Seq(Report)
    PROVE  /\ fillActiveChannels(reports) \in Seq(Report)
           /\ Len(fillActiveChannels(reports)) = Len(reports)
           /\ \A i \in DOMAIN fillActiveChannels(reports) :
                 /\ i \in DOMAIN reports
                 /\ fillActiveChannels(reports)[i].user = reports[i].user
  <1> DEFINE n == Len(reports)
             I(user) == {i \in 1 .. n : reports[i].user = user}
             t == fillActiveChannels(reports)
  <1>1. n \in Nat /\ DOMAIN reports = 1 .. n
    OBVIOUS
  <1>2. \A user : LastOf(reports, user) = IF I(user) # {} THEN Max(I(user)) ELSE 0
    BY DEF LastOf, SelectLastInSeq
  <1>3. t = [i \in 1 .. n |-> reports[LastOf(reports, reports[i].user)]]
    BY <1>1 DEF fillActiveChannels
  <1> HIDE DEF n, t
  <1>4. ASSUME NEW i \in 1 .. n
        PROVE  t[i] \in Report /\ t[i].user = reports[i].user
    <2> DEFINE u == reports[i].user
               l == LastOf(reports, u)
               U == I(u)
    <2>1. i \in U /\ U \subseteq 1 .. n
      OBVIOUS
    <2>2. l = Max(U)
      BY <1>2, <2>1
    <2> HIDE DEF U
    <2>3. Max(U) \in U
      BY <1>1, <2>1, GreatestElement
    <2>4. l \in 1 .. n /\ reports[l].user = u
      BY <2>2, <2>3 DEF U
    <2>5. t[i] = reports[l]
      BY <1>3
    <2> HIDE DEF l, u
    <2> QED BY <1>1, <2>4, <2>5 DEF u
  <1>5. t \in Seq(Report) /\ Len(t) = n /\ DOMAIN t = 1 .. n
    <2>1. t \in [1 .. n -> Report]
      BY <1>3, <1>4
    <2> QED BY <1>1, <2>1
  <1> QED BY <1>1, <1>4, <1>5 DEF n, t

(* poll() returns: what it reports is in channels_.                        *)
LEMMA PollReturnsKeeps ==
    ASSUME IInv, PollReturns, UNCHANGED userVars
    PROVE  IInv' /\ \A i \in DOMAIN active' :
                       \E f \in Fd : active'[i].user = Channel(f) /\ channels[f] = number[f]
  <1> DEFINE n == BatchSize(size)
             reports == AfterBatch(n).reports
  <1>0. PortInv /\ PollerTypes /\ Phases /\ Tables /\ Reading
    BY DEF IInv
  <1>1. /\ phase \in Polls /\ phase' = "dispatch" /\ port = "open" /\ Dequeue(n)
        /\ active' = fillActiveChannels(reports)
        /\ size' = IF Len(active') = size /\ 2 * size <= MaxEvents THEN 2 * size ELSE size
        /\ UNCHANGED <<number, events, index, channels, deaf>>
    BY <1>0 DEF PollReturns, Phases, Polls, pollerVars, userVars
  <1>2. n \in 0 .. Len(completed) /\ n <= size /\ n \in Nat
    <2>1. Len(completed) \in Nat /\ size \in Nat
      BY <1>0 DEF PortInv, PortTypes, PollerTypes
    <2>2. n = IF Len(completed) < size THEN Len(completed) ELSE size
      BY DEF BatchSize
    <2> HIDE DEF n
    <2> QED BY <2>1, <2>2
  <1> HIDE DEF n
  <1>3. /\ PortInv' /\ UNCHANGED <<port, tree, ops, errors>>
        /\ reports \in Seq(Report) /\ Len(reports) <= n
        /\ \A k \in DOMAIN reports :
              \E f \in Fd : tree[f] # 0 /\ reports[k].user = data[tree[f]].user
        /\ \A f \in Fd : tree[f] # 0 =>
              /\ data'[tree[f]].user = data[tree[f]].user
              /\ \/ data'[tree[f]].registered = data[tree[f]].registered
                 \/ data'[tree[f]].registered = data[tree[f]].registered \ {"OUT"}
    BY <1>0, <1>1, <1>2, DequeueKeeps
  <1> HIDE DEF reports
  <1>4. /\ active' \in Seq(Report) /\ Len(active') = Len(reports)
        /\ \A i \in DOMAIN active' : i \in DOMAIN reports /\ active'[i].user = reports[i].user
    BY <1>1, <1>3, Filled
  <1>5. PollerTypes'
    <2>1. size' \in Nat \ {0} /\ size <= size'
      <3>1. size \in Nat \ {0}
        BY <1>0 DEF PollerTypes
      <3>2. 2 * size \in Nat \ {0} /\ size <= 2 * size
        BY <3>1
      <3> QED BY <1>1, <3>1, <3>2
    <2>2. Len(active') <= size'
      <3>1. Len(active') \in Nat /\ size \in Nat
        BY <1>0, <1>4 DEF PollerTypes
      <3> QED BY <1>2, <1>3, <1>4, <2>1, <3>1
    <2> QED BY <1>0, <1>1, <1>4, <2>1, <2>2 DEF PollerTypes
  <1>6. Phases'
    BY <1>1, <1>3 DEF Phases, Polls
  <1>7. Tables'
    BY <1>0, <1>1, <1>3 DEF Tables, Channel
  <1>8. Reading'
    BY <1>0, <1>1, <1>3 DEF Reading
  <1>9. ASSUME NEW i \in DOMAIN active'
        PROVE  \E f \in Fd : active'[i].user = Channel(f) /\ channels[f] = number[f]
    <2>1. PICK f \in Fd : tree[f] # 0 /\ active'[i].user = data[tree[f]].user
      BY <1>3, <1>4
    <2>2. index[f] = "kAdded" /\ data[tree[f]].user = Channel(f)
      BY <1>0, <1>1, <2>1 DEF Tables
    <2>3. channels[f] = number[f]
      BY <1>0, <2>2 DEF Tables
    <2> QED BY <2>1, <2>2, <2>3
  <1> QED BY <1>3, <1>5, <1>6, <1>7, <1>8, <1>9 DEF IInv

(* The steps of the loop that leave the port alone, or only read.          *)
LEMMA LoopKeeps ==
    ASSUME IInv, NothingHappened \/ HandleEvent \/ Dispatched, UNCHANGED userVars
    PROVE  IInv'
  <1>0. PortInv /\ PollerTypes /\ Phases /\ Tables /\ Reading
    BY DEF IInv
  <1>1. /\ phase \in Polls /\ phase' \in Polls /\ phase' # "wait" /\ port = "open"
        /\ readable' \subseteq readable
        /\ active' = active \/ (active # <<>> /\ active' = Tail(active))
        /\ UNCHANGED <<port, peer, uses, tree, data, attn, ops, completed, errors>>
        /\ UNCHANGED <<number, events, index, channels, size, deaf>>
    BY <1>0 DEF NothingHappened, HandleEvent, Dispatched, Phases, Polls, portVars, sockets,
                pollerVars, userVars
  <1>2. PortInv'
    <2>1. /\ peer \in {"none", "open", "invalid"} /\ readable' \subseteq Fd
          /\ TreeOK /\ Heard
      BY <1>0, <1>1 DEF PortInv, PortTypes, PortTypeOK
    <2> QED BY <1>0, <1>1, <2>1, PortSame
  <1>3. PollerTypes'
    <2>1. active' \in Seq(Report) /\ Len(active') <= size
      <3>1. active \in Seq(Report) /\ Len(active) <= size /\ size \in Nat
        BY <1>0 DEF PollerTypes
      <3>2. CASE active' = active
        BY <3>1, <3>2
      <3>3. CASE active # <<>> /\ active' = Tail(active)
        <4>1. /\ Tail(active) \in Seq(Report) /\ Len(Tail(active)) = Len(active) - 1
              /\ Len(active) \in Nat
          BY <3>1, <3>3
        <4> QED BY <3>1, <3>3, <4>1
      <3> QED BY <1>1, <3>2, <3>3
    <2> QED BY <1>0, <1>1, <2>1 DEF PollerTypes
  <1>4. Phases'
    BY <1>1 DEF Phases, Polls
  <1>5. Tables'
    BY <1>0, <1>1 DEF Tables, Channel
  <1>6. Reading'
    BY <1>0, <1>1 DEF Reading
  <1> QED BY <1>2, <1>3, <1>4, <1>5, <1>6 DEF IInv

(* The destructor closes the port.                                         *)
LEMMA DestroyKeeps == IInv /\ Destroy => IInv'
  <1> SUFFICES ASSUME IInv, Destroy PROVE IInv'
    OBVIOUS
  <1>0. PortInv /\ PollerTypes /\ Phases /\ Tables /\ Reading
    BY DEF IInv
  <1>1. UNCHANGED <<number, events, index, channels, size, active>>
    BY DEF Destroy, pollerVars
  <1>2. PortInv' /\ \/ phase' = "destroy" /\ port' = "closing"
                    \/ phase' = "destroyed" /\ port' # "open"
    <2>1. CASE phase = "functors" /\ CloseBegins /\ phase' = "destroy"
      <3>1. /\ port' = "closing" /\ peer' = "none"
            /\ UNCHANGED <<uses, readable, tree, data, attn, ops, completed, errors>>
        BY <2>1 DEF CloseBegins, sockets
      <3>2. readable \subseteq Fd
        BY <1>0 DEF PortInv, PortTypes, PortTypeOK
      <3> QED BY <1>0, <2>1, <3>1, <3>2, PortSame
    <2>2. CASE phase = "destroy" /\ CloseDequeues /\ UNCHANGED phase
      BY <1>0, <2>2, CloseDequeuesKeeps
    <2>3. CASE phase = "destroy" /\ CloseEnds /\ phase' = "destroyed"
      <3>1. /\ port' \in {"closed", "left"}
            /\ UNCHANGED <<peer, uses, readable, tree, data, attn, ops, completed, errors>>
        BY <2>3 DEF CloseEnds, sockets
      <3>2. peer \in {"none", "open", "invalid"} /\ readable \subseteq Fd
        BY <1>0 DEF PortInv, PortTypes, PortTypeOK
      <3> QED BY <1>0, <2>3, <3>1, <3>2, PortSame
    <2> QED BY <2>1, <2>2, <2>3 DEF Destroy
  <1>3. PollerTypes'
    BY <1>0, <1>1 DEF PollerTypes
  <1>4. Phases'
    BY <1>2 DEF Phases, Polls
  <1>5. Tables' /\ Reading'
    BY <1>0, <1>1, <1>2 DEF Tables, Reading, Polls
  <1> QED BY <1>2, <1>3, <1>4, <1>5 DEF IInv

(* What the kernel does to the port.                                       *)
KernelIs == /\ PortInv' /\ UNCHANGED <<port, tree, data, attn>>
            /\ errors' = 0 => errors = 0
            /\ \A d \in Data : InKernel(ops'[d]) \subseteq InKernel(ops[d])

(* The kernel has input, or completes an operation.                        *)
LEMMA KernelKeeps == IInv /\ KernelStep => IInv'
  <1> SUFFICES ASSUME IInv, KernelStep PROVE IInv'
    OBVIOUS
  <1>0. PortInv /\ PollerTypes /\ Phases /\ Tables /\ Reading /\ errors \in Nat
    BY DEF IInv, PortInv, PortTypes
  <1>1. UNCHANGED <<number, events, index, channels, size, phase, active, deaf>>
    BY DEF KernelStep, pollerVars, loopVars, userVars
  <1>2. ASSUME NEW f \in Fd, Arrive(f) PROVE KernelIs
    <2>1. /\ readable' = readable \cup {f}
          /\ UNCHANGED <<port, peer, uses, tree, data, attn, ops, completed, errors>>
      BY <1>2 DEF Arrive
    <2>2. /\ readable' \subseteq Fd /\ peer \in {"none", "open", "invalid"}
          /\ port \in {"none", "null", "open", "closing", "closed", "left"}
          /\ port = "open" => TreeOK /\ Heard
      BY <1>0, <2>1 DEF PortInv, PortTypes, PortTypeOK
    <2>3. PortInv'
      BY <1>0, <2>1, <2>2, PortSame
    <2> QED BY <2>1, <2>3 DEF KernelIs
  <1>3. ASSUME NEW d \in Data, NEW i \in DOMAIN ops[d],
               OpCompletes(d, i) \/ OpOfClosed(d, i) \/ OpOfPeer(d, i)
        PROVE  KernelIs
    <2>1. PICK result \in Results \ {"ERROR"} : Complete(d, i, result) /\ errors' = errors
      BY <1>3 DEF OpCompletes, OpOfClosed, OpOfPeer, Result, Results
    <2> QED BY <1>0, <2>1, CompleteKeeps DEF KernelIs
  <1>4. ASSUME NEW d \in Data, NEW i \in DOMAIN ops[d], OpFails(d, i) PROVE KernelIs
    <2>1. Complete(d, i, "ERROR") /\ errors' = errors + 1
      BY <1>4 DEF OpFails
    <2>2. errors' \in Nat /\ errors' # 0 /\ "ERROR" \in Results
      BY <1>0, <2>1 DEF Results
    <2> QED BY <1>0, <2>1, <2>2, CompleteKeeps DEF KernelIs
  <1>5. KernelIs
    BY <1>2, <1>3, <1>4 DEF KernelStep
  <1>6. \A g \in Fd : tree[g] # 0 => tree[g] \in Data
    BY <1>0 DEF PortInv, PortTypes, PortTypeOK
  <1>7. PollerTypes'
    BY <1>0, <1>1 DEF PollerTypes
  <1>8. Phases'
    BY <1>0, <1>1, <1>5 DEF Phases, KernelIs
  <1>9. Tables'
    BY <1>0, <1>1, <1>5 DEF Tables, Channel, KernelIs
  <1>10. Reading'
    BY <1>0, <1>1, <1>5, <1>6 DEF Reading, KernelIs
  <1> QED BY <1>5, <1>7, <1>8, <1>9, <1>10 DEF IInv, KernelIs

(* Nothing happens.                                                        *)
LEMMA StutterKeeps == IInv /\ UNCHANGED vars => IInv'
  <1> SUFFICES ASSUME IInv, UNCHANGED vars PROVE IInv'
    OBVIOUS
  <1>0. PortInv /\ PollerTypes /\ Phases /\ Tables /\ Reading
    BY DEF IInv
  <1>1. /\ UNCHANGED <<port, peer, uses, readable, tree, data, attn, ops, completed, errors>>
        /\ UNCHANGED <<number, events, index, channels, size, phase, active, deaf>>
    BY DEF vars, portVars, sockets, pollerVars, loopVars, userVars
  <1>2. PortInv'
    BY <1>0, <1>1, PortSame DEF PortInv, PortTypes, PortTypeOK
  <1>3. PollerTypes' /\ Phases'
    BY <1>0, <1>1 DEF PollerTypes, Phases
  <1>4. Tables' /\ Reading'
    BY <1>0, <1>1 DEF Tables, Reading, Channel
  <1> QED BY <1>2, <1>3, <1>4 DEF IInv

(* The first state.                                                        *)
LEMMA InitHolds == Init => IInv
  <1> SUFFICES ASSUME Init PROVE IInv
    OBVIOUS
  <1>0. PortInit
    BY DEF Init
  <1>1. /\ PortTypes
    <2>1. PortTypeOK
      BY <1>0 DEF PortInit, PortTypeOK
    <2>2. /\ data \in [Data -> Datum \cup {Free}]
          /\ ops \in [Data -> Seq(Op)] /\ \A d \in Data : ops[d] = <<>>
          /\ completed \in Seq(Completion) /\ DOMAIN completed = {}
          /\ errors \in Nat
      BY <1>0 DEF PortInit
    <2> QED BY <2>1, <2>2 DEF PortTypes
  <1>2. Counted
    <2> SUFFICES ASSUME NEW d \in Data PROVE Counts(data[d], OpsOf(d))
      BY DEF Counted
    <2>1. Len(ops[d]) = 0
      BY <1>0 DEF PortInit
    <2>2. OfData(completed, d) = {}
      BY <1>0 DEF PortInit, OfData
    <2>3. OpsOf(d) = 0
      <3>1. Cardinality(OfData(completed, d)) = 0
        BY <2>2, FS_EmptySet
      <3>2. OpsOf(d) = Len(ops[d]) + Cardinality(OfData(completed, d))
        BY <1>1, OpsNumbered
      <3> QED BY <2>1, <3>1, <3>2
    <2>4. data[d] = Free
      BY <1>0 DEF PortInit
    <2> QED BY <2>3, <2>4 DEF Counts
  <1>3. PortInv
    BY <1>0, <1>1, <1>2 DEF PortInit, PortInv
  <1>4. PollerTypes
    BY PollerAssumption DEF Init, PollerTypes
  <1>5. Phases
    BY <1>0 DEF Init, PortInit, Phases, Polls
  <1>6. Tables /\ Reading
    BY DEF Init, Tables, Reading, Polls
  <1> QED BY <1>3, <1>4, <1>5, <1>6 DEF IInv

(* The inductive invariant.                                                *)
THEOREM InductiveInvariant == Spec => []IInv
  <1>1. IInv /\ [Next]_vars => IInv'
    <2>1. IInv /\ LoopStep => IInv'
      BY CreateKeeps, PollSubmitsKeeps, PollReturnsKeeps, LoopKeeps, DestroyKeeps
         DEF LoopStep
    <2>2. ASSUME NEW f \in Fd PROVE IInv /\ UserStep(f) => IInv'
      BY ChangeKeeps, WithdrawKeeps, RenewKeeps DEF UserStep
    <2> QED BY <2>1, <2>2, KernelKeeps, StutterKeeps DEF Next
  <1> QED BY InitHolds, <1>1, PTL DEF Spec

----------------------------------------------------------------------------
(* The tables of the poller and of the emulation agree, and nothing that   *)
(* is deleted is used again (epollPoller.cpp:71-146, epoll.cpp:95-99,      *)
(* 137-162 and 340-543): every operation, in the kernel or completed, is   *)
(* counted by data that is there.                                          *)
THEOREM TablesAlwaysAgree == Spec => []TablesAgree
  <1>1. IInv => TablesAgree
    <2> SUFFICES ASSUME IInv PROVE TablesAgree
      OBVIOUS
    <2>0. /\ PortInv /\ PortTypes /\ PortTypeOK /\ Counted
          /\ PollerTypes /\ Tables /\ completed \in Seq(Completion)
      BY DEF IInv, PortInv, PortTypes
    <2>1. \A d \in Data : d \notin Alive => ops[d] = <<>> /\ OpsOf(d) = 0
      BY <2>0, NoneOutstanding DEF Alive
    <2>2. \A i \in DOMAIN completed : completed[i].op.data \in Alive
      <3> SUFFICES ASSUME NEW i \in DOMAIN completed, completed[i].op.data \notin Alive
                   PROVE  FALSE
        OBVIOUS
      <3> DEFINE d == completed[i].op.data
      <3>1. d \in Data
        <4>1. completed[i] \in Completion
          BY <2>0
        <4>2. completed[i].op \in Op
          BY <4>1 DEF Completion
        <4> QED BY <4>2 DEF Op
      <3>2. i \in OfData(completed, d)
        BY DEF OfData
      <3>3. OpsOf(d) = 0
        BY <2>1, <3>1
      <3> HIDE DEF d
      <3>4. Cardinality(OfData(completed, d)) = 0
        BY <2>0, <3>1, <3>3, OpsNumbered
      <3>5. IsFiniteSet(OfData(completed, d))
        BY <2>0, PlacesFinite
      <3> QED BY <3>2, <3>4, <3>5, FS_EmptySet
    <2>3. \A d \in Alive : /\ data[d].opCount >= OpsOf(d)
                           /\ errors = 0 => data[d].opCount = OpsOf(d)
      BY <2>0 DEF Counted, Counts, Alive
    <2>4. port = "open" => TreeOK
      BY <2>0 DEF PortInv
    <2>5. DataOutlivesOps
      BY <2>0, <2>1, <2>2, <2>3, <2>4 DEF DataOutlivesOps, TreeOK
    <2>6. \A f \in Fd : index[f] # "kNew" <=> channels[f] = number[f]
      <3>1. \A f \in Fd : number[f] # 0
        BY <2>0 DEF PollerTypes
      <3> QED BY <2>0, <3>1 DEF Tables
    <2>7. Len(active) <= size
      BY <2>0 DEF PollerTypes
    <2> QED BY <2>0, <2>5, <2>6, <2>7 DEF TablesAgree, Tables, Polls
  <1> QED BY InductiveInvariant, <1>1, PTL

(* What poll() reports is a channel of channels_, whatever operations of   *)
(* removed channels and of earlier sockets are among the completions       *)
(* (epollPoller.cpp:58-69).                                                *)
THEOREM ReportsAreOfChannels == Spec => ReportsAreChannels
  <1>1. IInv /\ [Next]_vars =>
            [PollReturns => \A i \in DOMAIN active' :
                LET c == active'[i].user IN channels[c[1]] = c[2]]_vars
    <2> SUFFICES ASSUME IInv, [Next]_vars, PollReturns, NEW i \in DOMAIN active'
                 PROVE  LET c == active'[i].user IN channels[c[1]] = c[2]
      OBVIOUS
    <2>1. phase = "wait"
      BY DEF PollReturns
    <2>2. UNCHANGED userVars
      <3>1. CASE Next
        BY <2>1, <3>1 DEF Next, LoopStep, KernelStep, UserStep, Change, Withdraw, Renew,
                          removeChannel, NewChannel
      <3>2. CASE UNCHANGED vars
        BY <3>2 DEF vars
      <3> QED BY <3>1, <3>2
    <2>3. PICK f \in Fd : active'[i].user = Channel(f) /\ channels[f] = number[f]
      BY <2>2, PollReturnsKeeps
    <2> QED BY <2>3 DEF Channel
  <1> QED BY InductiveInvariant, <1>1, PTL DEF Spec, ReportsAreChannels

(* While the loop waits, every registered socket has an operation, in the  *)
(* kernel or completed, and every channel that has wanted to read ever     *)
(* since it was added one that asks for input, unless something has        *)
(* failed, whatever interests channels have (epoll.cpp:70-84, 164-175 and  *)
(* 423-543).                                                               *)
THEOREM ReadersAreAlwaysWatched == Spec => []ReadersAreWatched
  <1>1. IInv => ReadersAreWatched
    <2> SUFFICES ASSUME IInv, phase = "wait", errors = 0, NEW f \in Fd, tree[f] # 0
                 PROVE  \/ \E i \in DOMAIN ops[tree[f]] : Serves(ops[tree[f]][i], f)
                        \/ \E i \in DOMAIN completed : completed[i].op.data = tree[f]
      BY DEF ReadersAreWatched
    <2> DEFINE d == tree[f]
    <2>1. port = "open" /\ attn = {} /\ phase \in Polls
      BY DEF IInv, Phases, Polls
    <2>2. Awaits(data[d], d \in attn, Outstanding(d, ops[d], completed))
      BY <2>1 DEF IInv, PortInv, Heard
    <2>3. PICK o \in Outstanding(d, ops[d], completed) : TRUE
      BY <2>1, <2>2 DEF Awaits
    <2>4. \A p \in InKernel(ops[d]) : Serves(p, f)
      BY <2>1 DEF IInv, Reading, Serves
    <2>5. CASE o \in InKernel(ops[d])
      BY <2>4, <2>5 DEF InKernel
    <2>6. CASE o \in OpsAt(completed, OfData(completed, d))
      BY <2>6 DEF OpsAt, OfData
    <2> QED BY <2>3, <2>5, <2>6 DEF Outstanding
  <1> QED BY InductiveInvariant, <1>1, PTL

=============================================================================
