------------------------- MODULE TcpConnectionProof -------------------------
(***************************************************************************)
(* Theorems of TcpConnection for any number of calls, any message length,  *)
(* any high-water mark and any amount the kernel takes at a time.          *)
(***************************************************************************)
EXTENDS TcpConnection, SequenceTheorems, FiniteSetTheorems, TLAPS

In(f, seq) == \E i \in DOMAIN seq : seq[i] = f

(* handleEvent's work is left over only where it was interrupted.          *)
Control == todo # {} => pc = "dispatch" \/ (pc = "user" /\ back = "dispatch")

(* Until connectEstablished runs, nothing else can reach the connection.   *)
Fresh ==
    /\ pending = <<"connectEstablished">>
    /\ pc # "user" /\ todo = {} /\ active = 0
    /\ events = {} /\ ~inTree /\ outBuf = <<>>
    /\ otherPc = "idle" /\ ~userRef /\ ~delayed
    /\ closing = 0 /\ closes = 0 /\ ownerRef

Established ==
    /\ state = "kConnecting" => Fresh
    /\ state # "kConnecting" => ~In("connectEstablished", pending)

(* Whoever may still call holds a reference, as does what it has queued.   *)
Referenced == otherPc # "idle" \/ In("sendInLoop", pending) => userRef

(* Only a close starts the owner's part of the end, and the connection     *)
(* stays closed but for the moment in which another thread's forceClose()  *)
(* has set state_ back: its forceCloseInLoop is then still to come.        *)
Closing ==
    /\ closing > 0 \/ ~ownerRef \/ In("connectDestroyed", pending)
          \/ state = "kDisconnected" => closes > 0
    /\ closes > 0 => \/ state = "kDisconnected"
                     \/ /\ state = "kDisconnecting"
                        /\ otherPc = "queueClose" \/ In("forceClose", pending)
    /\ state = "kDisconnected" => events = {}

(* A channel that came back to its loop after the close leaves it again.   *)
Removed ==
    state = "kDisconnected" /\ closing = 0 /\ ~In("connectDestroyed", pending)
        => ~addedToLoop

(* Messages are taken whole.                                               *)
Whole == \E m \in 0 .. accepted : accepted = m * MsgLen

IInv == /\ StreamIntact /\ Whole /\ WritingIffBuffered
        /\ Control /\ Established /\ Referenced /\ Closing /\ Removed
----------------------------------------------------------------------------
(* What membership in a queue of functors becomes as it grows and shrinks. *)
LEMMA InAppend ==
    ASSUME NEW S, NEW seq \in Seq(S), NEW g \in S, NEW f
    PROVE  /\ In(f, Append(seq, g)) <=> In(f, seq) \/ f = g
           /\ seq \o <<g>> = Append(seq, g)
  <1>1. /\ Append(seq, g) \in Seq(S)
        /\ Len(Append(seq, g)) = Len(seq) + 1
        /\ \A i \in 1 .. Len(seq) : Append(seq, g)[i] = seq[i]
        /\ Append(seq, g)[Len(seq) + 1] = g
    OBVIOUS
  <1>2. DOMAIN seq = 1 .. Len(seq) /\ DOMAIN Append(seq, g) = 1 .. Len(seq) + 1
    OBVIOUS
  <1>3. Len(seq) \in Nat
    OBVIOUS
  <1>4. ASSUME In(f, Append(seq, g)) PROVE In(f, seq) \/ f = g
    <2>1. PICK i \in 1 .. Len(seq) + 1 : Append(seq, g)[i] = f
      BY <1>2, <1>4 DEF In
    <2>2. i \in 1 .. Len(seq) \/ i = Len(seq) + 1
      BY <1>3
    <2> QED BY <1>1, <1>2, <2>1, <2>2 DEF In
  <1>5. ASSUME In(f, seq) \/ f = g PROVE In(f, Append(seq, g))
    <2>1. Len(seq) + 1 \in DOMAIN Append(seq, g)
      BY <1>2, <1>3
    <2>2. \A i \in DOMAIN seq : i \in DOMAIN Append(seq, g)
      BY <1>2, <1>3
    <2> QED BY <1>1, <1>2, <1>5, <2>1, <2>2 DEF In
  <1> QED BY <1>4, <1>5

(* Nothing appears in a queue whose head is taken, and only the head goes. *)
LEMMA InTail ==
    ASSUME NEW S, NEW seq \in Seq(S), seq # <<>>, NEW f
    PROVE  /\ In(f, Tail(seq)) => In(f, seq)
           /\ In(f, seq) => f = Head(seq) \/ In(f, Tail(seq))
           /\ In(Head(seq), seq)
  <1>1. /\ Len(seq) \in Nat \ {0}
        /\ Tail(seq) \in Seq(S)
        /\ Len(Tail(seq)) = Len(seq) - 1
        /\ Head(seq) = seq[1]
        /\ \A i \in 1 .. Len(seq) - 1 : Tail(seq)[i] = seq[i + 1]
    OBVIOUS
  <1>2. DOMAIN seq = 1 .. Len(seq) /\ DOMAIN Tail(seq) = 1 .. Len(seq) - 1
    BY <1>1
  <1>3. ASSUME NEW i \in DOMAIN Tail(seq), Tail(seq)[i] = f PROVE In(f, seq)
    <2>1. i + 1 \in DOMAIN seq /\ seq[i + 1] = f
      BY <1>1, <1>2, <1>3
    <2> QED BY <2>1 DEF In
  <1>4. ASSUME NEW i \in DOMAIN seq, seq[i] = f PROVE f = Head(seq) \/ In(f, Tail(seq))
    <2>1. CASE i = 1
      BY <2>1, <1>1, <1>4
    <2>2. CASE i # 1
      <3>1. i - 1 \in DOMAIN Tail(seq) /\ Tail(seq)[i - 1] = seq[(i - 1) + 1] /\ (i - 1) + 1 = i
        BY <1>1, <1>2, <2>2
      <3> QED BY <3>1, <1>4 DEF In
    <2> QED BY <2>1, <2>2
  <1>5. 1 \in DOMAIN seq
    BY <1>1
  <1> QED BY <1>1, <1>3, <1>4, <1>5 DEF In

(* One functor more in the queue, or the head of it taken. *)
Grows(new, old, f) ==
    /\ new \in Seq(Functors) /\ Len(new) = Len(old) + 1
    /\ \A g : In(g, new) <=> In(g, old) \/ g = f

Shrinks(new, old, f) ==
    /\ old # <<>> /\ In(f, old)
    /\ new \in Seq(Functors) /\ Len(new) = Len(old) - 1
    /\ \A g : In(g, new) => In(g, old)
    /\ \A g : In(g, old) => In(g, new) \/ g = f

(* Queueing a functor keeps every other one where it was found. *)
LEMMA AppendGrows ==
    ASSUME NEW old \in Seq(Functors), NEW f \in Functors, NEW new,
           new = old \o <<f>> \/ new = Append(old, f)
    PROVE  Grows(new, old, f)
  <1>1. new = Append(old, f)
    BY InAppend
  <1>2. new \in Seq(Functors) /\ Len(new) = Len(old) + 1
    BY <1>1
  <1>3. ASSUME NEW g PROVE In(g, new) <=> In(g, old) \/ g = f
    BY <1>1, InAppend
  <1> QED BY <1>2, <1>3 DEF Grows

(* Taking the functor at the head leaves the others. *)
LEMMA TailShrinks ==
    ASSUME NEW old \in Seq(Functors), old # <<>>, NEW f, Head(old) = f,
           NEW new, new = Tail(old)
    PROVE  Shrinks(new, old, f)
  <1>1. new \in Seq(Functors) /\ Len(new) = Len(old) - 1
    OBVIOUS
  <1>2. ASSUME NEW g PROVE /\ In(g, new) => In(g, old)
                           /\ In(g, old) => In(g, new) \/ g = f
    BY InTail
  <1>3. In(f, old)
    BY InTail
  <1> QED BY <1>1, <1>2, <1>3 DEF Shrinks

(* Bytes queued behind bytes: appending does not depend on how they are grouped. *)
LEMMA BytesAssociative ==
    \A a, b, c \in Seq(Nat) : (a \o b) \o c = a \o (b \o c)
  <1> SUFFICES ASSUME NEW a \in Seq(Nat), NEW b \in Seq(Nat), NEW c \in Seq(Nat)
               PROVE  (a \o b) \o c = a \o (b \o c)
    OBVIOUS
  <1> QED BY ConcatAssociative

(* Two pieces that agree with a sequence make it up.                       *)
LEMMA Pieces ==
    ASSUME NEW b \in Seq(Nat), NEW l \in Seq(Nat), NEW r \in Seq(Nat),
           Len(b) = Len(l) + Len(r),
           \A i \in 1 .. Len(l) : l[i] = b[i],
           \A i \in 1 .. Len(r) : r[i] = b[Len(l) + i]
    PROVE  l \o r = b
  <1>1. Len(l) \in Nat /\ Len(r) \in Nat
    OBVIOUS
  <1>2. l \o r \in Seq(Nat) /\ Len(l \o r) = Len(b)
    BY ConcatProperties
  <1>3. ASSUME NEW i \in 1 .. Len(b) PROVE (l \o r)[i] = b[i]
    <2>1. (l \o r)[i] = IF i <= Len(l) THEN l[i] ELSE r[i - Len(l)]
      BY ConcatProperties
    <2>2. i <= Len(l) => i \in 1 .. Len(l)
      BY <1>1
    <2>3. ~(i <= Len(l)) => i - Len(l) \in 1 .. Len(r) /\ Len(l) + (i - Len(l)) = i
      BY <1>1
    <2> QED BY <2>1, <2>2, <2>3
  <1> QED BY <1>2, <1>3, SeqEqual

IsSplit(l, r, b, k) == l = SubSeq(b, 1, k) /\ r = SubSeq(b, k + 1, Len(b))

Rejoins(l, r, w, b) == /\ l \in Seq(Nat) /\ r \in Seq(Nat)
                       /\ l \o r = b
                       /\ (w \o l) \o r = w \o b

(* A write takes the front of what it is given to the kernel and leaves    *)
(* the rest, in order.                                                     *)
LEMMA Split ==
    ASSUME NEW w \in Seq(Nat), NEW b \in Seq(Nat), NEW k \in 0 .. Len(b),
           NEW l, NEW r, IsSplit(l, r, b, k)
    PROVE  Rejoins(l, r, w, b)
  <1>0. k \in Nat /\ Len(b) \in Nat /\ k <= Len(b)
    OBVIOUS
  <1>1. l \in Seq(Nat) /\ Len(l) = k /\ \A i \in 1 .. k : l[i] = b[i]
    <2>1. \A i \in 1 .. k : b[i] \in Nat
      BY <1>0
    <2> QED BY <2>1, <1>0, SubSeqProperties DEF IsSplit
  <1>2. r \in Seq(Nat) /\ Len(r) = Len(b) - k /\ \A i \in 1 .. Len(b) - k : r[i] = b[k + i]
    <2>1. \A i \in k + 1 .. Len(b) : b[i] \in Nat
      BY <1>0
    <2> QED BY <2>1, <1>0, SubSeqProperties DEF IsSplit
  <1>3. l \o r = b
    <2>1. Len(b) = Len(l) + Len(r)
      BY <1>0, <1>1, <1>2
    <2>2. \A i \in 1 .. Len(l) : l[i] = b[i]
      BY <1>1
    <2>3. \A i \in 1 .. Len(r) : r[i] = b[Len(l) + i]
      BY <1>1, <1>2
    <2>4. l \in Seq(Nat) /\ r \in Seq(Nat)
      BY <1>1, <1>2
    <2> QED BY <2>1, <2>2, <2>3, <2>4, Pieces
  <1>4. (w \o l) \o r = w \o (l \o r)
    BY <1>1, <1>2, BytesAssociative
  <1> QED BY <1>1, <1>2, <1>3, <1>4 DEF Rejoins

(* What a call of sendInLoop adds to the stream: a message, behind a stray *)
(* byte when writing it directly failed.                                   *)
Message(n) == [i \in 1 .. MsgLen |-> n + i]

Adds(add, n) ==
    \E e \in {0, 1} :
       /\ Len(add) = e + MsgLen
       /\ \A i \in 1 .. e + MsgLen : add[i] = IF i <= e THEN Stray ELSE n + (i - e)

(* Both forms of the addition are described by Adds. *)
LEMMA AddsEither ==
    ASSUME NEW n \in Nat, NEW add, add = Message(n) \/ add = <<Stray>> \o Message(n)
    PROVE  add \in Seq(Nat) /\ Adds(add, n)
  <1> USE BoundsAssumption
  <1>1. Message(n) \in Seq(Nat) /\ Len(Message(n)) = MsgLen /\ MsgLen \in Nat
        /\ \A i \in 1 .. MsgLen : Message(n)[i] = n + i
    <2> DEFINE f == [i \in 1 .. MsgLen |-> n + i]
    <2>0. MsgLen \in Nat
      OBVIOUS
    <2>1. f \in Seq(Nat) /\ Len(f) = MsgLen /\ \A i \in 1 .. MsgLen : f[i] = n + i
      BY <2>0
    <2> QED BY <2>0, <2>1 DEF Message
  <1>2. CASE add = Message(n)
    <2>1. \A i \in 1 .. 0 + MsgLen : add[i] = IF i <= 0 THEN Stray ELSE n + (i - 0)
      BY <1>1, <1>2
    <2> QED BY <1>1, <1>2, <2>1 DEF Adds
  <1>3. CASE add = <<Stray>> \o Message(n)
    <2> DEFINE b == Message(n)
               one == <<Stray>>
    <2>0. one \in Seq(Nat) /\ Len(one) = 1 /\ one[1] = Stray
      BY DEF Stray
    <2>a. b \in Seq(Nat) /\ Len(b) = MsgLen /\ \A i \in 1 .. MsgLen : b[i] = n + i
      BY <1>1
    <2> HIDE DEF b, one
    <2>1. /\ one \o b \in Seq(Nat) /\ Len(one \o b) = 1 + MsgLen
          /\ \A i \in 1 .. 1 + MsgLen : (one \o b)[i] = IF i <= 1 THEN one[i] ELSE b[i - 1]
      <3>1. /\ one \o b \in Seq(Nat) /\ Len(one \o b) = Len(one) + Len(b)
            /\ \A i \in 1 .. Len(one) + Len(b) :
                  (one \o b)[i] = IF i <= Len(one) THEN one[i] ELSE b[i - Len(one)]
        BY <2>0, <2>a, ConcatProperties
      <3> QED BY <2>0, <2>a, <3>1
    <2>2. \A i \in 1 .. 1 + MsgLen : (one \o b)[i] = IF i <= 1 THEN Stray ELSE n + (i - 1)
      <3> SUFFICES ASSUME NEW i \in 1 .. 1 + MsgLen
                   PROVE  (one \o b)[i] = IF i <= 1 THEN Stray ELSE n + (i - 1)
        OBVIOUS
      <3>1. CASE i <= 1
        BY <2>0, <2>1, <3>1
      <3>2. CASE ~(i <= 1)
        <4>1. i - 1 \in 1 .. MsgLen
          BY <1>1, <3>2
        <4> QED BY <2>1, <2>a, <3>2, <4>1
      <3> QED BY <3>1, <3>2
    <2>3. add = one \o b
      BY <1>3 DEF one, b
    <2> QED BY <2>1, <2>2, <2>3 DEF Adds
  <1> QED BY <1>2, <1>3

(* The number of bytes taken stays a multiple of the message length.       *)
LEMMA NextMultiple ==
    ASSUME NEW n \in Nat, NEW m \in 0 .. n, n = m * MsgLen
    PROVE  m + 1 \in 0 .. n + MsgLen /\ n + MsgLen = (m + 1) * MsgLen
  <1>0. MsgLen \in Nat \ {0}
    BY BoundsAssumption
  <1>1. m + 1 \in 0 .. n + MsgLen
    BY <1>0
  <1>2. (m + 1) * MsgLen = m * MsgLen + MsgLen
    BY <1>0
  <1> QED BY <1>1, <1>2

(* The next message starts where the last has ended.                       *)
LEMMA StartsGrow ==
    ASSUME NEW n \in Nat, NEW m \in 0 .. n, n = m * MsgLen
    PROVE  /\ n + 1 \in MessageStarts(n + MsgLen)
           /\ MessageStarts(n) \subseteq MessageStarts(n + MsgLen)
  <1> DEFINE q == n + MsgLen
  <1>1. \A k \in 0 .. n : k \in 0 .. q
    BY BoundsAssumption
  <1>2. m \in 0 .. q
    BY <1>1
  <1> HIDE DEF q
  <1>3. n + 1 \in MessageStarts(q)
    BY <1>2 DEF MessageStarts
  <1>4. MessageStarts(n) \subseteq MessageStarts(q)
    BY <1>1 DEF MessageStarts
  <1> QED BY <1>3, <1>4 DEF q

(* The stream stays in order as a message, with or without the stray byte, *)
(* comes behind it.                                                        *)
LEMMA StreamGrows ==
    ASSUME NEW n \in Nat, n + 1 \in MessageStarts(n + MsgLen),
           MessageStarts(n) \subseteq MessageStarts(n + MsgLen),
           NEW lost, lost \subseteq 0 .. n,
           NEW s \in Seq(Nat), Intact(s, n, lost),
           NEW add \in Seq(Nat), Adds(add, n)
    PROVE  Intact(s \o add, n + MsgLen, lost)
  <1> DEFINE L == Len(s)
             t == s \o add
             q == n + MsgLen
  <1>0. MsgLen \in Nat \ {0} /\ L \in Nat /\ q \in Nat /\ Stray = 0
    BY BoundsAssumption DEF Stray
  <1>1. PICK e \in {0, 1} :
           /\ Len(add) = e + MsgLen
           /\ \A i \in 1 .. e + MsgLen : add[i] = IF i <= e THEN 0 ELSE n + (i - e)
    BY <1>0 DEF Adds
  <1>2. /\ t \in Seq(Nat) /\ Len(t) = L + e + MsgLen
        /\ \A i \in 1 .. L : t[i] = s[i]
        /\ \A i \in 1 .. L + e + MsgLen : ~(i <= L) => t[i] = add[i - L]
    <2>1. /\ t \in Seq(Nat) /\ Len(t) = L + Len(add)
          /\ \A i \in 1 .. L + Len(add) : t[i] = IF i <= L THEN s[i] ELSE add[i - L]
      BY ConcatProperties
    <2>2. Len(add) = e + MsgLen /\ L + Len(add) = L + e + MsgLen
      BY <1>0, <1>1
    <2> HIDE DEF t
    <2>3. t \in Seq(Nat) /\ Len(t) = L + e + MsgLen
      BY <2>1, <2>2
    <2>4. \A i \in 1 .. L + e + MsgLen : t[i] = IF i <= L THEN s[i] ELSE add[i - L]
      BY <2>1, <2>2
    <2>5. \A i \in 1 .. L : i \in 1 .. L + e + MsgLen /\ i <= L
      BY <1>0, <1>1
    <2> QED BY <2>3, <2>4, <2>5
  <1>3. \A i \in 1 .. L + e + MsgLen :
           ~(i <= L) => t[i] = IF i <= L + e THEN 0 ELSE n + (i - L - e)
    <2> HIDE DEF t
    <2> SUFFICES ASSUME NEW i \in 1 .. L + e + MsgLen, ~(i <= L)
                 PROVE  t[i] = IF i <= L + e THEN 0 ELSE n + (i - L - e)
      OBVIOUS
    <2>1. i - L \in 1 .. e + MsgLen
      BY <1>0
    <2>2. t[i] = IF i - L <= e THEN 0 ELSE n + ((i - L) - e)
      BY <1>1, <1>2, <2>1
    <2> QED BY <1>0, <2>2
  <1>4. DOMAIN t = 1 .. L + e + MsgLen /\ DOMAIN s = 1 .. L
    BY <1>2
  <1> HIDE DEF t
  <1>5. /\ {s[i] : i \in DOMAIN s} \ {0} = (1 .. n) \ lost
        /\ \A i, j \in DOMAIN s : i < j => s[i] = 0 \/ s[j] = 0 \/ s[i] < s[j]
        /\ \A i \in 1 .. L - 1 :
              s[i] = 0 => s[i + 1] = 0 \/ s[i + 1] \in MessageStarts(n)
    BY <1>0 DEF Intact
  <1>6. \A i \in 1 .. L : s[i] = 0 \/ s[i] \in 1 .. n
    BY <1>4, <1>5
  <1>7. {t[i] : i \in DOMAIN t} \ {0} = (1 .. q) \ lost
    <2>1. ASSUME NEW x \in {t[i] : i \in DOMAIN t} \ {0} PROVE x \in (1 .. q) \ lost
      <3>1. PICK i \in 1 .. L + e + MsgLen : x = t[i]
        BY <1>4, <2>1
      <3>2. CASE i <= L
        <4>1. i \in DOMAIN s /\ x = s[i]
          BY <1>0, <1>2, <1>4, <3>1, <3>2
        <4>2. x \in (1 .. n) \ lost
          BY <1>5, <2>1, <4>1
        <4> QED BY <1>0, <4>2
      <3>3. CASE ~(i <= L)
        <4>1. x = n + (i - L - e) /\ ~(i <= L + e)
          BY <1>3, <2>1, <3>1, <3>3
        <4>2. x \in n + 1 .. q
          BY <1>0, <1>1, <3>1, <4>1
        <4>3. x \notin 0 .. n /\ x \in 1 .. q
          BY <1>0, <4>2
        <4> QED BY <4>3
      <3> QED BY <3>2, <3>3
    <2>2. ASSUME NEW x \in (1 .. q) \ lost PROVE x \in {t[i] : i \in DOMAIN t} \ {0}
      <3>1. CASE x \in 1 .. n
        <4>1. x \in {s[i] : i \in DOMAIN s}
          BY <1>5, <2>2, <3>1
        <4>2. PICK i \in 1 .. L : x = s[i]
          BY <1>4, <4>1
        <4>3. i \in DOMAIN t /\ t[i] = x
          BY <1>0, <1>2, <1>4, <4>2
        <4> QED BY <2>2, <4>3
      <3>2. CASE x \notin 1 .. n
        <4>1. x - n \in 1 .. MsgLen
          BY <1>0, <2>2, <3>2
        <4> DEFINE i == L + e + (x - n)
        <4>2. i \in 1 .. L + e + MsgLen /\ ~(i <= L) /\ ~(i <= L + e) /\ n + (i - L - e) = x
          BY <1>0, <4>1
        <4> HIDE DEF i
        <4>3. i \in DOMAIN t /\ t[i] = x
          BY <1>3, <1>4, <4>2
        <4> QED BY <2>2, <4>3
      <3> QED BY <3>1, <3>2
    <2> QED BY <2>1, <2>2
  <1>8. ASSUME NEW i \in DOMAIN t, NEW j \in DOMAIN t, i < j
        PROVE  t[i] = 0 \/ t[j] = 0 \/ t[i] < t[j]
    <2>0. i \in 1 .. L + e + MsgLen /\ j \in 1 .. L + e + MsgLen
      BY <1>4
    <2>1. CASE j <= L
      <3>1. i \in DOMAIN s /\ j \in DOMAIN s /\ t[i] = s[i] /\ t[j] = s[j]
        BY <1>0, <1>2, <1>4, <1>8, <2>0, <2>1
      <3> QED BY <1>5, <1>8, <3>1
    <2>2. CASE i <= L /\ ~(j <= L)
      <3>1. i \in 1 .. L /\ t[i] = s[i]
        BY <1>0, <1>2, <2>0, <2>2
      <3>2. t[i] = 0 \/ t[i] \in 1 .. n
        BY <1>6, <3>1
      <3>3. t[j] = 0 \/ (t[j] = n + (j - L - e) /\ ~(j <= L + e))
        BY <1>3, <2>0, <2>2
      <3> QED BY <1>0, <2>0, <3>2, <3>3
    <2>3. CASE ~(i <= L)
      <3>1. t[i] = 0 \/ t[i] = n + (i - L - e)
        BY <1>3, <2>0, <2>3
      <3>2. t[j] = 0 \/ t[j] = n + (j - L - e)
        <4>1. ~(j <= L)
          BY <1>0, <1>8, <2>0, <2>3
        <4> QED BY <1>3, <2>0, <4>1
      <3> QED BY <1>0, <1>1, <1>8, <2>0, <3>1, <3>2
    <2> QED BY <2>1, <2>2, <2>3
  <1>9. ASSUME NEW i \in 1 .. Len(t) - 1, t[i] = 0
        PROVE  t[i + 1] = 0 \/ t[i + 1] \in MessageStarts(q)
    <2>0. i \in 1 .. L + e + MsgLen /\ i + 1 \in 1 .. L + e + MsgLen
      BY <1>0, <1>2
    <2>1. CASE i + 1 <= L
      <3>1. i \in 1 .. L - 1 /\ i \in 1 .. L /\ i + 1 \in 1 .. L
        BY <1>0, <1>1, <2>0, <2>1
      <3>a. t[i] = s[i] /\ t[i + 1] = s[i + 1]
        BY <1>2, <3>1
      <3>2. s[i + 1] = 0 \/ s[i + 1] \in MessageStarts(n)
        BY <1>5, <1>9, <3>1, <3>a
      <3> QED BY <3>a, <3>2
    <2>2. CASE ~(i + 1 <= L)
      <3>1. t[i + 1] = IF i + 1 <= L + e THEN 0 ELSE n + ((i + 1) - L - e)
        BY <1>3, <2>0, <2>2
      <3>2. CASE i + 1 <= L + e
        BY <3>1, <3>2
      <3>3. CASE ~(i + 1 <= L + e)
        <4>1. i <= L + e
          <5>1. ASSUME ~(i <= L + e) PROVE FALSE
            <6>1. t[i] = n + (i - L - e) /\ i - L - e >= 1
              BY <1>0, <1>3, <2>0, <5>1
            <6> QED BY <1>0, <1>9, <6>1
          <5> QED BY <5>1
        <4>2. t[i + 1] = n + 1
          <5>1. i + 1 = L + e + 1
            BY <1>0, <1>1, <2>0, <3>3, <4>1
          <5>2. (i + 1) - L - e = 1
            BY <1>0, <1>1, <5>1
          <5> QED BY <3>1, <3>3, <5>2
        <4> QED BY <4>2
      <3> QED BY <3>2, <3>3
    <2> QED BY <2>1, <2>2
  <1> QED BY <1>0, <1>7, <1>8, <1>9 DEF Intact, t

(* The stream stays in order without its end, when that counts as lost.    *)
LEMMA StreamCut ==
    ASSUME NEW n \in Nat, NEW lost, lost \subseteq 0 .. n,
           NEW w \in Seq(Nat), NEW b \in Seq(Nat), Intact(w \o b, n, lost),
           NEW gone, \A x : x \in gone <=> In(x, b)
    PROVE  Intact(w, n, lost \cup gone) /\ lost \cup gone \subseteq 0 .. n
  <1> DEFINE now == lost \cup gone
             t == w \o b
             L == Len(w)
             M == Len(b)
  <1>0. L \in Nat /\ M \in Nat /\ Stray = 0 /\ DOMAIN w = 1 .. L /\ DOMAIN b = 1 .. M
    BY DEF Stray
  <1>1. /\ t \in Seq(Nat) /\ Len(t) = L + M /\ DOMAIN t = 1 .. L + M
        /\ \A i \in 1 .. L + M : t[i] = IF i <= L THEN w[i] ELSE b[i - L]
    BY ConcatProperties
  <1> HIDE DEF t
  <1>2. /\ {t[i] : i \in DOMAIN t} \ {0} = (1 .. n) \ lost
        /\ \A i, j \in DOMAIN t : i < j => t[i] = 0 \/ t[j] = 0 \/ t[i] < t[j]
        /\ \A i \in 1 .. L + M - 1 :
              t[i] = 0 => t[i + 1] = 0 \/ t[i + 1] \in MessageStarts(n)
    <2>1. Intact(t, n, lost) /\ Len(t) - 1 = L + M - 1
      BY <1>0, <1>1 DEF t
    <2> QED BY <1>0, <2>1 DEF Intact
  <1>3. \A i \in 1 .. L : i \in DOMAIN t /\ t[i] = w[i]
    BY <1>0, <1>1
  <1>4. \A i \in 1 .. M : L + i \in DOMAIN t /\ t[L + i] = b[i]
    <2> SUFFICES ASSUME NEW i \in 1 .. M PROVE L + i \in DOMAIN t /\ t[L + i] = b[i]
      OBVIOUS
    <2>1. L + i \in 1 .. L + M /\ ~(L + i <= L) /\ (L + i) - L = i
      BY <1>0
    <2> QED BY <1>1, <2>1
  <1>5. \A i \in 1 .. M : b[i] \in 0 .. n
    <2> SUFFICES ASSUME NEW i \in 1 .. M PROVE b[i] \in 0 .. n
      OBVIOUS
    <2>1. t[L + i] = 0 \/ t[L + i] \in 1 .. n
      BY <1>2, <1>4
    <2> QED BY <1>4, <2>1
  <1>6. now \subseteq 0 .. n
    BY <1>0, <1>5 DEF In
  <1>7. {w[i] : i \in DOMAIN w} \ {0} = (1 .. n) \ now
    <2>1. ASSUME NEW x \in {w[i] : i \in DOMAIN w} \ {0} PROVE x \in (1 .. n) \ now
      <3>1. PICK i \in 1 .. L : x = w[i]
        BY <1>0, <2>1
      <3>2. t[i] = x /\ i \in DOMAIN t
        BY <1>3, <3>1
      <3>3. x \in (1 .. n) \ lost
        BY <1>2, <2>1, <3>2
      <3>4. ASSUME NEW j \in 1 .. M, b[j] = x PROVE FALSE
        <4>1. L + j \in DOMAIN t /\ t[L + j] = x /\ i < L + j
          BY <1>0, <1>4, <3>4
        <4>2. t[i] = 0 \/ t[L + j] = 0 \/ t[i] < t[L + j]
          BY <1>2, <3>2, <4>1
        <4>3. x \in Nat /\ x # 0
          BY <2>1, <3>3
        <4> QED BY <3>2, <4>1, <4>2, <4>3
      <3> QED BY <1>0, <3>3, <3>4 DEF In
    <2>2. ASSUME NEW x \in (1 .. n) \ now PROVE x \in {w[i] : i \in DOMAIN w} \ {0}
      <3>1. x \in {t[i] : i \in DOMAIN t}
        BY <1>2, <2>2
      <3>2. PICK i \in 1 .. L + M : x = t[i]
        BY <1>1, <3>1
      <3>3. i <= L
        <4> SUFFICES ASSUME ~(i <= L) PROVE FALSE
          OBVIOUS
        <4>1. i - L \in 1 .. M /\ t[i] = b[i - L]
          BY <1>0, <1>1
        <4> QED BY <1>0, <2>2, <3>2, <4>1 DEF In
      <3>4. i \in 1 .. L
        BY <1>0, <3>2, <3>3
      <3>5. i \in DOMAIN w /\ w[i] = x
        BY <1>0, <1>3, <3>2, <3>4
      <3> QED BY <2>2, <3>5
    <2> QED BY <2>1, <2>2
  <1>8. \A i, j \in DOMAIN w : i < j => w[i] = 0 \/ w[j] = 0 \/ w[i] < w[j]
    BY <1>0, <1>2, <1>3
  <1>9. ASSUME NEW i \in 1 .. L - 1, w[i] = 0
        PROVE  w[i + 1] = 0 \/ w[i + 1] \in MessageStarts(n)
    <2>1. i \in 1 .. L /\ i + 1 \in 1 .. L /\ i \in 1 .. L + M - 1
      BY <1>0
    <2> QED BY <1>2, <1>3, <1>9, <2>1
  <1> QED BY <1>0, <1>6, <1>7, <1>8, <1>9 DEF Intact

(* The relation of the well-foundedness theorem is the order on the naturals. *)
LEMMA Below == \A n, m \in Nat : n < m <=> <<n, m>> \in OpToRel(<, Nat)
  BY DEF OpToRel

(* Every set of numbers has a least: how a claim about all of them is proved by induction. *)
LEMMA LeastElement ==
    ASSUME NEW T, T \subseteq Nat, T # {}
    PROVE  \E x \in T : \A y \in T : ~(y < x)
  <1>1. PICK x \in T : \A y \in T : <<y, x>> \notin OpToRel(<, Nat)
    BY NatLessThanWellFounded, WFMin
  <1> QED BY <1>1, Below

(* The recursion in Those is a definition. *)
Filter(f, seq, chosen, n) ==
    f = [i \in 0 .. n |-> IF i = 0 THEN <<>>
                          ELSE IF i \in chosen THEN Append(f[i - 1], seq[i]) ELSE f[i - 1]]

(* Such a function exists for every length, by the least length without one. *)
LEMMA FilterExists ==
    ASSUME NEW seq, NEW chosen
    PROVE  \A n \in Nat : \E f : Filter(f, seq, chosen, n)
  <1> DEFINE Bad == {n \in Nat : ~ \E f : Filter(f, seq, chosen, n)}
  <1> SUFFICES ASSUME Bad # {} PROVE FALSE
    OBVIOUS
  <1>1. PICK n \in Bad : \A y \in Bad : ~(y < n)
    BY LeastElement
  <1>2. CASE n = 0
    <2> DEFINE f == [i \in 0 .. 0 |-> <<>>]
    <2>1. Filter(f, seq, chosen, 0)
      BY DEF Filter
    <2> QED BY <1>1, <1>2, <2>1
  <1>3. CASE n # 0
    <2>1. n \in Nat /\ n - 1 \in Nat /\ n - 1 < n /\ n - 1 \notin Bad
      BY <1>1, <1>3
    <2>2. PICK g : Filter(g, seq, chosen, n - 1)
      BY <2>1
    <2> DEFINE f == [i \in 0 .. n |-> IF i < n THEN g[i]
                       ELSE IF i \in chosen THEN Append(g[i - 1], seq[i]) ELSE g[i - 1]]
    <2> HIDE DEF Bad
    <2>3. ASSUME NEW i \in 0 .. n - 1
          PROVE  g[i] = IF i = 0 THEN <<>>
                        ELSE IF i \in chosen THEN Append(g[i - 1], seq[i]) ELSE g[i - 1]
      BY <2>2 DEF Filter
    <2>4. ASSUME NEW i \in 0 .. n
          PROVE  f[i] = IF i = 0 THEN <<>>
                        ELSE IF i \in chosen THEN Append(f[i - 1], seq[i]) ELSE f[i - 1]
      <3>1. CASE i < n
        <4>1. i \in 0 .. n - 1 /\ f[i] = g[i]
          BY <2>1, <3>1
        <4>2. i # 0 => i - 1 \in 0 .. n /\ i - 1 < n /\ f[i - 1] = g[i - 1]
          BY <2>1, <3>1
        <4> HIDE DEF f
        <4> QED BY <4>1, <4>2, <2>3
      <3>2. CASE i = n
        <4>1. f[i] = IF i \in chosen THEN Append(g[i - 1], seq[i]) ELSE g[i - 1]
          BY <2>1, <3>2
        <4>2. i - 1 \in 0 .. n /\ i - 1 < n /\ f[i - 1] = g[i - 1]
          BY <2>1, <3>2, <1>3
        <4> HIDE DEF f
        <4> QED BY <4>1, <4>2, <3>2, <1>3
      <3> QED BY <3>1, <3>2, <2>1
    <2>5. Filter(f, seq, chosen, n)
      <3> DEFINE h == [i \in 0 .. n |-> IF i = 0 THEN <<>>
                          ELSE IF i \in chosen THEN Append(f[i - 1], seq[i]) ELSE f[i - 1]]
      <3>1. \A i \in 0 .. n : f[i] = h[i]
        BY <2>4
      <3>2. f = h
        BY <3>1
      <3> HIDE DEF f
      <3> QED BY <3>2 DEF Filter
    <2> QED BY <2>5, <1>1 DEF Bad
  <1> QED BY <1>2, <1>3

(* What Those picks is the value such a function has at the end. *)
LEMMA ThoseUnfold ==
    ASSUME NEW S, NEW seq \in Seq(S), NEW chosen
    PROVE  \E f : Filter(f, seq, chosen, Len(seq)) /\ Those(seq, chosen) = f[Len(seq)]
  <1> DEFINE f == CHOOSE g : Filter(g, seq, chosen, Len(seq))
  <1>1. Len(seq) \in Nat
    OBVIOUS
  <1>2. Filter(f, seq, chosen, Len(seq))
    BY <1>1, FilterExists
  <1>3. Those(seq, chosen) = f[Len(seq)]
    BY DEF Those, Filter
  <1> QED BY <1>2, <1>3

(* What is picked from a sequence is a sequence of the same type, no longer than it. *)
LEMMA ThoseType ==
    ASSUME NEW S, NEW seq \in Seq(S), NEW chosen
    PROVE  Those(seq, chosen) \in Seq(S)
  <1>1. PICK f : Filter(f, seq, chosen, Len(seq)) /\ Those(seq, chosen) = f[Len(seq)]
    BY ThoseUnfold
  <1> DEFINE Bad == {n \in 0 .. Len(seq) : f[n] \notin Seq(S)}
  <1>2. Bad = {}
    <2> SUFFICES ASSUME Bad # {} PROVE FALSE
      OBVIOUS
    <2>0. Bad \subseteq Nat
      OBVIOUS
    <2>1. PICK n \in Bad : \A y \in Bad : ~(y < n)
      BY <2>0, LeastElement
    <2>2. n \in 0 .. Len(seq) /\ f[n] \notin Seq(S)
      OBVIOUS
    <2>3. f[n] = IF n = 0 THEN <<>>
                 ELSE IF n \in chosen THEN Append(f[n - 1], seq[n]) ELSE f[n - 1]
      BY <1>1, <2>2 DEF Filter
    <2>4. CASE n = 0
      BY <2>2, <2>3, <2>4
    <2>5. CASE n # 0
      <3>1. n - 1 \in 0 .. Len(seq) /\ n - 1 < n /\ seq[n] \in S
        BY <2>2, <2>5
      <3>2. f[n - 1] \in Seq(S)
        BY <3>1, <2>1
      <3> HIDE DEF Bad
      <3> QED BY <2>2, <2>3, <2>5, <3>1, <3>2
    <2> QED BY <2>4, <2>5
  <1>3. Len(seq) \in 0 .. Len(seq)
    OBVIOUS
  <1> QED BY <1>1, <1>2, <1>3
----------------------------------------------------------------------------
(* The types, by the part of the system that changes them.                 *)
Operation == [gen : Nat, events : SUBSET {"IN", "OUT"}]

ChannelStateOK ==
    /\ inTree \in BOOLEAN /\ attn \in BOOLEAN
    /\ registered \subseteq {"IN", "OUT"}
    /\ generation \in Nat
    /\ ops \in Seq(Operation)
    /\ events \subseteq {"IN", "OUT"}
    /\ index \in {"kNew", "kAdded", "kDeleted"}
    /\ addedToLoop \in BOOLEAN

ReportOK ==
    /\ active \in Nat
    /\ revents \subseteq {"IN", "OUT", "HUP", "ERR"}
    /\ todo \subseteq revents

LoopOK ==
    /\ pc \in {"poll", "timers", "dispatch", "functors", "user"}
    /\ back \in {"poll", "dispatch", "functors"}
    /\ state \in {"kConnecting", "kConnected", "kDisconnecting", "kDisconnected"}
    /\ pending \in Seq(Functors)
    /\ batch \in 0 .. Len(pending)
    /\ {delayed, userRef, ownerRef} \subseteq BOOLEAN
    /\ otherPc \in {"idle", "queue", "set", "queueClose"}
    /\ {closes, destroyed, closing} \subseteq Nat

BytesOK ==
    /\ outBuf \in Seq(Nat) /\ wire \in Seq(Nat)
    /\ {inAvail, peerFin, reset, finSent} \subseteq BOOLEAN
    /\ room \in 0 .. RoomCap
    /\ accepted \in Nat /\ dropped \subseteq 0 .. accepted

(* Together the four parts are the type invariant the runs check. *)
LEMMA TypeParts == TypeOK <=> ChannelStateOK /\ ReportOK /\ LoopOK /\ BytesOK
  BY DEF TypeOK, ChannelTypeOK, EpollTypeOK, Operation, ChannelStateOK, ReportOK, LoopOK, BytesOK

(* A queued poll operation has its type. *)
LEMMA OpType ==
    ASSUME NEW g \in Nat, NEW ev \in SUBSET {"IN", "OUT"}
    PROVE  Op(g, ev) \in Operation
  BY DEF Op, Operation

(* enable*, disable* and disableAll leave the channel and its node well typed. *)
LEMMA SetEventsType ==
    ASSUME ChannelStateOK, NEW ev \in SUBSET {"IN", "OUT"}, SetEvents(ev)
    PROVE  ChannelStateOK' /\ events' = ev /\ addedToLoop' = TRUE
  <1>1. generation + 1 \in Nat
    BY DEF ChannelStateOK
  <1>2. CASE index # "kAdded"
    <2>1. Op(1, ev) \in Operation
      BY OpType
    <2>2. /\ inTree' = TRUE /\ registered' = ev /\ generation' = 1
          /\ ops' = <<Op(1, ev)>> /\ attn' = attn
          /\ index' = "kAdded" /\ events' = ev /\ addedToLoop' = TRUE
      BY <1>2 DEF SetEvents, epoll_add
    <2>3. ops' \in Seq(Operation)
      BY <2>1, <2>2
    <2> QED BY <2>2, <2>3 DEF ChannelStateOK
  <1>3. CASE index = "kAdded" /\ ev = {}
    <2>2. /\ inTree' = FALSE /\ registered' = {} /\ generation' = 0
          /\ ops' = <<>> /\ attn' = FALSE
          /\ index' = "kDeleted" /\ events' = ev /\ addedToLoop' = TRUE
      BY <1>3 DEF SetEvents, epoll_del
    <2>3. ops' \in Seq(Operation)
      BY <2>2
    <2> QED BY <2>2, <2>3 DEF ChannelStateOK
  <1>4. CASE index = "kAdded" /\ ev # {}
    <2>1. Op(generation + 1, ev) \in Operation
      BY <1>1, OpType
    <2>2. /\ inTree' = inTree /\ registered' = ev /\ generation' = generation + 1
          /\ ops' = Append(ops, Op(generation + 1, ev)) /\ attn' = attn
          /\ index' = "kAdded" /\ events' = ev /\ addedToLoop' = TRUE
      BY <1>4 DEF SetEvents, epoll_mod
    <2>3. inTree' \in BOOLEAN /\ attn' \in BOOLEAN /\ addedToLoop' \in BOOLEAN
      BY <2>2 DEF ChannelStateOK
    <2>4. generation' \in Nat /\ ops' \in Seq(Operation) /\ registered' \subseteq {"IN", "OUT"}
      BY <1>1, <2>1, <2>2 DEF ChannelStateOK
    <2> QED BY <2>2, <2>3, <2>4 DEF ChannelStateOK
  <1> QED BY <1>2, <1>3, <1>4

(* remove takes the channel off its loop. *)
LEMMA RemoveType ==
    ASSUME ChannelStateOK, remove \/ disableAllAndRemove
    PROVE  ChannelStateOK' /\ addedToLoop' = FALSE /\ (events' = events \/ events' = {})
  <1> DEFINE Gone == /\ inTree' = FALSE /\ registered' = {} /\ generation' = 0
                     /\ ops' = <<>> /\ attn' = FALSE
             Same == UNCHANGED <<inTree, registered, generation, ops, attn>>
  <1>1. Gone \/ Same
    BY DEF remove, disableAllAndRemove, epoll_del, epollVars
  <1>2. addedToLoop' = FALSE /\ index' = "kNew" /\ (events' = events \/ events' = {})
    BY DEF remove, disableAllAndRemove
  <1>3. CASE Gone
    <2>1. inTree' \in BOOLEAN /\ attn' \in BOOLEAN /\ addedToLoop' \in BOOLEAN
      BY <1>2, <1>3
    <2>2. ops' \in Seq(Operation)
      BY <1>3
    <2> QED BY <1>2, <1>3, <2>1, <2>2 DEF ChannelStateOK
  <1>4. CASE Same
    BY <1>2, <1>4 DEF ChannelStateOK
  <1> QED BY <1>1, <1>2, <1>3, <1>4

(* What epoll_wait makes of the queued operations and reports is well typed. *)
LEMMA WaitType ==
    ASSUME ChannelStateOK, ReportOK, todo = {}, todo' = {},
           NEW socket, epoll_wait(socket), UNCHANGED <<events, index, addedToLoop>>
    PROVE  ChannelStateOK' /\ ReportOK' /\ inTree' = inTree
  <1> DEFINE resubmits == attn /\ ops = <<>>
             now       == IF resubmits THEN generation + 1 ELSE generation
             asked     == IF resubmits THEN <<Op(now, registered)>> ELSE ops
             complete  == {i \in DOMAIN asked : Seen(asked[i], socket) # {}}
             done      == Those(asked, complete)
             reports   == {i \in DOMAIN done : \E j \in 1 .. i : done[j].gen >= now}
  <1>1. now \in Nat
    BY DEF ChannelStateOK
  <1>2. Op(now, registered) \in Operation
    <2> HIDE DEF now
    <2> QED BY <1>1, OpType DEF ChannelStateOK
  <1>3. asked \in Seq(Operation)
    <2>1. ops \in Seq(Operation)
      BY DEF ChannelStateOK
    <2>2. <<Op(now, registered)>> \in Seq(Operation)
      <3> HIDE DEF now
      <3> QED BY <1>2
    <2>3. asked = ops \/ asked = <<Op(now, registered)>>
      OBVIOUS
    <2> HIDE DEF now, asked
    <2> QED BY <2>1, <2>2, <2>3
  <1>4. /\ ops' = Those(asked, DOMAIN asked \ complete)
        /\ active' = Cardinality(reports)
        /\ UNCHANGED inTree
        /\ IF reports = {}
           THEN /\ generation' = now
                /\ attn' = FALSE
                /\ revents' = {}
                /\ UNCHANGED registered
           ELSE /\ generation' = 0
                /\ attn' = TRUE
                /\ revents' = Seen(done[Len(done)], socket)
                /\ registered' = registered \ {"OUT"}
    BY DEF epoll_wait
  <1> HIDE DEF resubmits, asked, complete, now
  <1>5. done \in Seq(Operation) /\ ops' \in Seq(Operation)
    BY <1>3, <1>4, ThoseType
  <1>6. active' \in Nat
    <2> HIDE DEF done
    <2>1. DOMAIN done = 1 .. Len(done) /\ Len(done) \in Nat
      BY <1>5
    <2>2. IsFiniteSet(DOMAIN done)
      BY <2>1, FS_Interval
    <2>3. IsFiniteSet(reports)
      BY <2>2, FS_Subset
    <2> QED BY <2>3, <1>4, FS_CardinalityType
  <1>7. revents' \subseteq {"IN", "OUT", "HUP", "ERR"}
    <2>1. Seen(done[Len(done)], socket) \subseteq {"IN", "OUT", "HUP", "ERR"}
      BY DEF Seen
    <2> HIDE DEF done, reports
    <2> QED BY <1>4, <2>1
  <1>8. /\ generation' \in Nat /\ attn' \in BOOLEAN
        /\ registered' \subseteq {"IN", "OUT"} /\ inTree' = inTree
    <2> HIDE DEF done, reports
    <2>1. attn' = FALSE \/ attn' = TRUE
      BY <1>4
    <2>2. generation' \in Nat
      BY <1>1, <1>4
    <2>3. registered' \subseteq registered
      BY <1>4
    <2>4. inTree' = inTree
      BY <1>4
    <2> QED BY <2>1, <2>2, <2>3, <2>4 DEF ChannelStateOK
  <1>9. ChannelStateOK'
    <2> HIDE DEF done, reports
    <2> QED BY <1>5, <1>8 DEF ChannelStateOK
  <1>10. ReportOK'
    BY <1>6, <1>7 DEF ReportOK
  <1> QED BY <1>8, <1>9, <1>10

----------------------------------------------------------------------------
InOrder == /\ Intact(wire \o outBuf, accepted, dropped)
           /\ \E m \in 0 .. accepted : accepted = m * MsgLen

(* The invariant, in the parts its proof works on.                         *)
Parts ==
    /\ ChannelStateOK /\ ReportOK
    /\ LoopOK
    /\ BytesOK /\ InOrder
    /\ WritingIffBuffered /\ Control
    /\ Established /\ Referenced
    /\ Closing /\ Removed

(* The parts are the invariant, regrouped. *)
LEMMA IInvParts == IInv <=> Parts
  BY TypeParts DEF IInv, Parts, StreamIntact, InOrder, Whole

(* What sendInLoop does to the connection, whoever called send.            *)
LEMMA SendInLoopKeeps ==
    ASSUME Parts, NEW queue \in Seq(Functors), SendInLoop(queue), dropped' = dropped,
           state \in {"kConnected", "kDisconnecting", "kDisconnected"}
    PROVE  /\ ChannelStateOK' /\ BytesOK' /\ InOrder'
           /\ pending' = queue \/ pending' = Append(queue, "callback")
           /\ state = "kDisconnected" => UNCHANGED <<channelVars, outBuf>>
           /\ (isWriting <=> outBuf # <<>>) => (isWriting' <=> outBuf' # <<>>)
           /\ UNCHANGED finSent
  <1> USE BoundsAssumption
  <1>1. ChannelStateOK /\ BytesOK /\ InOrder
    BY DEF Parts
  <1>2. CASE state = "kDisconnected"
    <2>1. pending' = queue /\ UNCHANGED <<channelVars, outBuf, kernelVars, accepted>>
      BY <1>2 DEF SendInLoop
    <2> QED
      BY <1>1, <2>1 DEF ChannelStateOK, BytesOK, channelVars, kernelVars, epollVars, isWriting, InOrder
  <1>3. CASE state # "kDisconnected"
    <2>1. PICK k \in 0 .. MsgLen :
             LET fails  == MayWriteDirectly /\ ~Writable
                 rest   == IF fails THEN FailedRest ELSE SubSeq(NewBytes, k + 1, MsgLen)
                 total  == Len(outBuf) + Len(rest)
                 notify == \/ rest = <<>>
                           \/ total >= HighWaterMark /\ Len(outBuf) < HighWaterMark
             IN  /\ IF MayWriteDirectly /\ Writable THEN k \in 1 .. room ELSE k = 0
                 /\ WriteSome(NewBytes, k)
                 /\ UNCHANGED finSent
                 /\ outBuf' = outBuf \o rest
                 /\ accepted' = accepted + MsgLen
                 /\ pending' = IF notify THEN Append(queue, "callback") ELSE queue
                 /\ EnableWriting(rest)
      BY <1>3 DEF SendInLoop
    <2> DEFINE fails == MayWriteDirectly /\ ~Writable
               left  == SubSeq(NewBytes, k + 1, MsgLen)
               rest  == IF fails THEN FailedRest ELSE left
               taken == SubSeq(NewBytes, 1, k)
    <2>2. /\ k \in Nat /\ MsgLen \in Nat \ {0} /\ RoomCap \in Nat
          /\ accepted \in Nat /\ outBuf \in Seq(Nat) /\ wire \in Seq(Nat)
      BY <1>1 DEF BytesOK
    <2>3. NewBytes \in Seq(Nat) /\ Len(NewBytes) = MsgLen /\ NewBytes = Message(accepted)
      BY <2>2 DEF NewBytes, Message
    <2>a. IsSplit(taken, left, NewBytes, k)
      BY <2>3 DEF IsSplit
    <2>b. taken \in Seq(Nat) /\ left \in Seq(Nat) /\ taken \o left = NewBytes
      <3> HIDE DEF taken, left
      <3>1. NewBytes \in Seq(Nat) /\ k \in 0 .. Len(NewBytes)
        BY <2>2, <2>3
      <3>2. Rejoins(taken, left, wire, NewBytes)
        BY <2>2, <2>a, <3>1, Split
      <3> QED BY <3>2 DEF Rejoins
    <2>c. k = 0 => left # <<>>
      <3> SUFFICES ASSUME k = 0 PROVE left # <<>>
        OBVIOUS
      <3> DEFINE bytes == NewBytes
      <3> HIDE DEF bytes
      <3>1. left = SubSeq(bytes, 1, MsgLen)
        BY DEF bytes
      <3>2. \A i \in 1 .. MsgLen : bytes[i] \in Nat
        BY <2>2 DEF bytes, NewBytes
      <3>3. 1 \in Int /\ MsgLen \in Int
        BY <2>2
      <3>4. Len(SubSeq(bytes, 1, MsgLen)) = IF 1 <= MsgLen THEN MsgLen - 1 + 1 ELSE 0
        BY <3>2, <3>3, SubSeqProperties
      <3> HIDE DEF left
      <3>5. Len(left) = MsgLen
        BY <2>2, <3>1, <3>4
      <3> QED BY <2>2, <3>5
    <2>d. /\ FailedRest = <<Stray>> \o Message(accepted)
          /\ FailedRest \in Seq(Nat) /\ FailedRest # <<>>
      <3>1. FailedRest = <<Stray>> \o Message(accepted)
        BY <2>3 DEF FailedRest
      <3> DEFINE all == <<Stray>> \o Message(accepted)
      <3> HIDE DEF all
      <3>2. all \in Seq(Nat) /\ Adds(all, accepted)
        BY <2>2, AddsEither DEF all
      <3>3. Len(all) # 0
        BY <2>2, <3>2 DEF Adds
      <3>4. all # <<>>
        BY <3>3
      <3> QED BY <3>1, <3>2, <3>4 DEF all
    <2>e. k = 0 => taken = <<>>
      BY <2>2, SubSeqEmpty
    <2>f. fails => k = 0
      BY <2>1
    <2>4. /\ taken \in Seq(Nat) /\ rest \in Seq(Nat)
          /\ \/ taken \o rest = Message(accepted)
             \/ taken \o rest = <<Stray>> \o Message(accepted)
      <3> HIDE DEF taken, left, fails
      <3>1. CASE fails
        <4>1. rest = FailedRest /\ taken = <<>>
          BY <2>e, <2>f, <3>1
        <4> HIDE DEF rest
        <4>2. taken \o rest = rest
          BY <2>d, <4>1, ConcatEmptySeq
        <4> QED BY <2>b, <2>d, <4>1, <4>2
      <3>2. CASE ~fails
        BY <2>3, <2>b, <3>2
      <3> QED BY <3>1, <3>2
    <2>5. k = 0 => rest # <<>>
      BY <2>c, <2>d
    <2>6. rest = <<>> => ~isWriting /\ outBuf = <<>>
      <3>1. k # 0 => MayWriteDirectly
        BY <2>1
      <3> HIDE DEF rest, fails, left
      <3> QED BY <2>5, <3>1 DEF MayWriteDirectly
    <2>7. /\ WriteSome(NewBytes, k) /\ outBuf' = outBuf \o rest
          /\ accepted' = accepted + MsgLen /\ EnableWriting(rest)
          /\ pending' = queue \/ pending' = Append(queue, "callback")
          /\ UNCHANGED finSent
      BY <2>1
    <2>8. room' \in 0 .. RoomCap
      <3>1. k = 0 \/ k \in 1 .. room
        BY <2>1
      <3>2. room \in 0 .. RoomCap /\ room' = room - k
        BY <1>1, <2>7 DEF BytesOK, WriteSome
      <3> QED BY <2>2, <3>1, <3>2
    <2>9. wire' = wire \o taken /\ UNCHANGED <<inAvail, peerFin, reset>>
      BY <2>7 DEF WriteSome
    <2> HIDE DEF rest, taken, left, fails
    <2>10. wire' \in Seq(Nat) /\ outBuf' \in Seq(Nat) /\ accepted' \in Nat
      BY <2>2, <2>4, <2>7, <2>9
    <2>11. BytesOK'
      <3>1. {inAvail, peerFin, reset, finSent}' \subseteq BOOLEAN
        BY <1>1, <2>7, <2>9 DEF BytesOK
      <3>2. dropped' \subseteq 0 .. accepted'
        BY <1>1, <2>2, <2>7 DEF BytesOK
      <3> QED BY <2>8, <2>10, <3>1, <3>2 DEF BytesOK
    <2>12. InOrder'
      <3>1. outBuf # <<>> => taken = <<>>
        <4>1. outBuf # <<>> => k = 0
          BY <2>1 DEF MayWriteDirectly
        <4> QED BY <2>e, <4>1
      <3>3. (wire \o taken) \o (outBuf \o rest) = (wire \o outBuf) \o (taken \o rest)
        <4>1. CASE outBuf = <<>>
          <5>1. outBuf \o rest = rest /\ wire \o outBuf = wire
            BY <2>2, <2>4, <4>1, ConcatEmptySeq
          <5>2. (wire \o taken) \o rest = wire \o (taken \o rest)
            BY <2>2, <2>4, BytesAssociative
          <5> QED BY <5>1, <5>2
        <4>2. CASE taken = <<>>
          <5>1. wire \o taken = wire /\ taken \o rest = rest
            BY <2>2, <2>4, <4>2, ConcatEmptySeq
          <5>2. (wire \o outBuf) \o rest = wire \o (outBuf \o rest)
            BY <2>2, <2>4, BytesAssociative
          <5> QED BY <5>1, <5>2
        <4> QED BY <3>1, <4>1, <4>2
      <3>4. wire' \o outBuf' = (wire \o outBuf) \o (taken \o rest)
        BY <2>7, <2>9, <3>3
      <3>5. accepted' = accepted + MsgLen /\ dropped' = dropped
        BY <2>7
      <3> DEFINE old == wire \o outBuf
                 add == taken \o rest
      <3>6. PICK m \in 0 .. accepted : accepted = m * MsgLen
        BY <1>1 DEF InOrder
      <3>7. Intact(old, accepted, dropped) /\ dropped \subseteq 0 .. accepted /\ old \in Seq(Nat)
        BY <1>1, <2>2 DEF InOrder, BytesOK
      <3>8. add = Message(accepted) \/ add = <<Stray>> \o Message(accepted)
        BY <2>4
      <3> HIDE DEF old, add
      <3>9. add \in Seq(Nat) /\ Adds(add, accepted)
        BY <2>2, <3>8, AddsEither
      <3>10. Intact(old \o add, accepted + MsgLen, dropped)
        <4>1. /\ accepted + 1 \in MessageStarts(accepted + MsgLen)
              /\ MessageStarts(accepted) \subseteq MessageStarts(accepted + MsgLen)
          BY <2>2, <3>6, StartsGrow
        <4> QED BY <2>2, <3>7, <3>9, <4>1, StreamGrows
      <3>11. Intact(wire' \o outBuf', accepted', dropped')
        BY <3>4, <3>5, <3>10 DEF old, add
      <3>12. m + 1 \in 0 .. accepted + MsgLen /\ accepted + MsgLen = (m + 1) * MsgLen
        BY <2>2, <3>6, NextMultiple
      <3> QED BY <3>5, <3>11, <3>12 DEF InOrder
    <2>13. ChannelStateOK' /\ (rest # <<>> => isWriting')
      <3>1. CASE rest # <<>> /\ ~isWriting
        <4>1. SetEvents(events \cup {"OUT"}) /\ events \cup {"OUT"} \in SUBSET {"IN", "OUT"}
          BY <1>1, <2>7, <3>1 DEF EnableWriting, ChannelStateOK
        <4>2. ChannelStateOK' /\ events' = events \cup {"OUT"}
          BY <1>1, <4>1, SetEventsType
        <4> QED BY <4>2 DEF isWriting
      <3>2. CASE ~(rest # <<>> /\ ~isWriting)
        <4>1. UNCHANGED channelVars
          BY <2>7, <3>2 DEF EnableWriting
        <4> QED BY <1>1, <3>2, <4>1 DEF ChannelStateOK, channelVars, epollVars, isWriting
      <3> QED BY <3>1, <3>2
    <2>14. (isWriting <=> outBuf # <<>>) => (isWriting' <=> outBuf' # <<>>)
      <3>1. CASE rest = <<>>
        <4>1. UNCHANGED channelVars
          BY <2>7, <3>1 DEF EnableWriting
        <4>2. outBuf' = <<>>
          BY <2>6, <2>7, <3>1
        <4> QED BY <2>6, <3>1, <4>1, <4>2 DEF channelVars, isWriting
      <3>2. CASE rest # <<>>
        <4>1. outBuf' # <<>>
          BY <2>2, <2>4, <2>7, <3>2
        <4> QED BY <2>13, <3>2, <4>1
      <3> QED BY <3>1, <3>2
    <2> QED BY <1>3, <2>7, <2>11, <2>12, <2>13, <2>14
  <1> QED BY <1>2, <1>3

(* handleWrite of a part of the buffer.                                    *)
LEMMA WriteKeeps ==
    ASSUME BytesOK, InOrder, NEW k \in 1 .. Len(outBuf), k <= room,
           WriteSome(outBuf, k), outBuf' = SubSeq(outBuf, k + 1, Len(outBuf)),
           accepted' = accepted, dropped' = dropped, finSent' \in BOOLEAN
    PROVE  BytesOK' /\ InOrder'
  <1> DEFINE front == SubSeq(outBuf, 1, k)
  <1>1. /\ outBuf \in Seq(Nat) /\ wire \in Seq(Nat) /\ k \in 0 .. Len(outBuf)
        /\ room \in 0 .. RoomCap /\ RoomCap \in Nat /\ k \in Nat
    BY BoundsAssumption DEF BytesOK
  <1>2. /\ wire' = wire \o front /\ room' = room - k
        /\ UNCHANGED <<inAvail, peerFin, reset>>
    BY DEF WriteSome
  <1>3. IsSplit(front, outBuf', outBuf, k)
    BY DEF IsSplit
  <1> HIDE DEF front
  <1>4. /\ front \in Seq(Nat) /\ outBuf' \in Seq(Nat)
        /\ (wire \o front) \o outBuf' = wire \o outBuf
    <2> DEFINE left == outBuf'
    <2>1. IsSplit(front, left, outBuf, k)
      BY <1>3
    <2> HIDE DEF left
    <2>a. wire \in Seq(Nat) /\ outBuf \in Seq(Nat) /\ k \in 0 .. Len(outBuf)
      BY <1>1
    <2>2. Rejoins(front, left, wire, outBuf)
      BY <2>a, <2>1, Split
    <2> QED BY <2>2 DEF left, Rejoins
  <1>5. wire' \in Seq(Nat)
    BY <1>1, <1>2, <1>4
  <1>6. room' \in 0 .. RoomCap
    BY <1>1, <1>2
  <1>7. {inAvail, peerFin, reset, finSent}' \subseteq BOOLEAN
    BY <1>2 DEF BytesOK
  <1>8. BytesOK'
    BY <1>4, <1>5, <1>6, <1>7 DEF BytesOK
  <1> QED BY <1>2, <1>4, <1>8 DEF InOrder

(* What handleWrite leaves: the completion callback may be queued.         *)
Kept ==
    /\ ChannelStateOK' /\ finSent' \in BOOLEAN
    /\ pending' \in Seq(Functors) /\ Len(pending') >= Len(pending)
    /\ \A g : In(g, pending') => In(g, pending) \/ g = "callback"
    /\ \A g : In(g, pending) => In(g, pending')
    /\ isWriting' <=> outBuf' # <<>>

(* The end of handleWrite keeps the channel and the queue in order.        *)
LEMMA KeepKeeps ==
    ASSUME Parts, NEW rest, Keep(rest), isWriting
    PROVE  Kept /\ outBuf' = rest
  <1> USE DEF Parts
  <1>0. outBuf' = rest
    BY DEF Keep
  <1>c. ASSUME outBuf' = <<>> PROVE Kept
    <2>0. SetEvents(events \ {"OUT"}) /\ events \ {"OUT"} \in SUBSET {"IN", "OUT"}
          /\ pending' = pending \o <<"callback">>
      BY <1>0, <1>c DEF Keep, Queue, ChannelStateOK
    <2>1. ChannelStateOK' /\ events' = events \ {"OUT"}
      BY <2>0, SetEventsType
    <2>2. Grows(pending', pending, "callback")
      <3>1. pending \in Seq(Functors) /\ "callback" \in Functors
        BY DEF LoopOK, Functors
      <3> QED BY <2>0, <3>1, AppendGrows
    <2>3. finSent' \in BOOLEAN
      BY <1>0, <1>c DEF Keep, FinishShutdown, FinAfterShutdown, BytesOK
    <2>4. Len(pending') >= Len(pending)
      BY <2>2 DEF Grows, LoopOK
    <2> QED BY <1>c, <2>1, <2>2, <2>3, <2>4 DEF Kept, isWriting, Grows
  <1>d. ASSUME outBuf' # <<>> PROVE Kept
    <2>0. UNCHANGED <<channelVars, pending, finSent>>
      BY <1>0, <1>d DEF Keep
    <2>1. ChannelStateOK' /\ isWriting'
      BY <2>0 DEF ChannelStateOK, channelVars, epollVars, isWriting
    <2>2. pending' \in Seq(Functors) /\ Len(pending') >= Len(pending)
      BY <2>0 DEF LoopOK
    <2>3. finSent' \in BOOLEAN
      BY <2>0 DEF BytesOK
    <2> QED BY <1>d, <2>0, <2>1, <2>2, <2>3 DEF Kept
  <1> QED BY <1>0, <1>c, <1>d

(* handleClose, whatever led to it.                                        *)
LEMMA HandleCloseKeeps ==
    ASSUME Parts, HandleClose
    PROVE  /\ ChannelStateOK' /\ BytesOK' /\ InOrder'
           /\ state' = "kDisconnected" /\ events' = {}
           /\ closes' \in Nat /\ closes' > 0
           /\ closing' \in Nat /\ closing' > 0
           /\ UNCHANGED <<outBuf, userRef, ownerRef, destroyed, finSent>>
  <1>1. ChannelStateOK /\ BytesOK /\ InOrder /\ LoopOK
    BY DEF Parts
  <1>2. SetEvents({}) /\ {} \in SUBSET {"IN", "OUT"}
    BY DEF HandleClose
  <1>3. ChannelStateOK' /\ events' = {}
    BY <1>1, <1>2, SetEventsType
  <1>4. UNCHANGED <<outBuf, wire, room, inAvail, peerFin, reset, finSent, accepted, dropped,
                    userRef, ownerRef, destroyed>> /\ state' = "kDisconnected"
    BY DEF HandleClose, kernelVars
  <1>5. BytesOK' /\ InOrder'
    BY <1>1, <1>4 DEF BytesOK, InOrder
  <1>6. closes' = UpToTwo(closes + 1) /\ closing' = closing + 1
    BY DEF HandleClose, TellOwner
  <1>7. closes \in Nat /\ closing \in Nat
    BY <1>1 DEF LoopOK
  <1>8. closes' \in Nat /\ closes' > 0 /\ closing' \in Nat /\ closing' > 0
    BY <1>6, <1>7 DEF UpToTwo
  <1> QED BY <1>3, <1>4, <1>5, <1>8
----------------------------------------------------------------------------
(* Every step keeps the invariant: one step of the proof for each action.  *)
LEMMA NextParts == Parts /\ [Next]_vars => Parts'
  <1> SUFFICES ASSUME Parts, [Next]_vars PROVE Parts'
    OBVIOUS
  <1> USE BoundsAssumption DEF Parts
  <1>1. CASE PollReturns
    <2>0. todo = {} /\ todo' = {} /\ pc = "poll" /\ UNCHANGED <<events, index, addedToLoop>>
      BY <1>1 DEF PollReturns, Control
    <2>1. ChannelStateOK' /\ ReportOK'
      <3>1. CASE inTree
        BY <1>1, <2>0, <3>1, WaitType DEF PollReturns
      <3>2. CASE ~inTree
        BY <1>1, <2>0, <3>2 DEF PollReturns, ChannelStateOK, ReportOK, epollVars, reportVars
      <3> QED BY <3>1, <3>2
    <2>2. LoopOK'
      BY <1>1, <2>0 DEF PollReturns, GoOn, LoopOK, refVars, histVars
    <2>3. BytesOK' /\ InOrder'
      BY <1>1, <2>0 DEF PollReturns, GoOn, BytesOK, InOrder, kernelVars,
         histVars
    <2>4. WritingIffBuffered' /\ Control'
      BY <1>1, <2>0 DEF PollReturns, GoOn, WritingIffBuffered, Control, Open,
         isWriting, isReading, LoopOK, Established, Fresh, Closing,
         reportVars, refVars, histVars
    <2>5. Established' /\ Referenced'
      <3>1. ~inTree => UNCHANGED <<inTree, active>>
        BY <1>1 DEF PollReturns, epollVars, reportVars
      <3>2. inTree' = inTree
        BY <1>1, <3>1 DEF PollReturns, epoll_wait
      <3> QED BY <1>1, <2>0, <3>1, <3>2 DEF PollReturns, GoOn, Established, Fresh, Referenced, refVars, histVars
    <2>6. Closing' /\ Removed'
      BY <1>1, <2>0 DEF PollReturns, GoOn, Closing, Removed, Established,
         Fresh, LoopOK, Referenced, Open, reportVars, refVars, histVars
    <2> QED BY <2>1, <2>2, <2>3, <2>4, <2>5, <2>6
  <1>2. CASE StartDispatch
    <2>1. ChannelStateOK' /\ ReportOK'
      BY <1>2 DEF StartDispatch, GoOn, ChannelStateOK, ReportOK, channelVars,
         reportVars, epollVars
    <2>2. LoopOK'
      BY <1>2 DEF StartDispatch, GoOn, LoopOK, refVars, histVars
    <2>3. BytesOK' /\ InOrder'
      BY <1>2 DEF StartDispatch, GoOn, BytesOK, InOrder, kernelVars, histVars
    <2>4. WritingIffBuffered' /\ Control'
      BY <1>2 DEF StartDispatch, GoOn, WritingIffBuffered, Control, Open,
         isWriting, isReading, LoopOK, Established, Fresh, Closing,
         channelVars, reportVars, refVars, histVars, epollVars
    <2>5. Established' /\ Referenced'
      BY <1>2 DEF StartDispatch, GoOn, Established, Fresh, Referenced,
         Control, LoopOK, Open, channelVars, reportVars, refVars, histVars,
         epollVars
    <2>6. Closing' /\ Removed'
      BY <1>2 DEF StartDispatch, GoOn, Closing, Removed, Established, Fresh,
         LoopOK, Referenced, Open, channelVars, reportVars, refVars, histVars,
         epollVars
    <2> QED BY <2>1, <2>2, <2>3, <2>4, <2>5, <2>6
  <1>3. CASE DelayedForceClose
    <2>0. /\ pc = "timers" /\ delayed /\ delayed' = FALSE
          /\ UNCHANGED <<channelVars, loopVars, outBuf, otherPc, refVars, kernelVars, histVars>>
      BY <1>3 DEF DelayedForceClose
    <2>a. ASSUME Open PROVE LoopOK' /\ Established' /\ Referenced' /\ Closing' /\ Removed'
      <3>0. /\ state' = "kDisconnecting"
            /\ Grows(pending', pending, "forceClose")
        <4>1. pending \in Seq(Functors) /\ "forceClose" \in Functors
          BY DEF LoopOK, Functors
        <4>2. pending' = pending \o <<"forceClose">> /\ state' = "kDisconnecting"
          BY <1>3, <2>a DEF DelayedForceClose, Queue
        <4> QED BY <4>1, <4>2, AppendGrows
      <3>1. LoopOK'
        <4>1. pending' \in Seq(Functors) /\ batch' \in 0 .. Len(pending')
          BY <2>0, <3>0 DEF LoopOK, loopVars, Grows
        <4>2. {delayed, userRef, ownerRef}' \subseteq BOOLEAN
          BY <2>0 DEF LoopOK, refVars
        <4> QED BY <2>0, <3>0, <4>1, <4>2 DEF LoopOK, loopVars, refVars, histVars
      <3>2. Established' /\ Referenced'
        BY <2>0, <2>a, <3>0 DEF Established, Referenced, Open, refVars, Grows
      <3>3. Closing' /\ Removed'
        BY <2>0, <2>a, <3>0 DEF Grows, Closing, Removed, Open, refVars, histVars, channelVars
      <3> QED BY <3>1, <3>2, <3>3
    <2>b. ASSUME ~Open PROVE LoopOK' /\ Established' /\ Referenced' /\ Closing' /\ Removed'
      <3>0. UNCHANGED <<state, pending>>
        BY <1>3, <2>b DEF DelayedForceClose
      <3>1. LoopOK'
        BY <2>0, <3>0 DEF LoopOK, loopVars, refVars, histVars
      <3>2. Established' /\ Referenced'
        BY <2>0, <3>0 DEF Established, Fresh, Referenced, refVars
      <3>3. Closing' /\ Removed'
        BY <2>0, <3>0 DEF Closing, Removed, refVars, histVars, channelVars
      <3> QED BY <3>1, <3>2, <3>3
    <2>1. ChannelStateOK' /\ ReportOK'
      BY <1>3, <2>0 DEF DelayedForceClose, ChannelStateOK, ReportOK,
         channelVars, loopVars, reportVars, epollVars
    <2>2. LoopOK'
      BY <2>a, <2>b
    <2>3. BytesOK' /\ InOrder'
      BY <1>3, <2>0 DEF DelayedForceClose, BytesOK, InOrder, kernelVars,
         histVars
    <2>4. WritingIffBuffered' /\ Control'
      BY <1>3, <2>0 DEF DelayedForceClose, WritingIffBuffered, Control, Open,
         isWriting, isReading, LoopOK, Established, Fresh, Closing,
         channelVars, loopVars, refVars, histVars, reportVars, epollVars
    <2>5. Established' /\ Referenced'
      BY <2>a, <2>b
    <2>6. Closing' /\ Removed'
      BY <2>a, <2>b
    <2> QED BY <2>1, <2>2, <2>3, <2>4, <2>5, <2>6
  <1>4. CASE HandleEvent
    <2>1. ChannelStateOK' /\ ReportOK'
      BY <1>4 DEF HandleEvent, BeginEvent, ChannelStateOK, ReportOK,
         channelVars, epollVars
    <2>2. LoopOK'
      BY <1>4 DEF HandleEvent, BeginEvent, LoopOK, refVars, histVars
    <2>3. BytesOK' /\ InOrder'
      BY <1>4 DEF HandleEvent, BeginEvent, BytesOK, InOrder, kernelVars,
         histVars
    <2>4. WritingIffBuffered' /\ Control'
      BY <1>4 DEF HandleEvent, BeginEvent, WritingIffBuffered, Control, Open,
         isWriting, isReading, LoopOK, Established, Fresh, Closing,
         channelVars, refVars, histVars, epollVars
    <2>5. Established' /\ Referenced'
      BY <1>4 DEF HandleEvent, BeginEvent, Established, Fresh, Referenced,
         Control, LoopOK, Open, channelVars, refVars, histVars, epollVars
    <2>6. Closing' /\ Removed'
      BY <1>4 DEF HandleEvent, BeginEvent, Closing, Removed, Established,
         Fresh, LoopOK, Referenced, Open, channelVars, refVars, histVars,
         epollVars
    <2> QED BY <2>1, <2>2, <2>3, <2>4, <2>5, <2>6
  <1>5. CASE DispatchClose
    <2>0. /\ ChannelStateOK' /\ BytesOK' /\ InOrder'
          /\ state' = "kDisconnected" /\ events' = {}
          /\ closes' \in Nat /\ closes' > 0
          /\ closing' \in Nat /\ closing' > 0
          /\ UNCHANGED <<outBuf, userRef, ownerRef, destroyed, finSent>>
      BY <1>5, HandleCloseKeeps DEF DispatchClose
    <2>a. state # "kConnecting"
      BY <1>5 DEF DispatchClose, Established, Fresh, CloseIsNext, ReadIsNext
    <2>b. todo' = todo \ {"HUP", "ERR"} /\ pc = "dispatch"
          /\ UNCHANGED <<pc, back, batch, active, revents, pending, delayed, otherPc>>
      BY <1>5 DEF DispatchClose, reportVars
    <2>1. ChannelStateOK' /\ ReportOK'
      BY <2>0, <2>b DEF ReportOK
    <2>2. LoopOK'
      BY <2>0, <2>b DEF LoopOK
    <2>3. BytesOK' /\ InOrder'
      BY <2>0
    <2>4. WritingIffBuffered' /\ Control'
      BY <2>0, <2>b DEF WritingIffBuffered, Control, Open
    <2>5. Established' /\ Referenced'
      BY <2>0, <2>a, <2>b DEF Established, Referenced
    <2>6. Closing' /\ Removed'
      BY <2>0, <2>b DEF Closing, Removed
    <2> QED BY <2>1, <2>2, <2>3, <2>4, <2>5, <2>6
  <1>6. CASE DispatchReadData
    <2>1. ChannelStateOK' /\ ReportOK'
      BY <1>6 DEF DispatchReadData, ReadIsNext, Callback, ChannelStateOK,
         ReportOK, channelVars, reportVars, epollVars
    <2>2. LoopOK'
      BY <1>6 DEF DispatchReadData, ReadIsNext, Callback, LoopOK, refVars,
         histVars
    <2>3. BytesOK' /\ InOrder'
      BY <1>6 DEF DispatchReadData, ReadIsNext, Callback, BytesOK, InOrder,
         histVars
    <2>4. WritingIffBuffered' /\ Control'
      BY <1>6 DEF DispatchReadData, ReadIsNext, Callback, WritingIffBuffered,
         Control, Open, isWriting, isReading, LoopOK, Established, Fresh,
         Closing, channelVars, reportVars, refVars, histVars, epollVars
    <2>5. Established' /\ Referenced'
      BY <1>6 DEF DispatchReadData, ReadIsNext, Callback, Established, Fresh,
         Referenced, Control, LoopOK, Open, channelVars, reportVars, refVars,
         histVars, epollVars
    <2>6. Closing' /\ Removed'
      BY <1>6 DEF DispatchReadData, ReadIsNext, Callback, Closing, Removed,
         Established, Fresh, LoopOK, Referenced, Open, channelVars,
         reportVars, refVars, histVars, epollVars
    <2> QED BY <2>1, <2>2, <2>3, <2>4, <2>5, <2>6
  <1>7. CASE DispatchReadEnd
    <2>0. /\ ChannelStateOK' /\ BytesOK' /\ InOrder'
          /\ state' = "kDisconnected" /\ events' = {}
          /\ closes' \in Nat /\ closes' > 0
          /\ closing' \in Nat /\ closing' > 0
          /\ UNCHANGED <<outBuf, userRef, ownerRef, destroyed, finSent>>
      BY <1>7, HandleCloseKeeps DEF DispatchReadEnd
    <2>a. state # "kConnecting"
      BY <1>7 DEF DispatchReadEnd, Established, Fresh, CloseIsNext, ReadIsNext
    <2>b. todo' = todo \ {"HUP", "ERR", "IN"} /\ pc = "dispatch"
          /\ UNCHANGED <<pc, back, batch, active, revents, pending, delayed, otherPc>>
      BY <1>7 DEF DispatchReadEnd, reportVars
    <2>1. ChannelStateOK' /\ ReportOK'
      BY <2>0, <2>b DEF ReportOK
    <2>2. LoopOK'
      BY <2>0, <2>b DEF LoopOK
    <2>3. BytesOK' /\ InOrder'
      BY <2>0
    <2>4. WritingIffBuffered' /\ Control'
      BY <2>0, <2>b DEF WritingIffBuffered, Control, Open
    <2>5. Established' /\ Referenced'
      BY <2>0, <2>a, <2>b DEF Established, Referenced
    <2>6. Closing' /\ Removed'
      BY <2>0, <2>b DEF Closing, Removed
    <2> QED BY <2>1, <2>2, <2>3, <2>4, <2>5, <2>6
  <1>8. CASE DispatchWrite
    <2>0. PICK k \in 1 .. Len(outBuf) :
             /\ k <= room
             /\ WriteSome(outBuf, k)
             /\ Keep(SubSeq(outBuf, k + 1, Len(outBuf)))
      BY <1>8 DEF DispatchWrite
    <2>a. /\ todo = {"OUT"} /\ todo' = {} /\ pc = "dispatch" /\ isWriting
          /\ UNCHANGED <<pc, back, batch, active, revents, state, delayed, otherPc, refVars, histVars>>
      BY <1>8 DEF DispatchWrite, WriteIsNext, reportVars
    <2>b. state \in {"kConnected", "kDisconnecting"}
      BY <2>a DEF LoopOK, Established, Fresh, Closing, isWriting
    <2>e. Kept /\ outBuf' = SubSeq(outBuf, k + 1, Len(outBuf))
      BY <2>0, <2>a, KeepKeeps
    <2>1. ChannelStateOK' /\ ReportOK'
      BY <2>a, <2>e DEF Kept, ReportOK
    <2>2. LoopOK'
      BY <2>a, <2>e DEF Kept, LoopOK, refVars, histVars
    <2>3. BytesOK' /\ InOrder'
      <3>1. accepted' = accepted /\ dropped' = dropped
        BY <2>a DEF histVars
      <3> QED BY <2>0, <2>e, <3>1, WriteKeeps DEF Kept
    <2>4. WritingIffBuffered' /\ Control'
      BY <2>a, <2>e DEF Kept, WritingIffBuffered, Control
    <2>5. Established' /\ Referenced'
      BY <2>a, <2>b, <2>e DEF Kept, Established, Referenced, refVars
    <2>6. Closing' /\ Removed'
      BY <2>a, <2>b, <2>e DEF Kept, Closing, Removed, refVars, histVars
    <2> QED BY <2>1, <2>2, <2>3, <2>4, <2>5, <2>6
  <1>36. CASE DispatchWriteFails
    <2>0. /\ Keep(<<>>)
          /\ dropped' = dropped \cup {outBuf[i] : i \in DOMAIN outBuf}
          /\ UNCHANGED <<wire, room, inAvail, peerFin, reset, accepted>>
      BY <1>36 DEF DispatchWriteFails
    <2>a. /\ todo = {"OUT"} /\ todo' = {} /\ pc = "dispatch" /\ isWriting
          /\ UNCHANGED <<pc, back, batch, active, revents, state, delayed, otherPc,
                         refVars, closes, destroyed>>
      BY <1>36 DEF DispatchWriteFails, WriteIsNext, reportVars
    <2>b. state \in {"kConnected", "kDisconnecting"}
      BY <2>a DEF LoopOK, Established, Fresh, Closing, isWriting
    <2>e. Kept /\ outBuf' = <<>>
      BY <2>0, <2>a, KeepKeeps
    <2>1. ChannelStateOK' /\ ReportOK'
      BY <2>a, <2>e DEF Kept, ReportOK
    <2>2. LoopOK'
      BY <2>a, <2>e DEF Kept, LoopOK, refVars
    <2>3. BytesOK' /\ InOrder'
      <3>1. /\ wire \in Seq(Nat) /\ outBuf \in Seq(Nat) /\ accepted \in Nat
            /\ dropped \subseteq 0 .. accepted /\ Intact(wire \o outBuf, accepted, dropped)
        BY DEF BytesOK, InOrder
      <3>2. Intact(wire, accepted, dropped') /\ dropped' \subseteq 0 .. accepted
        <4> DEFINE gone == {outBuf[i] : i \in DOMAIN outBuf}
        <4>1. \A x : x \in gone <=> In(x, outBuf)
          BY DEF In
        <4>2. dropped' = dropped \cup gone
          BY <2>0
        <4> HIDE DEF gone
        <4>3. Intact(wire, accepted, dropped \cup gone) /\ dropped \cup gone \subseteq 0 .. accepted
          <5> DEFINE lost == dropped  w == wire  b == outBuf  n == accepted
          <5>1. /\ w \in Seq(Nat) /\ b \in Seq(Nat) /\ n \in Nat
                /\ lost \subseteq 0 .. n /\ Intact(w \o b, n, lost)
                /\ \A x : x \in gone <=> In(x, b)
            BY <3>1, <4>1
          <5> HIDE DEF lost, w, b, n
          <5>2. Intact(w, n, lost \cup gone) /\ lost \cup gone \subseteq 0 .. n
            BY <5>1, StreamCut
          <5> QED BY <5>2 DEF lost, w, b, n
        <4> QED BY <4>2, <4>3
      <3>3. wire' \o outBuf' = wire /\ outBuf' \in Seq(Nat)
        BY <2>0, <2>e, <3>1, ConcatEmptySeq
      <3>4. BytesOK'
        <4>1. {inAvail, peerFin, reset, finSent}' \subseteq BOOLEAN
          BY <2>0, <2>e DEF BytesOK, Kept
        <4> QED BY <2>0, <3>1, <3>2, <3>3, <4>1 DEF BytesOK
      <3>5. Intact(wire' \o outBuf', accepted', dropped')
        BY <2>0, <3>2, <3>3
      <3> QED BY <2>0, <3>4, <3>5 DEF InOrder
    <2>4. WritingIffBuffered' /\ Control'
      BY <2>a, <2>e DEF Kept, WritingIffBuffered, Control
    <2>5. Established' /\ Referenced'
      BY <2>a, <2>b, <2>e DEF Kept, Established, Referenced, refVars
    <2>6. Closing' /\ Removed'
      BY <2>a, <2>b, <2>e DEF Kept, Closing, Removed, refVars
    <2> QED BY <2>1, <2>2, <2>3, <2>4, <2>5, <2>6
  <1>9. CASE DispatchNoWrite
    <2>1. ChannelStateOK' /\ ReportOK'
      BY <1>9 DEF DispatchNoWrite, WriteIsNext, ChannelStateOK, ReportOK,
         channelVars, reportVars, epollVars
    <2>2. LoopOK'
      BY <1>9 DEF DispatchNoWrite, WriteIsNext, LoopOK, refVars, histVars
    <2>3. BytesOK' /\ InOrder'
      BY <1>9 DEF DispatchNoWrite, WriteIsNext, BytesOK, InOrder, kernelVars,
         histVars
    <2>4. WritingIffBuffered' /\ Control'
      BY <1>9 DEF DispatchNoWrite, WriteIsNext, WritingIffBuffered, Control,
         Open, isWriting, isReading, LoopOK, Established, Fresh, Closing,
         channelVars, reportVars, refVars, histVars, epollVars
    <2>5. Established' /\ Referenced'
      BY <1>9 DEF DispatchNoWrite, WriteIsNext, Established, Fresh,
         Referenced, Control, LoopOK, Open, channelVars, reportVars, refVars,
         histVars, epollVars
    <2>6. Closing' /\ Removed'
      BY <1>9 DEF DispatchNoWrite, WriteIsNext, Closing, Removed, Established,
         Fresh, LoopOK, Referenced, Open, channelVars, reportVars, refVars,
         histVars, epollVars
    <2> QED BY <2>1, <2>2, <2>3, <2>4, <2>5, <2>6
  <1>10. CASE SwapFunctors
    <2>1. ChannelStateOK' /\ ReportOK'
      BY <1>10 DEF SwapFunctors, GoOn, ChannelStateOK, ReportOK, channelVars,
         epollVars
    <2>2. LoopOK'
      BY <1>10 DEF SwapFunctors, GoOn, LoopOK, refVars, histVars
    <2>3. BytesOK' /\ InOrder'
      BY <1>10 DEF SwapFunctors, GoOn, BytesOK, InOrder, kernelVars, histVars
    <2>4. WritingIffBuffered' /\ Control'
      BY <1>10 DEF SwapFunctors, GoOn, WritingIffBuffered, Control, Open,
         isWriting, isReading, LoopOK, Established, Fresh, Closing,
         channelVars, refVars, histVars, epollVars
    <2>5. Established' /\ Referenced'
      BY <1>10 DEF SwapFunctors, GoOn, Established, Fresh, Referenced,
         Control, LoopOK, Open, channelVars, refVars, histVars, epollVars
    <2>6. Closing' /\ Removed'
      BY <1>10 DEF SwapFunctors, GoOn, Closing, Removed, Established, Fresh,
         LoopOK, Referenced, Open, channelVars, refVars, histVars, epollVars
    <2> QED BY <2>1, <2>2, <2>3, <2>4, <2>5, <2>6
  <1>11. CASE ConnectEstablished
    <2>0. Shrinks(pending', pending, "connectEstablished") /\ batch \in 1 .. Len(pending)
      <3>1. pending \in Seq(Functors) /\ batch \in 1 .. Len(pending)
        BY <1>11 DEF ConnectEstablished, Functor, LoopOK
      <3>2. pending # <<>> /\ Head(pending) = "connectEstablished" /\ pending' = Tail(pending)
        BY <1>11, <3>1 DEF ConnectEstablished, Functor
      <3> QED BY <3>1, <3>2, TailShrinks
    <2>a. ChannelStateOK' /\ events' = events \cup {"IN"}
      <3>1. SetEvents(events \cup {"IN"}) /\ events \cup {"IN"} \in SUBSET {"IN", "OUT"}
        BY <1>11 DEF ConnectEstablished, ChannelStateOK
      <3> QED BY <3>1, SetEventsType
    <2>b. Fresh /\ (\A g : ~In(g, pending')) /\ state = "kConnecting"
      <3>1. Fresh /\ state = "kConnecting"
        BY <2>0 DEF Shrinks, Established
      <3>2. Len(pending') = 0
        BY <2>0, <3>1 DEF Shrinks, Fresh
      <3> QED BY <2>0, <3>1, <3>2 DEF Shrinks, In
    <2>c. /\ state' = "kConnected" /\ userRef' \in BOOLEAN
          /\ pc' = "user" /\ back' = "functors" /\ batch' = batch - 1
          /\ UNCHANGED <<todo, active, revents, outBuf, delayed, otherPc, ownerRef, closing, kernelVars, histVars>>
      BY <1>11 DEF ConnectEstablished, Functor, Callback, reportVars
    <2>1. ChannelStateOK' /\ ReportOK'
      BY <2>a, <2>c DEF ReportOK
    <2>2. LoopOK'
      BY <1>11, <2>0 DEF ConnectEstablished, Functor, Callback, LoopOK,
         Shrinks, histVars
    <2>3. BytesOK' /\ InOrder'
      BY <1>11, <2>0 DEF ConnectEstablished, Functor, Callback, BytesOK,
         InOrder, kernelVars, histVars
    <2>4. WritingIffBuffered' /\ Control'
      BY <2>a, <2>b, <2>c DEF WritingIffBuffered, Control, Fresh, isWriting
    <2>5. Established' /\ Referenced'
      BY <2>b, <2>c DEF Established, Referenced, Fresh
    <2>6. Closing' /\ Removed'
      BY <2>b, <2>c DEF Closing, Removed, Fresh, histVars
    <2> QED BY <2>1, <2>2, <2>3, <2>4, <2>5, <2>6
  <1>12. CASE RunSendInLoop
    <2>0. /\ pending \in Seq(Functors) /\ batch \in 1 .. Len(pending)
          /\ pending # <<>> /\ Head(pending) = "sendInLoop" /\ batch' = batch - 1
          /\ SendInLoop(Tail(pending)) /\ pc = "functors" /\ "callback" \in Functors
          /\ UNCHANGED <<pc, back, todo, active, revents, state, delayed, otherPc, refVars, dropped, closes, destroyed>>
      BY <1>12 DEF RunSendInLoop, Functor, LoopOK, Functors, reportVars
    <2>c. Shrinks(Tail(pending), pending, "sendInLoop")
      BY <2>0, TailShrinks
    <2>d. state # "kConnecting"
      <3>1. ~In("sendInLoop", <<"connectEstablished">>)
        BY DEF In
      <3> QED BY <2>c, <3>1 DEF Established, Fresh, Shrinks
    <2>a. /\ pending' = Tail(pending) \/ pending' = Append(Tail(pending), "callback")
          /\ ChannelStateOK' /\ BytesOK' /\ InOrder'
          /\ state = "kDisconnected" => UNCHANGED <<channelVars, outBuf>>
          /\ (isWriting <=> outBuf # <<>>) => (isWriting' <=> outBuf' # <<>>)
      <3>1. state \in {"kConnected", "kDisconnecting", "kDisconnected"}
        BY <2>d DEF LoopOK
      <3> QED BY <2>0, <2>c, <3>1, SendInLoopKeeps DEF Shrinks
    <2>b. /\ pending' \in Seq(Functors) /\ Len(pending') >= Len(pending) - 1
          /\ \A g : In(g, pending') => In(g, pending) \/ g = "callback"
          /\ \A g : In(g, pending) => g = "sendInLoop" \/ In(g, pending')
      <3>1. CASE pending' = Tail(pending)
        BY <2>0, <2>c, <3>1 DEF Shrinks
      <3>2. CASE pending' = Append(Tail(pending), "callback")
        <4>1. Grows(pending', Tail(pending), "callback")
          BY <2>0, <2>c, <3>2, AppendGrows DEF Shrinks
        <4> QED BY <2>0, <2>c, <4>1 DEF Grows, Shrinks
      <3> QED BY <2>a, <3>1, <3>2
    <2>1. ChannelStateOK' /\ ReportOK'
      BY <2>0, <2>a DEF ReportOK, loopVars, reportVars
    <2>2. LoopOK'
      BY <2>0, <2>b DEF LoopOK, loopVars, refVars
    <2>3. BytesOK' /\ InOrder'
      BY <2>a
    <2>4. WritingIffBuffered' /\ Control'
      BY <2>0, <2>a DEF WritingIffBuffered, Control, Open, loopVars
    <2>5. Established' /\ Referenced'
      BY <2>0, <2>b, <2>d DEF Established, Referenced, refVars
    <2>6. Closing' /\ Removed'
      BY <2>0, <2>a, <2>b DEF Closing, Removed, refVars, channelVars
    <2> QED BY <2>1, <2>2, <2>3, <2>4, <2>5, <2>6
  <1>13. CASE RunCallback
    <2>0. Shrinks(pending', pending, "callback") /\ batch \in 1 .. Len(pending)
      <3>1. pending \in Seq(Functors) /\ batch \in 1 .. Len(pending)
        BY <1>13 DEF RunCallback, Functor, LoopOK
      <3>2. pending # <<>> /\ Head(pending) = "callback" /\ pending' = Tail(pending)
        BY <1>13, <3>1 DEF RunCallback, Functor
      <3> QED BY <3>1, <3>2, TailShrinks
    <2>1. ChannelStateOK' /\ ReportOK'
      BY <1>13, <2>0 DEF RunCallback, Functor, Callback, ChannelStateOK,
         ReportOK, channelVars, reportVars, epollVars
    <2>2. LoopOK'
      BY <1>13, <2>0 DEF RunCallback, Functor, Callback, LoopOK, Shrinks,
         refVars, histVars
    <2>3. BytesOK' /\ InOrder'
      BY <1>13, <2>0 DEF RunCallback, Functor, Callback, BytesOK, InOrder,
         kernelVars, histVars
    <2>4. WritingIffBuffered' /\ Control'
      BY <1>13, <2>0 DEF RunCallback, Functor, Callback, WritingIffBuffered,
         Control, Open, isWriting, isReading, LoopOK, Established, Fresh,
         Closing, channelVars, reportVars, refVars, histVars, epollVars
    <2>5. Established' /\ Referenced'
      BY <1>13, <2>0 DEF RunCallback, Functor, Callback, Established, Fresh,
         Referenced, Control, LoopOK, Open, Shrinks, channelVars, reportVars,
         refVars, histVars, epollVars
    <2>6. Closing' /\ Removed'
      BY <1>13, <2>0 DEF RunCallback, Functor, Callback, Closing, Removed,
         Established, Fresh, LoopOK, Referenced, Open, Shrinks, channelVars,
         reportVars, refVars, histVars, epollVars
    <2> QED BY <2>1, <2>2, <2>3, <2>4, <2>5, <2>6
  <1>14. CASE ForceCloseInLoop
    <2>0. Shrinks(pending', pending, "forceClose") /\ batch \in 1 .. Len(pending)
      <3>1. pending \in Seq(Functors) /\ batch \in 1 .. Len(pending)
        BY <1>14 DEF ForceCloseInLoop, Functor, LoopOK
      <3>2. pending # <<>> /\ Head(pending) = "forceClose" /\ pending' = Tail(pending)
        BY <1>14, <3>1 DEF ForceCloseInLoop, Functor
      <3> QED BY <3>1, <3>2, TailShrinks
    <2>a. /\ batch' = batch - 1 /\ pc = "functors"
          /\ UNCHANGED <<pc, back, todo, active, revents, delayed, otherPc>>
      BY <1>14 DEF ForceCloseInLoop, Functor, reportVars
    <2>b. state # "kConnecting"
      <3>1. ~In("forceClose", <<"connectEstablished">>)
        BY DEF In
      <3> QED BY <2>0, <3>1 DEF Shrinks, Established, Fresh
    <2>c. CASE Open
      <3>0. /\ ChannelStateOK' /\ BytesOK' /\ InOrder'
            /\ state' = "kDisconnected" /\ events' = {}
            /\ closes' \in Nat /\ closes' > 0
            /\ closing' \in Nat /\ closing' > 0
            /\ UNCHANGED <<outBuf, userRef, ownerRef, destroyed, finSent>>
        BY <1>14, <2>c, HandleCloseKeeps DEF ForceCloseInLoop, MayForceClose
      <3>1. ChannelStateOK' /\ ReportOK'
        BY <2>a, <3>0 DEF ReportOK
      <3>2. LoopOK'
        BY <2>0, <2>a, <3>0 DEF Shrinks, LoopOK
      <3>4. WritingIffBuffered' /\ Control'
        BY <2>a, <3>0 DEF WritingIffBuffered, Control, Open
      <3>5. Established' /\ Referenced'
        BY <2>0, <2>a, <2>b, <3>0 DEF Shrinks, Established, Referenced
      <3>6. Closing' /\ Removed'
        BY <2>0, <2>a, <3>0 DEF Shrinks, Closing, Removed
      <3> QED BY <3>0, <3>1, <3>2, <3>4, <3>5, <3>6
    <2>d. CASE ~Open
      <3>0. UNCHANGED <<channelVars, state, outBuf, kernelVars, refVars, histVars>> /\ state = "kDisconnected"
        BY <1>14, <2>b, <2>d DEF ForceCloseInLoop, MayForceClose, Open, LoopOK
      <3>1. ChannelStateOK' /\ ReportOK'
        BY <2>a, <3>0 DEF ReportOK, ChannelStateOK, channelVars, epollVars
      <3>2. LoopOK'
        BY <2>0, <2>a, <3>0 DEF Shrinks, LoopOK, refVars, histVars
      <3>3. BytesOK' /\ InOrder'
        BY <3>0 DEF BytesOK, InOrder, kernelVars, histVars
      <3>4. WritingIffBuffered' /\ Control'
        BY <2>a, <3>0 DEF WritingIffBuffered, Control, Open
      <3>5. Established' /\ Referenced'
        BY <2>0, <2>a, <2>b, <3>0 DEF Shrinks, Established, Referenced, refVars
      <3>6. Closing' /\ Removed'
        BY <2>0, <2>a, <3>0 DEF Shrinks, Closing, Removed, refVars, histVars, channelVars
      <3> QED BY <3>1, <3>2, <3>3, <3>4, <3>5, <3>6
    <2> QED BY <2>c, <2>d
  <1>15. CASE ConnectDestroyed
    <2>0. Shrinks(pending', pending, "connectDestroyed") /\ batch \in 1 .. Len(pending)
      <3>1. pending \in Seq(Functors) /\ batch \in 1 .. Len(pending)
        BY <1>15 DEF ConnectDestroyed, Functor, LoopOK
      <3>2. pending # <<>> /\ Head(pending) = "connectDestroyed" /\ pending' = Tail(pending)
        BY <1>15, <3>1 DEF ConnectDestroyed, Functor
      <3> QED BY <3>1, <3>2, TailShrinks
    <2>a. closes > 0 /\ state \in {"kDisconnecting", "kDisconnected"}
      <3>1. closes > 0
        BY <2>0 DEF Shrinks, Closing
      <3> QED BY <3>1 DEF Closing
    <2>b. /\ remove /\ state' = state /\ destroyed' = UpToTwo(destroyed + 1) /\ batch' = batch - 1
          /\ pc = "functors"
          /\ UNCHANGED <<pc, back, todo, active, revents, outBuf, delayed, otherPc, refVars, kernelVars,
                         accepted, dropped, closes, spent>>
      BY <1>15, <2>a DEF ConnectDestroyed, Functor, reportVars
    <2>c. ChannelStateOK' /\ addedToLoop' = FALSE /\ events' = events
      <3>1. events' = events
        BY <2>b DEF remove
      <3> QED BY <2>b, <3>1, RemoveType
    <2>1. ChannelStateOK' /\ ReportOK'
      BY <2>b, <2>c DEF ReportOK
    <2>2. LoopOK'
      <3>1. destroyed' \in Nat
        BY <2>b DEF LoopOK, UpToTwo
      <3> QED BY <2>0, <2>b, <3>1 DEF Shrinks, LoopOK, refVars
    <2>3. BytesOK' /\ InOrder'
      BY <2>b DEF BytesOK, InOrder, kernelVars
    <2>4. WritingIffBuffered' /\ Control'
      BY <2>a, <2>b, <2>c DEF WritingIffBuffered, Control
    <2>5. Established' /\ Referenced'
      BY <2>0, <2>a, <2>b DEF Shrinks, Established, Referenced, refVars
    <2>6. Closing' /\ Removed'
      BY <2>0, <2>a, <2>b, <2>c DEF Shrinks, Closing, Removed, refVars
    <2> QED BY <2>1, <2>2, <2>3, <2>4, <2>5, <2>6
  <1>16. CASE CallbackReturns
    <2>1. ChannelStateOK' /\ ReportOK'
      BY <1>16 DEF CallbackReturns, ChannelStateOK, ReportOK, channelVars,
         reportVars, epollVars
    <2>2. LoopOK'
      BY <1>16 DEF CallbackReturns, LoopOK, refVars, histVars
    <2>3. BytesOK' /\ InOrder'
      BY <1>16 DEF CallbackReturns, BytesOK, InOrder, kernelVars, histVars
    <2>4. WritingIffBuffered' /\ Control'
      BY <1>16 DEF CallbackReturns, WritingIffBuffered, Control, Open,
         isWriting, isReading, LoopOK, Established, Fresh, Closing,
         channelVars, reportVars, refVars, histVars, epollVars
    <2>5. Established' /\ Referenced'
      BY <1>16 DEF CallbackReturns, Established, Fresh, Referenced, Control,
         LoopOK, Open, channelVars, reportVars, refVars, histVars, epollVars
    <2>6. Closing' /\ Removed'
      BY <1>16 DEF CallbackReturns, Closing, Removed, Established, Fresh,
         LoopOK, Referenced, Open, channelVars, reportVars, refVars, histVars,
         epollVars
    <2> QED BY <2>1, <2>2, <2>3, <2>4, <2>5, <2>6
  <1>17. CASE EndIteration
    <2>1. ChannelStateOK' /\ ReportOK'
      BY <1>17 DEF EndIteration, GoOn, ChannelStateOK, ReportOK, channelVars,
         reportVars, epollVars
    <2>2. LoopOK'
      BY <1>17 DEF EndIteration, GoOn, LoopOK, refVars, histVars
    <2>3. BytesOK' /\ InOrder'
      BY <1>17 DEF EndIteration, GoOn, BytesOK, InOrder, kernelVars, histVars
    <2>4. WritingIffBuffered' /\ Control'
      BY <1>17 DEF EndIteration, GoOn, WritingIffBuffered, Control, Open,
         isWriting, isReading, LoopOK, Established, Fresh, Closing,
         channelVars, reportVars, refVars, histVars, epollVars
    <2>5. Established' /\ Referenced'
      BY <1>17 DEF EndIteration, GoOn, Established, Fresh, Referenced,
         Control, LoopOK, Open, channelVars, reportVars, refVars, histVars,
         epollVars
    <2>6. Closing' /\ Removed'
      BY <1>17 DEF EndIteration, GoOn, Closing, Removed, Established, Fresh,
         LoopOK, Referenced, Open, channelVars, reportVars, refVars, histVars,
         epollVars
    <2> QED BY <2>1, <2>2, <2>3, <2>4, <2>5, <2>6
  <1>18. CASE Send
    <2>0. /\ pending \in Seq(Functors) /\ "callback" \in Functors
          /\ state = "kConnected" /\ SendInLoop(pending)
          /\ UNCHANGED <<loopVars, state, delayed, otherPc, refVars, dropped, closes, destroyed>>
      BY <1>18 DEF Send, LoopOK, Functors
    <2>a. /\ pending' = pending \/ pending' = Append(pending, "callback")
          /\ ChannelStateOK' /\ BytesOK' /\ InOrder'
          /\ state = "kDisconnected" => UNCHANGED <<channelVars, outBuf>>
          /\ (isWriting <=> outBuf # <<>>) => (isWriting' <=> outBuf' # <<>>)
      BY <2>0, SendInLoopKeeps
    <2>b. /\ pending' \in Seq(Functors) /\ Len(pending') >= Len(pending)
          /\ \A g : In(g, pending') => In(g, pending) \/ g = "callback"
          /\ \A g : In(g, pending) => In(g, pending')
      <3>1. CASE pending' = pending
        BY <2>0, <3>1
      <3>2. CASE pending' = Append(pending, "callback")
        <4>1. Grows(pending', pending, "callback")
          BY <2>0, <3>2, AppendGrows
        <4> QED BY <2>0, <4>1 DEF Grows
      <3> QED BY <2>a, <3>1, <3>2
    <2>1. ChannelStateOK' /\ ReportOK'
      BY <2>0, <2>a DEF ReportOK, loopVars, reportVars
    <2>2. LoopOK'
      BY <2>0, <2>b DEF LoopOK, loopVars, refVars
    <2>3. BytesOK' /\ InOrder'
      BY <2>a
    <2>4. WritingIffBuffered' /\ Control'
      BY <2>0, <2>a DEF WritingIffBuffered, Control, Open, loopVars
    <2>5. Established' /\ Referenced'
      BY <2>0, <2>b DEF Established, Referenced, refVars
    <2>6. Closing' /\ Removed'
      BY <2>0, <2>a, <2>b DEF Closing, Removed, refVars, channelVars
    <2> QED BY <2>1, <2>2, <2>3, <2>4, <2>5, <2>6
  <1>19. CASE Shutdown
    <2>1. ChannelStateOK' /\ ReportOK'
      BY <1>19 DEF Shutdown, FinAfterShutdown, ChannelStateOK, ReportOK,
         channelVars, loopVars, reportVars, epollVars
    <2>2. LoopOK'
      BY <1>19 DEF Shutdown, FinAfterShutdown, LoopOK, loopVars, refVars,
         histVars
    <2>3. BytesOK' /\ InOrder'
      BY <1>19 DEF Shutdown, FinAfterShutdown, BytesOK, InOrder, histVars
    <2>4. WritingIffBuffered' /\ Control'
      BY <1>19 DEF Shutdown, FinAfterShutdown, WritingIffBuffered, Control,
         Open, isWriting, isReading, LoopOK, Established, Fresh, Closing,
         channelVars, loopVars, refVars, histVars, reportVars, epollVars
    <2>5. Established' /\ Referenced'
      BY <1>19 DEF Shutdown, FinAfterShutdown, Established, Fresh, Referenced,
         Control, LoopOK, Open, channelVars, loopVars, refVars, histVars,
         reportVars, epollVars
    <2>6. Closing' /\ Removed'
      BY <1>19 DEF Shutdown, FinAfterShutdown, Closing, Removed, Established,
         Fresh, LoopOK, Referenced, Open, channelVars, loopVars, refVars,
         histVars, reportVars, epollVars
    <2> QED BY <2>1, <2>2, <2>3, <2>4, <2>5, <2>6
  <1>20. CASE ForceClose
    <2>0. Grows(pending', pending, "forceClose")
      <3>1. pending \in Seq(Functors) /\ "forceClose" \in Functors
        BY DEF LoopOK, Functors
      <3>2. pending' = pending \o <<"forceClose">>
        BY <1>20 DEF ForceClose, Queue
      <3> QED BY <3>1, <3>2, AppendGrows
    <2>1. ChannelStateOK' /\ ReportOK'
      BY <1>20, <2>0 DEF ForceClose, Queue, ChannelStateOK, ReportOK,
         channelVars, loopVars, reportVars, epollVars
    <2>2. LoopOK'
      BY <1>20, <2>0 DEF ForceClose, Queue, LoopOK, Grows, loopVars, refVars,
         histVars
    <2>3. BytesOK' /\ InOrder'
      BY <1>20, <2>0 DEF ForceClose, Queue, BytesOK, InOrder, kernelVars,
         histVars
    <2>4. WritingIffBuffered' /\ Control'
      BY <1>20, <2>0 DEF ForceClose, Queue, WritingIffBuffered, Control, Open,
         isWriting, isReading, LoopOK, Established, Fresh, Closing,
         channelVars, loopVars, refVars, histVars, reportVars, epollVars
    <2>5. Established' /\ Referenced'
      BY <1>20, <2>0 DEF ForceClose, Queue, Established, Fresh, Referenced,
         Control, LoopOK, Open, Grows, channelVars, loopVars, refVars,
         histVars, reportVars, epollVars
    <2>6. Closing' /\ Removed'
      BY <1>20, <2>0 DEF ForceClose, Queue, Closing, Removed, Established,
         Fresh, LoopOK, Referenced, Open, Grows, channelVars, loopVars,
         refVars, histVars, reportVars, epollVars
    <2> QED BY <2>1, <2>2, <2>3, <2>4, <2>5, <2>6
  <1>21. CASE ForceCloseWithDelay
    <2>1. ChannelStateOK' /\ ReportOK'
      BY <1>21 DEF ForceCloseWithDelay, ChannelStateOK, ReportOK, channelVars,
         loopVars, reportVars, epollVars
    <2>2. LoopOK'
      BY <1>21 DEF ForceCloseWithDelay, LoopOK, loopVars, refVars, histVars
    <2>3. BytesOK' /\ InOrder'
      BY <1>21 DEF ForceCloseWithDelay, BytesOK, InOrder, kernelVars, histVars
    <2>4. WritingIffBuffered' /\ Control'
      BY <1>21 DEF ForceCloseWithDelay, WritingIffBuffered, Control, Open,
         isWriting, isReading, LoopOK, Established, Fresh, Closing,
         channelVars, loopVars, refVars, histVars, reportVars, epollVars
    <2>5. Established' /\ Referenced'
      BY <1>21 DEF ForceCloseWithDelay, Established, Fresh, Referenced,
         Control, LoopOK, Open, channelVars, loopVars, refVars, histVars,
         reportVars, epollVars
    <2>6. Closing' /\ Removed'
      BY <1>21 DEF ForceCloseWithDelay, Closing, Removed, Established, Fresh,
         LoopOK, Referenced, Open, channelVars, loopVars, refVars, histVars,
         reportVars, epollVars
    <2> QED BY <2>1, <2>2, <2>3, <2>4, <2>5, <2>6
  <1>22. CASE StopRead
    <2>0. ChannelStateOK' /\ events' = events \ {"IN"}
      <3>1. SetEvents(events \ {"IN"}) /\ events \ {"IN"} \in SUBSET {"IN", "OUT"}
        BY <1>22 DEF StopRead, ChannelStateOK
      <3> QED BY <3>1, SetEventsType
    <2>a. /\ Open /\ closes = 0 /\ UNCHANGED <<active, revents, todo, outBuf, state, closes, pc, back>>
      BY <1>22 DEF StopRead, Toggle, loopVars, reportVars
    <2>1. ChannelStateOK' /\ ReportOK'
      BY <2>0, <2>a DEF ReportOK
    <2>2. LoopOK'
      BY <1>22, <2>0 DEF StopRead, Toggle, LoopOK, loopVars, refVars
    <2>3. BytesOK' /\ InOrder'
      BY <1>22, <2>0 DEF StopRead, Toggle, BytesOK, InOrder, kernelVars
    <2>4. WritingIffBuffered' /\ Control'
      BY <2>0, <2>a DEF WritingIffBuffered, Control, Open, isWriting
    <2>5. Established' /\ Referenced'
      BY <1>22, <2>0 DEF StopRead, Toggle, Established, Fresh, Referenced,
         Control, LoopOK, Open, loopVars, refVars, reportVars
    <2>6. Closing' /\ Removed'
      BY <1>22, <2>0 DEF StopRead, Toggle, Closing, Removed, Established,
         Fresh, LoopOK, Referenced, Open, loopVars, refVars, reportVars
    <2> QED BY <2>1, <2>2, <2>3, <2>4, <2>5, <2>6
  <1>23. CASE StartRead
    <2>0. ChannelStateOK' /\ events' = events \cup {"IN"}
      <3>1. SetEvents(events \cup {"IN"}) /\ events \cup {"IN"} \in SUBSET {"IN", "OUT"}
        BY <1>23 DEF StartRead, ChannelStateOK
      <3> QED BY <3>1, SetEventsType
    <2>a. /\ Open /\ closes = 0 /\ UNCHANGED <<active, revents, todo, outBuf, state, closes, pc, back>>
      BY <1>23 DEF StartRead, Toggle, loopVars, reportVars
    <2>1. ChannelStateOK' /\ ReportOK'
      BY <2>0, <2>a DEF ReportOK
    <2>2. LoopOK'
      BY <1>23, <2>0 DEF StartRead, Toggle, LoopOK, loopVars, refVars
    <2>3. BytesOK' /\ InOrder'
      BY <1>23, <2>0 DEF StartRead, Toggle, BytesOK, InOrder, kernelVars
    <2>4. WritingIffBuffered' /\ Control'
      BY <2>0, <2>a DEF WritingIffBuffered, Control, Open, isWriting
    <2>5. Established' /\ Referenced'
      BY <1>23, <2>0 DEF StartRead, Toggle, Established, Fresh, Referenced,
         Control, LoopOK, Open, loopVars, refVars, reportVars
    <2>6. Closing' /\ Removed'
      BY <1>23, <2>0 DEF StartRead, Toggle, Closing, Removed, Established,
         Fresh, LoopOK, Referenced, Open, loopVars, refVars, reportVars
    <2> QED BY <2>1, <2>2, <2>3, <2>4, <2>5, <2>6
  <1>24. CASE OtherSendChecks
    <2>1. ChannelStateOK' /\ ReportOK'
      BY <1>24 DEF OtherSendChecks, ChannelStateOK, ReportOK, channelVars,
         loopVars, reportVars, epollVars
    <2>2. LoopOK'
      BY <1>24 DEF OtherSendChecks, LoopOK, loopVars, refVars
    <2>3. BytesOK' /\ InOrder'
      BY <1>24 DEF OtherSendChecks, BytesOK, InOrder, kernelVars
    <2>4. WritingIffBuffered' /\ Control'
      BY <1>24 DEF OtherSendChecks, WritingIffBuffered, Control, Open,
         isWriting, isReading, LoopOK, Established, Fresh, Closing,
         channelVars, loopVars, refVars, reportVars, epollVars
    <2>5. Established' /\ Referenced'
      BY <1>24 DEF OtherSendChecks, Established, Fresh, Referenced, Control,
         LoopOK, Open, channelVars, loopVars, refVars, reportVars, epollVars
    <2>6. Closing' /\ Removed'
      BY <1>24 DEF OtherSendChecks, Closing, Removed, Established, Fresh,
         LoopOK, Referenced, Open, channelVars, loopVars, refVars, reportVars,
         epollVars
    <2> QED BY <2>1, <2>2, <2>3, <2>4, <2>5, <2>6
  <1>25. CASE OtherSendQueues
    <2>0. Grows(pending', pending, "sendInLoop")
      <3>1. pending \in Seq(Functors) /\ "sendInLoop" \in Functors
        BY DEF LoopOK, Functors
      <3>2. pending' = pending \o <<"sendInLoop">>
        BY <1>25 DEF OtherSendQueues, Queue
      <3> QED BY <3>1, <3>2, AppendGrows
    <2>1. ChannelStateOK' /\ ReportOK'
      BY <1>25, <2>0 DEF OtherSendQueues, Queue, ChannelStateOK, ReportOK,
         channelVars, loopVars, reportVars, epollVars
    <2>2. LoopOK'
      BY <1>25, <2>0 DEF OtherSendQueues, Queue, LoopOK, Grows, loopVars,
         refVars, histVars
    <2>3. BytesOK' /\ InOrder'
      BY <1>25, <2>0 DEF OtherSendQueues, Queue, BytesOK, InOrder, kernelVars,
         histVars
    <2>4. WritingIffBuffered' /\ Control'
      BY <1>25, <2>0 DEF OtherSendQueues, Queue, WritingIffBuffered, Control,
         Open, isWriting, isReading, LoopOK, Established, Fresh, Closing,
         channelVars, loopVars, refVars, histVars, reportVars, epollVars
    <2>5. Established' /\ Referenced'
      BY <1>25, <2>0 DEF OtherSendQueues, Queue, Established, Fresh,
         Referenced, Control, LoopOK, Open, Grows, channelVars, loopVars,
         refVars, histVars, reportVars, epollVars
    <2>6. Closing' /\ Removed'
      BY <1>25, <2>0 DEF OtherSendQueues, Queue, Closing, Removed,
         Established, Fresh, LoopOK, Referenced, Open, Grows, channelVars,
         loopVars, refVars, histVars, reportVars, epollVars
    <2> QED BY <2>1, <2>2, <2>3, <2>4, <2>5, <2>6
  <1>26. CASE DropReference
    <2>1. ChannelStateOK' /\ ReportOK'
      BY <1>26 DEF DropReference, ChannelStateOK, ReportOK, channelVars,
         loopVars, reportVars, epollVars
    <2>2. LoopOK'
      BY <1>26 DEF DropReference, LoopOK, loopVars, histVars
    <2>3. BytesOK' /\ InOrder'
      BY <1>26 DEF DropReference, BytesOK, InOrder, kernelVars, histVars
    <2>4. WritingIffBuffered' /\ Control'
      BY <1>26 DEF DropReference, WritingIffBuffered, Control, Open,
         isWriting, isReading, LoopOK, Established, Fresh, Closing,
         channelVars, loopVars, histVars, reportVars, epollVars
    <2>5. Established' /\ Referenced'
      <3>1. ~In("sendInLoop", pending) /\ otherPc = "idle"
        BY <1>26 DEF DropReference, In
      <3>2. UNCHANGED <<pending, otherPc, state, events, todo, active, pc, outBuf, closing, closes, ownerRef, delayed, inTree>>
        BY <1>26 DEF DropReference, channelVars, epollVars, loopVars, reportVars, histVars
      <3>3. userRef' = FALSE
        BY <1>26 DEF DropReference
      <3> QED BY <3>1, <3>2, <3>3 DEF Established, Fresh, Referenced
    <2>6. Closing' /\ Removed'
      BY <1>26 DEF DropReference, Closing, Removed, Established, Fresh,
         LoopOK, Referenced, Open, channelVars, loopVars, histVars,
         reportVars, epollVars
    <2> QED BY <2>1, <2>2, <2>3, <2>4, <2>5, <2>6
  <1>27. CASE OtherForceCloseChecks
    <2>1. ChannelStateOK' /\ ReportOK'
      BY <1>27 DEF OtherForceCloseChecks, ChannelStateOK, ReportOK,
         channelVars, loopVars, reportVars, epollVars
    <2>2. LoopOK'
      BY <1>27 DEF OtherForceCloseChecks, LoopOK, loopVars, refVars
    <2>3. BytesOK' /\ InOrder'
      BY <1>27 DEF OtherForceCloseChecks, BytesOK, InOrder, kernelVars
    <2>4. WritingIffBuffered' /\ Control'
      BY <1>27 DEF OtherForceCloseChecks, WritingIffBuffered, Control, Open,
         isWriting, isReading, LoopOK, Established, Fresh, Closing,
         channelVars, loopVars, refVars, reportVars, epollVars
    <2>5. Established' /\ Referenced'
      BY <1>27 DEF OtherForceCloseChecks, Established, Fresh, Referenced,
         Control, LoopOK, Open, channelVars, loopVars, refVars, reportVars,
         epollVars
    <2>6. Closing' /\ Removed'
      BY <1>27 DEF OtherForceCloseChecks, Closing, Removed, Established,
         Fresh, LoopOK, Referenced, Open, channelVars, loopVars, refVars,
         reportVars, epollVars
    <2> QED BY <2>1, <2>2, <2>3, <2>4, <2>5, <2>6
  <1>28. CASE OtherForceCloseSets
    <2>1. ChannelStateOK' /\ ReportOK'
      BY <1>28 DEF OtherForceCloseSets, ChannelStateOK, ReportOK, channelVars,
         loopVars, reportVars, epollVars
    <2>2. LoopOK'
      BY <1>28 DEF OtherForceCloseSets, LoopOK, loopVars, refVars, histVars
    <2>3. BytesOK' /\ InOrder'
      BY <1>28 DEF OtherForceCloseSets, BytesOK, InOrder, kernelVars, histVars
    <2>4. WritingIffBuffered' /\ Control'
      BY <1>28 DEF OtherForceCloseSets, WritingIffBuffered, Control, Open,
         isWriting, isReading, LoopOK, Established, Fresh, Closing,
         channelVars, loopVars, refVars, histVars, reportVars, epollVars
    <2>5. Established' /\ Referenced'
      BY <1>28 DEF OtherForceCloseSets, Established, Fresh, Referenced,
         Control, LoopOK, Open, channelVars, loopVars, refVars, histVars,
         reportVars, epollVars
    <2>6. Closing' /\ Removed'
      BY <1>28 DEF OtherForceCloseSets, Closing, Removed, Established, Fresh,
         LoopOK, Referenced, Open, channelVars, loopVars, refVars, histVars,
         reportVars, epollVars
    <2> QED BY <2>1, <2>2, <2>3, <2>4, <2>5, <2>6
  <1>29. CASE OtherForceCloseQueues
    <2>0. Grows(pending', pending, "forceClose")
      <3>1. pending \in Seq(Functors) /\ "forceClose" \in Functors
        BY DEF LoopOK, Functors
      <3>2. pending' = pending \o <<"forceClose">>
        BY <1>29 DEF OtherForceCloseQueues, Queue
      <3> QED BY <3>1, <3>2, AppendGrows
    <2>1. ChannelStateOK' /\ ReportOK'
      BY <1>29, <2>0 DEF OtherForceCloseQueues, Queue, ChannelStateOK,
         ReportOK, channelVars, loopVars, reportVars, epollVars
    <2>2. LoopOK'
      BY <1>29, <2>0 DEF OtherForceCloseQueues, Queue, LoopOK, Grows,
         loopVars, refVars, histVars
    <2>3. BytesOK' /\ InOrder'
      BY <1>29, <2>0 DEF OtherForceCloseQueues, Queue, BytesOK, InOrder,
         kernelVars, histVars
    <2>4. WritingIffBuffered' /\ Control'
      BY <1>29, <2>0 DEF OtherForceCloseQueues, Queue, WritingIffBuffered,
         Control, Open, isWriting, isReading, LoopOK, Established, Fresh,
         Closing, channelVars, loopVars, refVars, histVars, reportVars,
         epollVars
    <2>5. Established' /\ Referenced'
      BY <1>29, <2>0 DEF OtherForceCloseQueues, Queue, Established, Fresh,
         Referenced, Control, LoopOK, Open, Grows, channelVars, loopVars,
         refVars, histVars, reportVars, epollVars
    <2>6. Closing' /\ Removed'
      BY <1>29, <2>0 DEF OtherForceCloseQueues, Queue, Closing, Removed,
         Established, Fresh, LoopOK, Referenced, Open, Grows, channelVars,
         loopVars, refVars, histVars, reportVars, epollVars
    <2> QED BY <2>1, <2>2, <2>3, <2>4, <2>5, <2>6
  <1>30. CASE OwnerRemoves
    <2>0. Grows(pending', pending, "connectDestroyed")
      <3>1. pending \in Seq(Functors) /\ "connectDestroyed" \in Functors
        BY DEF LoopOK, Functors
      <3>2. pending' = pending \o <<"connectDestroyed">>
        BY <1>30 DEF OwnerRemoves, Queue
      <3> QED BY <3>1, <3>2, AppendGrows
    <2>1. ChannelStateOK' /\ ReportOK'
      BY <1>30, <2>0 DEF OwnerRemoves, Queue, ChannelStateOK, ReportOK,
         channelVars, loopVars, reportVars, epollVars
    <2>2. LoopOK'
      <3>1. closing' \in Nat
        BY <1>30 DEF OwnerRemoves, LoopOK
      <3>2. batch' \in 0 .. Len(pending')
        BY <1>30, <2>0 DEF OwnerRemoves, LoopOK, loopVars, Grows
      <3>3. {delayed, userRef, ownerRef}' \subseteq BOOLEAN
        BY <1>30 DEF OwnerRemoves, LoopOK
      <3> QED BY <1>30, <2>0, <3>1, <3>2, <3>3 DEF OwnerRemoves, LoopOK, loopVars, histVars, Grows
    <2>3. BytesOK' /\ InOrder'
      BY <1>30, <2>0 DEF OwnerRemoves, Queue, BytesOK, InOrder, kernelVars,
         histVars
    <2>4. WritingIffBuffered' /\ Control'
      BY <1>30, <2>0 DEF OwnerRemoves, Queue, WritingIffBuffered, Control,
         Open, isWriting, isReading, LoopOK, Established, Fresh, Closing,
         channelVars, loopVars, histVars, reportVars, epollVars
    <2>5. Established' /\ Referenced'
      BY <1>30, <2>0 DEF OwnerRemoves, Queue, Established, Fresh, Referenced,
         Control, LoopOK, Open, Grows, channelVars, loopVars, histVars,
         reportVars, epollVars
    <2>6. Closing' /\ Removed'
      BY <1>30, <2>0 DEF OwnerRemoves, Queue, Closing, Removed, Established,
         Fresh, LoopOK, Referenced, Open, Grows, channelVars, loopVars,
         histVars, reportVars, epollVars
    <2> QED BY <2>1, <2>2, <2>3, <2>4, <2>5, <2>6
  <1>31. CASE PeerSends
    <2>1. ChannelStateOK' /\ ReportOK'
      BY <1>31 DEF PeerSends, Network, ChannelStateOK, ReportOK, channelVars,
         loopVars, reportVars, epollVars
    <2>2. LoopOK'
      BY <1>31 DEF PeerSends, Network, LoopOK, loopVars, refVars
    <2>3. BytesOK' /\ InOrder'
      BY <1>31 DEF PeerSends, Network, BytesOK, InOrder
    <2>4. WritingIffBuffered' /\ Control'
      BY <1>31 DEF PeerSends, Network, WritingIffBuffered, Control, Open,
         isWriting, isReading, LoopOK, Established, Fresh, Closing,
         channelVars, loopVars, refVars, reportVars, epollVars
    <2>5. Established' /\ Referenced'
      BY <1>31 DEF PeerSends, Network, Established, Fresh, Referenced,
         Control, LoopOK, Open, channelVars, loopVars, refVars, reportVars,
         epollVars
    <2>6. Closing' /\ Removed'
      BY <1>31 DEF PeerSends, Network, Closing, Removed, Established, Fresh,
         LoopOK, Referenced, Open, channelVars, loopVars, refVars, reportVars,
         epollVars
    <2> QED BY <2>1, <2>2, <2>3, <2>4, <2>5, <2>6
  <1>32. CASE PeerReads
    <2>1. ChannelStateOK' /\ ReportOK'
      BY <1>32 DEF PeerReads, Network, ChannelStateOK, ReportOK, channelVars,
         loopVars, reportVars, epollVars
    <2>2. LoopOK'
      BY <1>32 DEF PeerReads, Network, LoopOK, loopVars, refVars
    <2>3. BytesOK' /\ InOrder'
      BY <1>32 DEF PeerReads, Network, BytesOK, InOrder
    <2>4. WritingIffBuffered' /\ Control'
      BY <1>32 DEF PeerReads, Network, WritingIffBuffered, Control, Open,
         isWriting, isReading, LoopOK, Established, Fresh, Closing,
         channelVars, loopVars, refVars, reportVars, epollVars
    <2>5. Established' /\ Referenced'
      BY <1>32 DEF PeerReads, Network, Established, Fresh, Referenced,
         Control, LoopOK, Open, channelVars, loopVars, refVars, reportVars,
         epollVars
    <2>6. Closing' /\ Removed'
      BY <1>32 DEF PeerReads, Network, Closing, Removed, Established, Fresh,
         LoopOK, Referenced, Open, channelVars, loopVars, refVars, reportVars,
         epollVars
    <2> QED BY <2>1, <2>2, <2>3, <2>4, <2>5, <2>6
  <1>33. CASE PeerCloses
    <2>1. ChannelStateOK' /\ ReportOK'
      BY <1>33 DEF PeerCloses, Network, ChannelStateOK, ReportOK, channelVars,
         loopVars, reportVars, epollVars
    <2>2. LoopOK'
      BY <1>33 DEF PeerCloses, Network, LoopOK, loopVars, refVars
    <2>3. BytesOK' /\ InOrder'
      BY <1>33 DEF PeerCloses, Network, BytesOK, InOrder
    <2>4. WritingIffBuffered' /\ Control'
      BY <1>33 DEF PeerCloses, Network, WritingIffBuffered, Control, Open,
         isWriting, isReading, LoopOK, Established, Fresh, Closing,
         channelVars, loopVars, refVars, reportVars, epollVars
    <2>5. Established' /\ Referenced'
      BY <1>33 DEF PeerCloses, Network, Established, Fresh, Referenced,
         Control, LoopOK, Open, channelVars, loopVars, refVars, reportVars,
         epollVars
    <2>6. Closing' /\ Removed'
      BY <1>33 DEF PeerCloses, Network, Closing, Removed, Established, Fresh,
         LoopOK, Referenced, Open, channelVars, loopVars, refVars, reportVars,
         epollVars
    <2> QED BY <2>1, <2>2, <2>3, <2>4, <2>5, <2>6
  <1>34. CASE PeerResets
    <2>1. ChannelStateOK' /\ ReportOK'
      BY <1>34 DEF PeerResets, Network, ChannelStateOK, ReportOK, channelVars,
         loopVars, reportVars, epollVars
    <2>2. LoopOK'
      BY <1>34 DEF PeerResets, Network, LoopOK, loopVars, refVars
    <2>3. BytesOK' /\ InOrder'
      BY <1>34 DEF PeerResets, Network, BytesOK, InOrder
    <2>4. WritingIffBuffered' /\ Control'
      BY <1>34 DEF PeerResets, Network, WritingIffBuffered, Control, Open,
         isWriting, isReading, LoopOK, Established, Fresh, Closing,
         channelVars, loopVars, refVars, reportVars, epollVars
    <2>5. Established' /\ Referenced'
      BY <1>34 DEF PeerResets, Network, Established, Fresh, Referenced,
         Control, LoopOK, Open, channelVars, loopVars, refVars, reportVars,
         epollVars
    <2>6. Closing' /\ Removed'
      BY <1>34 DEF PeerResets, Network, Closing, Removed, Established, Fresh,
         LoopOK, Referenced, Open, channelVars, loopVars, refVars, reportVars,
         epollVars
    <2> QED BY <2>1, <2>2, <2>3, <2>4, <2>5, <2>6
  <1>35. CASE UNCHANGED vars
    <2>1. ChannelStateOK' /\ ReportOK'
      BY <1>35 DEF vars, ChannelStateOK, ReportOK, channelVars, epollVars, loopVars, reportVars, kernelVars, refVars, histVars
    <2>2. LoopOK'
      BY <1>35 DEF vars, LoopOK, channelVars, epollVars, loopVars, reportVars, kernelVars, refVars, histVars
    <2>3. BytesOK' /\ InOrder'
      BY <1>35 DEF vars, BytesOK, InOrder, channelVars, epollVars, loopVars, reportVars, kernelVars, refVars, histVars
    <2>4. WritingIffBuffered' /\ Control'
      BY <1>35 DEF vars, WritingIffBuffered, Control, Open, isWriting, isReading, LoopOK, Established, Fresh, Closing, channelVars, epollVars, loopVars, reportVars, kernelVars, refVars, histVars
    <2>5. Established' /\ Referenced'
      BY <1>35 DEF vars, Established, Fresh, Referenced, Control, LoopOK, Open, channelVars, epollVars, loopVars, reportVars, kernelVars, refVars, histVars
    <2>6. Closing' /\ Removed'
      BY <1>35 DEF vars, Closing, Removed, Established, Fresh, LoopOK, Referenced, Open, channelVars, epollVars, loopVars, reportVars, kernelVars, refVars, histVars
    <2> QED BY <2>1, <2>2, <2>3, <2>4, <2>5, <2>6
  <1> QED
    BY <1>1, <1>2, <1>3, <1>4, <1>5, <1>6, <1>7, <1>8, <1>9, <1>10, <1>11, <1>12, <1>13, <1>14, <1>15, <1>16, <1>17, <1>18, <1>19, <1>20, <1>21, <1>22, <1>23, <1>24, <1>25, <1>26, <1>27, <1>28, <1>29, <1>30, <1>31, <1>32, <1>33, <1>34, <1>35, <1>36
    DEF Next, LoopStep, UserCalls, OtherThread, OtherForceCloses, RunFunctor, Dispatch

(* Nothing taken is nothing sent and nothing buffered. *)
LEMMA NothingYet == Intact(<<>> \o <<>>, 0, {})
  <1>1. <<>> \o <<>> = <<>> /\ DOMAIN <<>> = {} /\ Len(<<>>) = 0
    OBVIOUS
  <1>2. 1 .. 0 = {} /\ 1 .. 0 - 1 = {}
    OBVIOUS
  <1> QED BY <1>1, <1>2 DEF Intact

(* A connection starts as TcpServer::newConnection leaves it. *)
LEMMA InitParts == Init => Parts
  <1> SUFFICES ASSUME Init PROVE Parts
    OBVIOUS
  <1> USE BoundsAssumption DEF Init
  <1>1. ChannelStateOK /\ ReportOK
    <2>1. ops \in Seq(Operation)
      BY DEF ChannelInit, EpollInit
    <2> QED BY <2>1 DEF ChannelInit, EpollInit, ChannelStateOK, ReportOK
  <1>2. LoopOK
    <2>1. "connectEstablished" \in Functors
      BY DEF Functors
    <2>2. pending \in Seq(Functors) /\ Len(pending) = 1
      BY <2>1
    <2>3. {delayed, userRef, ownerRef} \subseteq BOOLEAN
      OBVIOUS
    <2> QED BY <2>2, <2>3 DEF LoopOK
  <1>3. BytesOK
    <2>1. RoomCap \in Nat /\ room \in 0 .. RoomCap
      OBVIOUS
    <2>2. {inAvail, peerFin, reset, finSent} \subseteq BOOLEAN
      OBVIOUS
    <2>3. outBuf \in Seq(Nat) /\ wire \in Seq(Nat) /\ accepted \in Nat /\ dropped \subseteq 0 .. accepted
      OBVIOUS
    <2> QED BY <2>1, <2>2, <2>3 DEF BytesOK
  <1>4. InOrder
    <2>1. accepted = 0 * MsgLen /\ 0 \in 0 .. accepted
      OBVIOUS
    <2>2. Intact(wire \o outBuf, accepted, dropped)
      BY NothingYet
    <2> QED BY <2>1, <2>2 DEF InOrder
  <1>5. WritingIffBuffered /\ Control
    BY DEF WritingIffBuffered, Control, Open, ChannelInit
  <1>6. Established
    BY DEF Established, Fresh, ChannelInit, EpollInit
  <1>7. ~In("sendInLoop", pending) /\ ~In("connectDestroyed", pending)
    BY DEF In
  <1>8. Referenced /\ Closing /\ Removed
    BY <1>7 DEF Referenced, Closing, Removed
  <1> QED BY <1>1, <1>2, <1>3, <1>4, <1>5, <1>6, <1>8 DEF Parts

(* Hence the invariant in every state. *)
LEMMA AlwaysParts == Spec => []Parts
  <1>1. Init => Parts
    BY InitParts
  <1>2. Parts /\ [Next]_vars => Parts'
    BY NextParts
  <1> QED BY <1>1, <1>2, PTL DEF Spec

(* The inductive invariant, of which the theorems below are consequences.  *)
THEOREM InductiveInvariant == Spec => []IInv
  <1> QED BY AlwaysParts, IInvParts, PTL

(* Output is accounted for: whoever calls send(), however much of it       *)
(* sockets::write takes at a time, what the kernel has taken and what      *)
(* outputBuffer_ holds is, in order and each byte once, what sendInLoop    *)
(* took but for what a failing handleWrite threw away; the byte that a     *)
(* failing direct write adds stands in front of a message; and while the   *)
(* connection is open the channel watches for output exactly when there is *)
(* some.                                                                   *)
THEOREM NoOutputLost == Spec => []OutputAccounted
  <1>1. IInv => OutputAccounted
    BY DEF IInv, OutputAccounted
  <1> QED BY <1>1, InductiveInvariant, PTL

(* When the last TcpConnectionPtr goes, ~TcpConnection finds the state and *)
(* ~Channel the flag they assert, and no functor bound to the raw pointer  *)
(* is left in the queue.                                                   *)
THEOREM DestructorFindsOrder == Spec => []DestroyedClean
  <1>1. IInv => DestroyedClean
    <2> SUFFICES ASSUME Parts, Unreferenced
                 PROVE  state = "kDisconnected" /\ ~addedToLoop /\ events = {} /\ pending = <<>>
      BY IInvParts DEF DestroyedClean
    <2> USE DEF Parts
    <2>1. pending = <<>>
      <3>1. pending \in Seq(Functors) /\ ~In("sendInLoop", pending)
        BY DEF LoopOK, Referenced, Unreferenced
      <3>2. DOMAIN pending = {}
        BY <3>1 DEF Unreferenced, In
      <3> QED BY <3>1, <3>2
    <2>2. \A f : ~In(f, pending)
      BY <2>1 DEF In
    <2>3. ~userRef /\ ~ownerRef /\ closing = 0 /\ otherPc = "idle"
      BY DEF Unreferenced, Referenced, LoopOK
    <2>4. state = "kDisconnected" /\ events = {}
      BY <2>2, <2>3 DEF Closing
    <2>5. ~addedToLoop
      BY <2>2, <2>3, <2>4 DEF Removed
    <2> QED BY <2>1, <2>4, <2>5
  <1> QED BY <1>1, InductiveInvariant, PTL

(* shutdownInLoop closes the sending side only once nothing is buffered:   *)
(* at once when the channel is not writing, or from handleWrite when the   *)
(* last of the buffer is gone -- into the kernel, or thrown away by a      *)
(* write that failed.  All output not thrown away is in the kernel then.   *)
THEOREM ShutdownAfterOutput == Spec => FinAfterOutput
  <1> DEFINE Sent == (1 .. accepted) \ dropped \subseteq {wire[i] : i \in DOMAIN wire}
  <1>0. ASSUME Parts, outBuf = <<>> PROVE Sent
    <2>1. wire \o outBuf = wire
      BY <1>0, ConcatEmptySeq DEF Parts, BytesOK
    <2>2. Intact(wire, accepted, dropped)
      BY <1>0, <2>1 DEF Parts, InOrder
    <2> QED BY <2>2 DEF Intact
  <1>1. ASSUME Parts, Next, ~finSent, finSent' PROVE outBuf' = <<>>
    <2> USE <1>1 DEF Parts
    <2>1. CASE Shutdown
      <3>1. state = "kConnected" /\ ~isWriting /\ outBuf' = outBuf
        BY <2>1 DEF Shutdown, FinAfterShutdown
      <3>2. closes = 0
        BY <3>1 DEF Closing, LoopOK
      <3> QED BY <3>1, <3>2 DEF WritingIffBuffered, Open
    <2>2. CASE DispatchWrite \/ DispatchWriteFails
      BY <2>2 DEF DispatchWrite, DispatchWriteFails, Keep
    <2>3. CASE Send
      <3>1. /\ SendInLoop(pending) /\ pending \in Seq(Functors) /\ state = "kConnected"
            /\ dropped' = dropped
        BY <2>3 DEF Send, LoopOK
      <3>2. UNCHANGED finSent
        BY <3>1, SendInLoopKeeps
      <3> QED BY <3>2
    <2>4. CASE RunSendInLoop
      BY <2>4 DEF RunSendInLoop, SendInLoop, kernelVars
    <2>5. CASE \/ DispatchClose \/ DispatchReadEnd \/ ForceCloseInLoop
      BY <2>5 DEF DispatchClose, DispatchReadEnd, ForceCloseInLoop, HandleClose, kernelVars
    <2>6. CASE \/ PeerSends \/ PeerReads \/ PeerCloses \/ PeerResets
      BY <2>6 DEF PeerSends, PeerReads, PeerCloses, PeerResets, Network
    <2>7. CASE \/ PollReturns \/ StartDispatch \/ DelayedForceClose \/ HandleEvent
               \/ DispatchReadData \/ DispatchNoWrite \/ SwapFunctors \/ CallbackReturns
               \/ EndIteration \/ ConnectEstablished \/ RunCallback \/ ConnectDestroyed
      BY <2>7 DEF PollReturns, StartDispatch, DelayedForceClose, HandleEvent,
         DispatchReadData, DispatchNoWrite, SwapFunctors, CallbackReturns, EndIteration,
         ConnectEstablished, RunCallback, ConnectDestroyed, kernelVars
    <2>8. CASE \/ ForceClose \/ ForceCloseWithDelay \/ StopRead \/ StartRead
               \/ OtherThread \/ OwnerRemoves
      BY <2>8 DEF ForceClose, ForceCloseWithDelay, StopRead, StartRead, Toggle,
         OtherThread, OtherSendChecks, OtherSendQueues, DropReference, OtherForceCloseChecks,
         OtherForceCloses, OtherForceCloseSets, OtherForceCloseQueues, OwnerRemoves, kernelVars
    <2> QED BY <2>1, <2>2, <2>3, <2>4, <2>5, <2>6, <2>7, <2>8
            DEF Next, LoopStep, UserCalls, RunFunctor, Dispatch
  <1>2. Parts /\ Parts' /\ [Next]_vars => [~finSent /\ finSent' => Sent']_vars
    <2> SUFFICES ASSUME Parts, Parts', Next, ~finSent, finSent' PROVE Sent'
      OBVIOUS
    <2>1. outBuf' = <<>>
      BY <1>1
    <2> HIDE DEF Sent
    <2>2. (Parts /\ outBuf = <<>> => Sent)'
      BY <1>0, PTL
    <2> QED BY <2>1, <2>2
  <1>3. [~finSent /\ finSent' => Sent']_vars
           => [~finSent /\ finSent'
                 => (1 .. accepted') \ dropped' \subseteq {wire'[i] : i \in DOMAIN wire'}]_vars
    OBVIOUS
  <1> HIDE DEF Sent
  <1> QED BY <1>2, <1>3, AlwaysParts, PTL DEF Spec, FinAfterOutput
=====
