-------------------------- MODULE MCSequentialProof --------------------------
(***************************************************************************)
(* What holds of the parts that one thread uses by itself, for any size    *)
(* and number of what they work on.  Each part has an invariant of its     *)
(* own, which its steps keep, and the steps of the others leave its        *)
(* variables alone.                                                        *)
(***************************************************************************)
EXTENDS MCSequential, SequenceTheorems, FiniteSetTheorems, WellFoundedInduction, TLAPS

----------------------------------------------------------------------------
(* The poller on select().                                                 *)

SelectTypes ==
    /\ pollfds \in Seq([fd : Int, events : PollEvents \cup {{}}])
    /\ fdTable \in [Fd -> PollChannel \cup {NoChannel}]
    /\ channel \in [PollChannel -> [fd : Int, index : Int, events : PollEvents \cup {{}},
                                    gone : BOOLEAN]]

(* A channel that is registered is at its index...                         *)
InPlace(c) ==
    /\ channel[c].fd \in Fd /\ fdTable[channel[c].fd] = c
    /\ channel[c].index + 1 \in 1 .. Len(pollfds)
    /\ pollfds[channel[c].index + 1].events = channel[c].events
    /\ pollfds[channel[c].index + 1].fd = IF channel[c].events = {}
                                          THEN Ignored(channel[c].fd) ELSE channel[c].fd

(* ... and each place is that of the channel of its descriptor.            *)
Holder(i) == fdTable[Descriptor(pollfds[i].fd)]
Held(i) == /\ Descriptor(pollfds[i].fd) \in Fd
           /\ Holder(i) \in Registered
           /\ channel[Holder(i)].index + 1 = i

TableKnown == \A fd \in Fd : fdTable[fd] # NoChannel =>
                    fdTable[fd] \in Registered /\ channel[fdTable[fd]].fd = fd

Reported == \A i, j \in DOMAIN active :
                /\ active[i].channel \in Registered
                /\ i # j => active[i].channel # active[j].channel

SelectInv ==
    /\ SelectTypes
    /\ \A c \in Registered : InPlace(c)
    /\ \A i \in 1 .. Len(pollfds) : Held(i)
    /\ TableKnown
    /\ Len(pollfds) = Cardinality(Registered)
    /\ Reported

(* A number and what stands for it when it is ignored.                     *)
LEMMA IgnoredIsNegative ==
    ASSUME NEW fd \in Fd
    PROVE  /\ fd \in Int /\ Ignored(fd) \in Int
           /\ Descriptor(fd) = fd /\ Descriptor(Ignored(fd)) = fd
  BY SelectAssumption DEF Ignored, Descriptor

(* Channels that are registered, and the entries of the tables.            *)
LEMMA RegisteredTypes ==
    ASSUME SelectTypes
    PROVE  /\ Len(pollfds) \in Nat
           /\ \A c \in PollChannel : channel[c].index \in Int /\ channel[c].gone \in BOOLEAN
           /\ \A c \in Registered : c \in PollChannel /\ c # NoChannel
           /\ \A i \in 1 .. Len(pollfds) :
                 pollfds[i] \in [fd : Int, events : PollEvents \cup {{}}]
           /\ IsFiniteSet(Registered)
  <1>1. pollfds \in Seq([fd : Int, events : PollEvents \cup {{}}])
    BY DEF SelectTypes
  <1>2. \A i \in 1 .. Len(pollfds) : pollfds[i] \in [fd : Int, events : PollEvents \cup {{}}]
    BY <1>1, ElementOfSeq
  <1>3. Len(pollfds) \in Nat
    BY <1>1, LenProperties
  <1>4. \A c \in PollChannel : channel[c].index \in Int /\ channel[c].gone \in BOOLEAN
    BY DEF SelectTypes
  <1>5. Registered \subseteq PollChannel
    BY DEF Registered
  <1>6. IsFiniteSet(Registered)
    BY <1>5, SelectAssumption, FS_Subset
  <1> QED BY <1>2, <1>3, <1>4, <1>5, <1>6, SelectAssumption

(* No two channels have one place.                                         *)
LEMMA PlacesDiffer ==
    ASSUME SelectInv, NEW c \in Registered, NEW d \in Registered,
           channel[c].index = channel[d].index
    PROVE  c = d
  <1>1. /\ InPlace(c) /\ InPlace(d)
    BY DEF SelectInv
  <1>2. PICK i : i = channel[c].index + 1
    OBVIOUS
  <1>3. /\ fdTable[channel[c].fd] = c /\ fdTable[channel[d].fd] = d
        /\ channel[c].fd \in Fd /\ channel[d].fd \in Fd
        /\ pollfds[i].fd = channel[c].fd \/ pollfds[i].fd = Ignored(channel[c].fd)
        /\ pollfds[i].fd = channel[d].fd \/ pollfds[i].fd = Ignored(channel[d].fd)
    BY <1>1, <1>2 DEF InPlace
  <1>4. Descriptor(pollfds[i].fd) = channel[c].fd /\ Descriptor(pollfds[i].fd) = channel[d].fd
    BY <1>3, IgnoredIsNegative
  <1> QED BY <1>3, <1>4

(* The channel at its place is the holder of the place.                    *)
LEMMA HolderOfPlace ==
    ASSUME NEW c, NEW i, InPlace(c), i = channel[c].index + 1
    PROVE  Descriptor(pollfds[i].fd) = channel[c].fd /\ Holder(i) = c
  <1>1. channel[c].fd \in Fd /\ fdTable[channel[c].fd] = c
    BY DEF InPlace
  <1>2. pollfds[i].fd = channel[c].fd \/ pollfds[i].fd = Ignored(channel[c].fd)
    BY DEF InPlace
  <1>3. Descriptor(pollfds[i].fd) = channel[c].fd
    BY <1>1, <1>2, IgnoredIsNegative
  <1> QED BY <1>1, <1>3 DEF Holder

(* Nothing is registered with a new poller.                                *)
LEMMA SelectBegins == SelectInit => SelectInv
  <1> SUFFICES ASSUME SelectInit PROVE SelectInv
    OBVIOUS
  <1>1. Registered = {}
    BY DEF SelectInit, Registered
  <1>2. pollfds = <<>> /\ Len(pollfds) = 0 /\ active = <<>>
    BY DEF SelectInit
  <1>3. SelectTypes
    BY EmptySeq DEF SelectInit, SelectTypes
  <1>4. Cardinality({}) = 0
    BY FS_EmptySet
  <1>5. TableKnown
    BY DEF TableKnown, SelectInit
  <1> QED BY <1>1, <1>2, <1>3, <1>4, <1>5 DEF SelectInv, Reported

(* A new channel gets the next place and the entry of its descriptor       *)
(* (selectPoller.cpp:91-104).                                              *)
LEMMA AddKept ==
    ASSUME SelectInv, NEW c \in PollChannel, NEW fd \in Fd, NEW events \in PollEvents,
           AddPollFd(c, fd, events)
    PROVE  SelectInv'
  <1> DEFINE slot == [fd |-> fd, events |-> events]
             n == Len(pollfds)
  <1>t. SelectTypes
    BY DEF SelectInv
  <1>a. /\ channel[c].index < 0 /\ fdTable[fd] = NoChannel /\ events # {}
        /\ pollfds' = Append(pollfds, slot)
        /\ fdTable' = [fdTable EXCEPT ![fd] = c]
        /\ channel' = [channel EXCEPT ![c] = [fd |-> fd, index |-> n,
                                              events |-> events, gone |-> FALSE]]
        /\ active' = <<>>
    BY DEF AddPollFd
  <1>n. n \in Nat
    BY <1>t, RegisteredTypes
  <1>1. /\ Len(pollfds') = n + 1 /\ pollfds'[n + 1] = slot
        /\ \A i \in 1 .. n : pollfds'[i] = pollfds[i]
        /\ pollfds' \in Seq([fd : Int, events : PollEvents \cup {{}}])
    <2>1. slot \in [fd : Int, events : PollEvents \cup {{}}]
      BY IgnoredIsNegative
    <2>2. pollfds \in Seq([fd : Int, events : PollEvents \cup {{}}])
      BY <1>t DEF SelectTypes
    <2> HIDE DEF slot
    <2> QED BY <1>a, <2>1, <2>2, AppendProperties
  <1>2. /\ channel'[c].fd = fd /\ channel'[c].index = n /\ channel'[c].events = events
        /\ channel'[c].gone = FALSE
        /\ \A d \in PollChannel : d # c => channel'[d] = channel[d]
        /\ fdTable'[fd] = c /\ \A f \in Fd : f # fd => fdTable'[f] = fdTable[f]
    BY <1>t, <1>a DEF SelectTypes
  <1>3. SelectTypes'
    BY <1>t, <1>a, <1>1, <1>n, IgnoredIsNegative DEF SelectTypes
  <1> HIDE DEF slot, n
  <1>4. c \notin Registered /\ Registered' = Registered \cup {c}
    BY <1>t, <1>a, <1>2, <1>n, RegisteredTypes DEF Registered
  <1>5. \A d \in Registered : d # c /\ d # NoChannel /\ d \in PollChannel
    BY <1>t, <1>4, RegisteredTypes
  <1>6. ASSUME NEW d \in Registered' PROVE InPlace(d)'
    <2>1. CASE d = c
      <3>1. n + 1 \in 1 .. Len(pollfds') /\ channel'[d].index + 1 = n + 1
        BY <1>1, <1>2, <1>n, <2>1
      <3>2. pollfds'[n + 1].fd = fd /\ pollfds'[n + 1].events = events
        BY <1>1 DEF slot
      <3> QED BY <1>a, <1>2, <2>1, <3>1, <3>2 DEF InPlace
    <2>2. CASE d # c
      <3>1. d \in Registered /\ channel'[d] = channel[d]
        BY <1>2, <1>4, <1>5, <2>2
      <3>2. InPlace(d)
        BY <3>1 DEF SelectInv
      <3>3. channel[d].fd # fd /\ channel[d].fd \in Fd
        BY <1>a, <1>5, <3>1, <3>2 DEF InPlace
      <3>4. fdTable'[channel[d].fd] = d
        BY <1>2, <3>2, <3>3 DEF InPlace
      <3>5. channel[d].index + 1 \in 1 .. n
        BY <3>2 DEF InPlace, n
      <3>6. channel[d].index + 1 \in 1 .. Len(pollfds')
        BY <1>1, <1>n, <3>5
      <3>7. pollfds'[channel[d].index + 1] = pollfds[channel[d].index + 1]
        BY <1>1, <3>5
      <3> QED BY <3>1, <3>2, <3>3, <3>4, <3>6, <3>7 DEF InPlace
    <2> QED BY <2>1, <2>2
  <1>7. ASSUME NEW i \in 1 .. Len(pollfds') PROVE Held(i)'
    <2>1. CASE i = n + 1
      <3>1. InPlace(c)' /\ i = channel'[c].index + 1
        BY <1>2, <1>4, <1>6, <2>1
      <3>2. channel'[c].fd = fd /\ pollfds'[i].fd = fd
        BY <1>1, <1>2, <2>1 DEF slot
      <3>3. Descriptor(pollfds'[i].fd) = fd
        BY <3>2, IgnoredIsNegative
      <3>4. Holder(i)' = c
        BY <1>2, <3>3 DEF Holder
      <3> QED BY <1>4, <3>1, <3>3, <3>4 DEF Held
    <2>2. CASE i # n + 1
      <3>1. i \in 1 .. n
        BY <1>1, <1>n, <2>2
      <3>2. Held(i) /\ pollfds'[i] = pollfds[i]
        BY <1>1, <3>1 DEF SelectInv, n
      <3>3. Holder(i) \in Registered
        BY <3>2 DEF Held
      <3>4. Descriptor(pollfds[i].fd) # fd /\ Descriptor(pollfds[i].fd) \in Fd
        BY <1>a, <1>5, <3>2, <3>3 DEF Held, Holder
      <3>5. Holder(i)' = Holder(i)
        BY <1>2, <3>2, <3>4 DEF Holder
      <3>6. channel'[Holder(i)] = channel[Holder(i)]
        BY <1>2, <1>5, <3>3
      <3> QED BY <1>4, <3>2, <3>3, <3>5, <3>6 DEF Held
    <2> QED BY <2>1, <2>2
  <1>8. TableKnown'
    BY <1>2, <1>4, <1>5 DEF SelectInv, TableKnown
  <1>9. Len(pollfds') = Cardinality(Registered')
    <2>1. Cardinality(Registered \cup {c}) = Cardinality(Registered) + 1
      BY <1>t, <1>4, RegisteredTypes, FS_AddElement
    <2> QED BY <1>1, <1>4, <2>1 DEF SelectInv, n
  <1>10. Reported'
    BY <1>a DEF Reported
  <1> QED BY <1>3, <1>6, <1>7, <1>8, <1>9, <1>10 DEF SelectInv

(* What a channel waits for is changed at its place, also when it is       *)
(* ignored from then on or no longer (selectPoller.cpp:105-121).           *)
LEMMA ChangeKept ==
    ASSUME SelectInv, NEW c \in PollChannel, NEW events \in PollEvents,
           ChangePollFd(c, events)
    PROVE  SelectInv'
  <1> DEFINE fd == channel[c].fd
             k == channel[c].index + 1
             slot == [fd |-> IF events = {} THEN Ignored(fd) ELSE fd, events |-> events]
             n == Len(pollfds)
  <1>t. SelectTypes
    BY DEF SelectInv
  <1>a. /\ c \in Registered
        /\ pollfds' = [pollfds EXCEPT ![k] = slot]
        /\ channel' = [channel EXCEPT ![c].events = events]
        /\ active' = <<>> /\ fdTable' = fdTable
    BY DEF ChangePollFd
  <1>b. InPlace(c)
    BY <1>a DEF SelectInv
  <1>n. n \in Nat /\ k \in 1 .. n /\ fd \in Fd
    BY <1>t, <1>b, RegisteredTypes DEF InPlace
  <1>1. /\ Len(pollfds') = n /\ pollfds'[k] = slot
        /\ \A i \in 1 .. n : i # k => pollfds'[i] = pollfds[i]
        /\ pollfds' \in Seq([fd : Int, events : PollEvents \cup {{}}])
    <2>1. slot \in [fd : Int, events : PollEvents \cup {{}}]
      BY <1>n, IgnoredIsNegative
    <2>2. pollfds \in Seq([fd : Int, events : PollEvents \cup {{}}])
      BY <1>t DEF SelectTypes
    <2> HIDE DEF slot, k
    <2> QED BY <1>a, <1>n, <2>1, <2>2, ExceptSeq
  <1>2. /\ channel'[c].fd = fd /\ channel'[c].index = channel[c].index
        /\ channel'[c].events = events /\ channel'[c].gone = channel[c].gone
        /\ \A d \in PollChannel : d # c => channel'[d] = channel[d]
    BY <1>t, <1>a DEF SelectTypes
  <1>3. SelectTypes'
    BY <1>t, <1>a, <1>1 DEF SelectTypes
  <1>d. slot.events = events /\ slot.fd = IF events = {} THEN Ignored(fd) ELSE fd
    OBVIOUS
  <1>k. k = channel[c].index + 1 /\ fd = channel[c].fd /\ n = Len(pollfds)
    OBVIOUS
  <1> HIDE DEF slot, k, n, fd
  <1>4. Registered' = Registered
    BY <1>2 DEF Registered
  <1>5. ASSUME NEW d \in Registered PROVE InPlace(d)'
    <2>1. CASE d = c
      BY <1>a, <1>b, <1>n, <1>1, <1>2, <1>d, <1>k, <2>1 DEF InPlace
    <2>2. CASE d # c
      <3>1. d \in PollChannel /\ channel'[d] = channel[d]
        BY <1>2, <1>t, <2>2, RegisteredTypes
      <3>2. InPlace(d)
        BY DEF SelectInv
      <3>3. channel[d].index # channel[c].index
        BY <1>a, <2>2, PlacesDiffer
      <3>4. channel[d].index + 1 # k
        BY <1>a, <1>k, <1>t, <3>1, <3>3, RegisteredTypes
      <3>5. pollfds'[channel[d].index + 1] = pollfds[channel[d].index + 1]
        BY <1>1, <1>k, <3>2, <3>4 DEF InPlace
      <3> QED BY <1>1, <1>a, <1>k, <3>1, <3>2, <3>5 DEF InPlace
    <2> QED BY <2>1, <2>2
  <1>6. ASSUME NEW i \in 1 .. Len(pollfds') PROVE Held(i)'
    <2>1. CASE i = k
      <3>1. Descriptor(pollfds'[i].fd) = fd
        BY <1>1, <1>n, <1>d, <2>1, IgnoredIsNegative
      <3>2. Holder(i)' = c
        BY <1>a, <1>b, <1>k, <3>1 DEF Holder, InPlace
      <3> QED BY <1>a, <1>2, <1>4, <1>k, <1>n, <2>1, <3>1, <3>2 DEF Held
    <2>2. CASE i # k
      <3>1. i \in 1 .. Len(pollfds) /\ pollfds'[i] = pollfds[i]
        BY <1>1, <1>k, <2>2
      <3>2. Held(i)
        BY <3>1 DEF SelectInv
      <3>3. Holder(i)' = Holder(i)
        BY <1>a, <3>1 DEF Holder
      <3>4. Holder(i) \in PollChannel
        BY <1>t, <3>2, RegisteredTypes DEF Held
      <3>5. channel'[Holder(i)].index = channel[Holder(i)].index
        BY <1>2, <3>4
      <3> QED BY <1>4, <3>1, <3>2, <3>3, <3>5 DEF Held
    <2> QED BY <2>1, <2>2
  <1>7. TableKnown'
    <2>1. \A d \in PollChannel : channel'[d].fd = channel[d].fd
      BY <1>2 DEF fd
    <2> QED BY <1>a, <1>4, <1>t, <2>1, RegisteredTypes DEF SelectInv, TableKnown
  <1>8. Len(pollfds') = Cardinality(Registered')
    BY <1>1, <1>4 DEF SelectInv, n
  <1>9. Reported'
    BY <1>a DEF Reported
  <1> QED BY <1>3, <1>4, <1>5, <1>6, <1>7, <1>8, <1>9 DEF SelectInv

(* Taking the last element to a place of a sequence and shortening it.     *)
LEMMA LastToPlace ==
    ASSUME NEW S, NEW s \in Seq(S), NEW k \in 1 .. Len(s)
    PROVE  LET t == Front([s EXCEPT ![k] = s[Len(s)]])
           IN  /\ t \in Seq(S) /\ Len(t) = Len(s) - 1
               /\ \A i \in 1 .. Len(s) - 1 : t[i] = IF i = k THEN s[Len(s)] ELSE s[i]
  <1>1. Len(s) \in Nat /\ Len(s) \in 1 .. Len(s)
    BY LenProperties
  <1>2. s[Len(s)] \in S
    BY <1>1, ElementOfSeq
  <1> DEFINE e == [s EXCEPT ![k] = s[Len(s)]]
  <1>3. /\ e \in Seq(S) /\ Len(e) = Len(s)
        /\ \A i \in 1 .. Len(s) : e[i] = IF i = k THEN s[Len(s)] ELSE s[i]
    BY <1>1, <1>2, ExceptSeq
  <1> HIDE DEF e
  <1>4. Front(e) = SubSeq(e, 1, Len(s) - 1)
    BY <1>3 DEF Front
  <1>5. /\ Front(e) \in Seq(S) /\ Len(Front(e)) = Len(s) - 1
        /\ \A i \in 1 .. Len(s) - 1 : Front(e)[i] = e[i]
    BY <1>1, <1>3, <1>4
  <1>6. \A i \in 1 .. Len(s) - 1 : Front(e)[i] = IF i = k THEN s[Len(s)] ELSE s[i]
    BY <1>1, <1>3, <1>5
  <1> QED BY <1>5, <1>6 DEF e

(* The last place moves to that of the removed channel, and the channel it *)
(* is of gets that index (selectPoller.cpp:123-147).                       *)
LEMMA RemoveKept ==
    ASSUME SelectInv, NEW c \in PollChannel, RemovePollFd(c)
    PROVE  SelectInv'
  <1> DEFINE fd == channel[c].fd
             k == channel[c].index + 1
             n == Len(pollfds)
             m == Holder(n)
  <1>t. SelectTypes
    BY DEF SelectInv
  <1>a. /\ c \in Registered
        /\ pollfds' = Front([pollfds EXCEPT ![k] = pollfds[n]])
        /\ channel' = [IF k = n THEN channel ELSE WithLastAt(c) EXCEPT ![c].gone = TRUE]
        /\ fdTable' = [fdTable EXCEPT ![fd] = NoChannel]
        /\ active' = <<>>
    BY DEF RemovePollFd
  <1>b. InPlace(c)
    BY <1>a DEF SelectInv
  <1>n. n \in Nat /\ k \in 1 .. n /\ fd \in Fd /\ n \in 1 .. n
    <2>1. n \in Nat /\ k \in 1 .. n /\ fd \in Fd
      BY <1>t, <1>b, RegisteredTypes DEF InPlace
    <2> HIDE DEF k, n
    <2> QED BY <2>1
  <1>1. /\ pollfds' \in Seq([fd : Int, events : PollEvents \cup {{}}])
        /\ Len(pollfds') = n - 1
        /\ \A i \in 1 .. n - 1 : pollfds'[i] = IF i = k THEN pollfds[n] ELSE pollfds[i]
    <2>1. pollfds \in Seq([fd : Int, events : PollEvents \cup {{}}])
      BY <1>t DEF SelectTypes
    <2> HIDE DEF k
    <2> QED BY <1>a, <1>n, <2>1, LastToPlace
  <1>w. WithLastAt(c) = [channel EXCEPT ![m].index = channel[c].index]
    BY DEF WithLastAt, Holder
  <1>m. m \in Registered /\ m \in PollChannel /\ channel[m].index + 1 = n
    <2>1. Held(n)
      BY <1>n DEF SelectInv
    <2> QED BY <2>1, <1>t, RegisteredTypes DEF Held
  <1>k. k = channel[c].index + 1 /\ fd = channel[c].fd /\ n = Len(pollfds)
    OBVIOUS
  <1>c. k = n => m = c
    <2>1. k = n => Holder(k) = c
      BY <1>b, HolderOfPlace
    <2> QED BY <2>1
  <1>2. /\ channel'[c].gone = TRUE
        /\ \A d \in PollChannel : d # c => channel'[d].gone = channel[d].gone
        /\ \A d \in PollChannel : /\ channel'[d].fd = channel[d].fd
                                  /\ channel'[d].events = channel[d].events
        /\ \A d \in PollChannel : d # c /\ d # m => channel'[d].index = channel[d].index
        /\ m # c => channel'[m].index = channel[c].index
        /\ channel' \in [PollChannel -> [fd : Int, index : Int, events : PollEvents \cup {{}},
                                         gone : BOOLEAN]]
    <2>0. channel \in [PollChannel -> [fd : Int, index : Int, events : PollEvents \cup {{}},
                                         gone : BOOLEAN]]
      BY <1>t DEF SelectTypes
    <2>1. CASE k = n
      <3>1. channel' = [channel EXCEPT ![c].gone = TRUE]
        BY <1>a, <2>1
      <3> HIDE DEF k, n, m, fd
      <3> QED BY <1>c, <2>0, <2>1, <3>1
    <2>2. CASE k # n
      <3>0. m # c
        BY <1>m, <2>2
      <3>1. channel' = [[channel EXCEPT ![m].index = channel[c].index] EXCEPT ![c].gone = TRUE]
        BY <1>a, <1>w, <2>2
      <3> HIDE DEF k, n, m, fd
      <3>2. PICK mid : mid = [channel EXCEPT ![m].index = channel[c].index]
        OBVIOUS
      <3>3. mid \in [PollChannel -> [fd : Int, index : Int, events : PollEvents \cup {{}},
                                         gone : BOOLEAN]]
        BY <1>m, <2>0, <3>2
      <3>4. channel' = [mid EXCEPT ![c].gone = TRUE]
        BY <3>1, <3>2
      <3>5. /\ mid[m].index = channel[c].index /\ mid[m].fd = channel[m].fd
            /\ mid[m].events = channel[m].events /\ mid[m].gone = channel[m].gone
            /\ \A d \in PollChannel : d # m => mid[d] = channel[d]
        BY <1>m, <2>0, <3>2
      <3>6. /\ channel'[c].gone = TRUE /\ channel'[c].fd = mid[c].fd
            /\ channel'[c].events = mid[c].events
            /\ \A d \in PollChannel : d # c => channel'[d] = mid[d]
            /\ channel' \in [PollChannel -> [fd : Int, index : Int,
                                            events : PollEvents \cup {{}}, gone : BOOLEAN]]
        BY <3>3, <3>4
      <3> QED BY <1>m, <3>0, <3>5, <3>6
    <2> QED BY <2>1, <2>2
  <1>3. /\ fdTable'[fd] = NoChannel /\ \A f \in Fd : f # fd => fdTable'[f] = fdTable[f]
        /\ fdTable' \in [Fd -> PollChannel \cup {NoChannel}]
    BY <1>a, <1>n, <1>t DEF SelectTypes
  <1> HIDE DEF k, n, m, fd
  <1>4. SelectTypes'
    BY <1>1, <1>2, <1>3 DEF SelectTypes
  <1>5. Registered' = Registered \ {c}
    <2>1. ASSUME NEW d \in Registered' PROVE d \in Registered \ {c}
      <3>1. d \in PollChannel /\ channel'[d].index >= 0 /\ channel'[d].gone = FALSE
        BY <2>1, <1>4, RegisteredTypes DEF Registered, SelectTypes
      <3>2. d # c /\ channel[d].gone = FALSE
        BY <1>2, <3>1
      <3>3. CASE d = m
        BY <1>m, <3>2, <3>3
      <3>4. CASE d # m
        <4>1. channel[d].index >= 0
          BY <1>2, <3>1, <3>2, <3>4
        <4> QED BY <3>1, <3>2, <4>1 DEF Registered
      <3> QED BY <3>3, <3>4
    <2>2. ASSUME NEW d \in Registered, d # c PROVE d \in Registered'
      <3>1. d \in PollChannel /\ channel[d].index >= 0 /\ channel[d].gone = FALSE
        BY <1>t DEF Registered, SelectTypes
      <3>2. channel'[d].gone = FALSE
        BY <1>2, <2>2, <3>1
      <3>3. channel[c].index >= 0
        BY <1>a DEF Registered
      <3>4. channel'[d].index >= 0
        BY <1>2, <2>2, <3>1, <3>3
      <3> QED BY <3>1, <3>2, <3>4 DEF Registered
    <2> QED BY <2>1, <2>2, <1>2, <1>a DEF Registered
  <1>6. ASSUME NEW d \in Registered' PROVE InPlace(d)'
    <2>1. d \in Registered /\ d # c /\ d \in PollChannel
      BY <1>5, <1>t, RegisteredTypes
    <2>2. InPlace(d)
      BY <2>1 DEF SelectInv
    <2>3. channel[d].fd \in Fd /\ channel[d].fd # fd
      BY <1>b, <1>k, <2>1, <2>2 DEF InPlace
    <2>4. fdTable'[channel'[d].fd] = d /\ channel'[d].fd = channel[d].fd
          /\ channel'[d].events = channel[d].events
      BY <1>2, <1>3, <2>1, <2>2, <2>3 DEF InPlace
    <2>5. channel[d].index + 1 \in 1 .. n /\ channel[d].index + 1 # k
      <3>1. channel[d].index \in Int /\ channel[c].index \in Int
        BY <1>t, <1>a, <2>1, RegisteredTypes
      <3>2. channel[d].index # channel[c].index
        BY <1>a, <2>1, PlacesDiffer
      <3> QED BY <1>k, <2>2, <3>1, <3>2 DEF InPlace
    <2>6. CASE d = m
      <3>1. channel'[d].index + 1 = k
        BY <1>2, <1>k, <2>1, <2>6
      <3>2. channel[d].index + 1 = n
        BY <1>m, <2>6
      <3>3. k \in 1 .. n - 1
        BY <1>n, <2>5, <3>2
      <3>4. pollfds'[k] = pollfds[channel[d].index + 1]
        BY <1>1, <3>2, <3>3
      <3> QED BY <1>1, <2>2, <2>3, <2>4, <3>1, <3>3, <3>4 DEF InPlace
    <2>7. CASE d # m
      <3>1. channel'[d].index = channel[d].index
        BY <1>2, <2>1, <2>7
      <3>2. channel[d].index + 1 # n
        <4>1. channel[d].index \in Int /\ channel[m].index \in Int
          BY <1>t, <1>m, <2>1, RegisteredTypes
        <4>2. channel[d].index # channel[m].index
          BY <1>m, <2>1, <2>7, PlacesDiffer
        <4> QED BY <1>m, <4>1, <4>2
      <3>3. channel[d].index + 1 \in 1 .. n - 1
        BY <1>n, <2>5, <3>2
      <3>4. pollfds'[channel[d].index + 1] = pollfds[channel[d].index + 1]
        BY <1>1, <2>5, <3>3
      <3> QED BY <1>1, <2>2, <2>3, <2>4, <3>1, <3>3, <3>4 DEF InPlace
    <2> QED BY <2>6, <2>7
  <1>7. ASSUME NEW i \in 1 .. Len(pollfds') PROVE Held(i)'
    <2>0. i \in 1 .. n - 1 /\ i \in 1 .. n /\ i # n
      BY <1>1, <1>n
    <2>1. PICK j \in 1 .. n : j = IF i = k THEN n ELSE i
      BY <1>n, <2>0
    <2>2. pollfds'[i] = pollfds[j]
      BY <1>1, <2>0, <2>1
    <2>3. Held(j)
      BY <1>k, <2>1 DEF SelectInv
    <2>4. Holder(j) \in Registered /\ Holder(j) # c /\ Holder(j) \in PollChannel
      <3>1. j # k
        BY <2>0, <2>1
      <3>2. channel[Holder(j)].index + 1 = j
        BY <2>3 DEF Held
      <3> QED BY <1>k, <1>t, <2>3, <3>1, <3>2, RegisteredTypes DEF Held
    <2>5. /\ Descriptor(pollfds[j].fd) \in Fd
          /\ channel[Holder(j)].fd = Descriptor(pollfds[j].fd)
      <3>1. Descriptor(pollfds[j].fd) \in Fd /\ Holder(j) # NoChannel
        BY <1>t, <2>3, <2>4, RegisteredTypes DEF Held
      <3> QED BY <3>1 DEF SelectInv, TableKnown, Holder
    <2>6. Descriptor(pollfds[j].fd) # fd
      BY <1>b, <1>k, <2>4 DEF InPlace, Holder
    <2>7. Holder(i)' = Holder(j)
      BY <1>3, <2>2, <2>5, <2>6 DEF Holder
    <2>8. channel'[Holder(j)].index + 1 = i
      <3>1. channel[Holder(j)].index + 1 = j
        BY <2>3 DEF Held
      <3>2. CASE i = k
        <4>1. j = n /\ Holder(j) = m
          BY <2>1, <3>2 DEF m
        <4> QED BY <1>2, <1>k, <2>4, <3>2, <4>1
      <3>3. CASE i # k
        <4>1. j = i /\ j # n
          BY <2>0, <2>1, <3>3
        <4>2. Holder(j) # m
          BY <1>m, <3>1, <4>1
        <4> QED BY <1>2, <2>4, <3>1, <4>1, <4>2
      <3> QED BY <3>2, <3>3
    <2> QED BY <1>5, <2>2, <2>4, <2>5, <2>7, <2>8 DEF Held
  <1>8. TableKnown'
    <2> SUFFICES ASSUME NEW f \in Fd, fdTable'[f] # NoChannel
                 PROVE  fdTable'[f] \in Registered' /\ channel'[fdTable'[f]].fd = f
      BY DEF TableKnown
    <2>1. f # fd /\ fdTable'[f] = fdTable[f]
      BY <1>3
    <2>2. fdTable[f] \in Registered /\ channel[fdTable[f]].fd = f
      BY <2>1 DEF SelectInv, TableKnown
    <2>3. fdTable[f] # c
      BY <1>k, <2>1, <2>2
    <2>4. fdTable[f] \in PollChannel
      BY <2>2, <1>t, RegisteredTypes
    <2> QED BY <1>2, <1>5, <2>1, <2>2, <2>3, <2>4
  <1>9. Len(pollfds') = Cardinality(Registered')
    <2>1. Cardinality(Registered \ {c}) = Cardinality(Registered) - 1
      BY <1>t, <1>a, RegisteredTypes, FS_RemoveElement
    <2> QED BY <1>1, <1>5, <1>k, <2>1 DEF SelectInv
  <1>10. Reported'
    BY <1>a DEF Reported
  <1> QED BY <1>4, <1>6, <1>7, <1>8, <1>9, <1>10 DEF SelectInv

(* The channels of the descriptors that are ready are registered and each  *)
(* is reported once (selectPoller.cpp:18-89).                              *)
LEMMA PollKept == ASSUME SelectInv, Poll PROVE SelectInv'
  <1>1. UNCHANGED <<pollfds, fdTable, channel>>
    BY DEF Poll
  <1>2. Registered' = Registered /\ SelectTypes' = SelectTypes /\ TableKnown' = TableKnown
        /\ (\A c \in Registered : InPlace(c)') /\ (\A i \in 1 .. Len(pollfds) : Held(i)')
    <2>1. Registered' = Registered
      BY <1>1 DEF Registered
    <2>2. SelectTypes' = SelectTypes
      BY <1>1 DEF SelectTypes
    <2>3. TableKnown' = TableKnown
      BY <1>1, <2>1 DEF TableKnown
    <2>4. ASSUME NEW c \in Registered PROVE InPlace(c)'
      <3>1. InPlace(c)
        BY DEF SelectInv
      <3> QED BY <1>1, <3>1 DEF InPlace
    <2>5. ASSUME NEW i \in 1 .. Len(pollfds) PROVE Held(i)'
      <3>1. Held(i)
        BY DEF SelectInv
      <3> QED BY <1>1, <2>1, <3>1 DEF Held, Holder
    <2> QED BY <2>1, <2>2, <2>3, <2>4, <2>5
  <1>3. Reported'
    <2>1. CASE active' = <<>>
      BY <2>1 DEF Reported
    <2>2. CASE active' # <<>>
      <3>0. \A i \in DOMAIN pollfds : ~(pollfds[i].fd < 0)
        BY <2>2 DEF Poll
      <3>1. PICK revents \in [DOMAIN pollfds -> SUBSET ((UNION PollEvents) \cup {"ERR"})] :
               \E place \in [1 .. Cardinality({i \in DOMAIN pollfds : revents[i] # {}})
                                -> {i \in DOMAIN pollfds : revents[i] # {}}] :
                  /\ \A k, l \in DOMAIN place : k < l => place[k] < place[l]
                  /\ active' = [k \in DOMAIN place |->
                                   [channel |-> fdTable[pollfds[place[k]].fd],
                                    revents |-> revents[place[k]]]]
        BY <2>2 DEF Poll
      <3> DEFINE ready == {i \in DOMAIN pollfds : revents[i] # {}}
      <3>2. PICK place \in [1 .. Cardinality(ready) -> ready] :
                  /\ \A k, l \in DOMAIN place : k < l => place[k] < place[l]
                  /\ active' = [k \in DOMAIN place |->
                                   [channel |-> fdTable[pollfds[place[k]].fd],
                                    revents |-> revents[place[k]]]]
        BY <3>1
      <3>3. ready \subseteq 1 .. Len(pollfds) /\ ready \subseteq DOMAIN pollfds
        <4>1. DOMAIN pollfds = 1 .. Len(pollfds)
          BY LenProperties DEF SelectInv, SelectTypes
        <4> QED BY <4>1
      <3> HIDE DEF ready
      <3>4. ASSUME NEW i \in ready
            PROVE  fdTable[pollfds[i].fd] \in Registered
                   /\ channel[fdTable[pollfds[i].fd]].index + 1 = i
        <4>1. Held(i) /\ ~(pollfds[i].fd < 0)
          BY <3>0, <3>3 DEF SelectInv
        <4>2. Descriptor(pollfds[i].fd) = pollfds[i].fd
          BY <4>1 DEF Descriptor
        <4> QED BY <4>1, <4>2 DEF Held, Holder
      <3>5. DOMAIN place = 1 .. Cardinality(ready) /\ DOMAIN active' = DOMAIN place
        BY <3>2
      <3>6. ASSUME NEW k \in DOMAIN active'
            PROVE  /\ place[k] \in ready
                   /\ active'[k].channel = fdTable[pollfds[place[k]].fd]
        BY <3>2, <3>5
      <3>7. ASSUME NEW k \in DOMAIN active', NEW l \in DOMAIN active', k # l
            PROVE  active'[k].channel # active'[l].channel
        <4>1. k \in Int /\ l \in Int
          BY <3>5
        <4>2. place[k] < place[l] \/ place[l] < place[k]
          BY <3>2, <3>5, <3>7, <4>1
        <4>3. place[k] \in Int /\ place[l] \in Int
          BY <3>3, <3>6
        <4>4. place[k] # place[l]
          BY <4>2, <4>3
        <4> QED BY <3>4, <3>6, <4>4
      <3> QED BY <1>2, <3>4, <3>6, <3>7 DEF Reported
    <2> QED BY <2>1, <2>2
  <1> QED BY <1>1, <1>2, <1>3 DEF SelectInv

(* What the other parts do leaves the poller alone.                        *)
LEMMA SelectIdle == ASSUME SelectInv, UNCHANGED selectVars PROVE SelectInv'
  BY DEF selectVars, SelectInv, SelectTypes, InPlace, Held, Holder, TableKnown, Reported,
     Registered

(* Every operation keeps the invariant of the poller.                      *)
LEMMA SelectKept == SelectInv /\ (SelectNext \/ UNCHANGED selectVars) => SelectInv'
  BY AddKept, ChangeKept, RemoveKept, PollKept, SelectIdle DEF SelectNext

(* Each channel is at its index, with its events and its descriptor,       *)
(* ignored or not.                                                         *)
LEMMA SelectHolds == SelectInv => SlotsMatch
  <1> SUFFICES ASSUME SelectInv PROVE SlotsMatch
    OBVIOUS
  <1>t. SelectTypes
    BY DEF SelectInv
  <1>1. \A fd \in Fd : fdTable[fd] \in {c \in Registered : channel[c].fd = fd} \cup {NoChannel}
    BY DEF SelectInv, TableKnown
  <1>2. ASSUME NEW c \in Registered
        PROVE  /\ channel[c].index < Len(pollfds)
               /\ fdTable[channel[c].fd] = c
               /\ pollfds[channel[c].index + 1].events = channel[c].events
               /\ pollfds[channel[c].index + 1].fd =
                     IF pollfds[channel[c].index + 1].events = {}
                     THEN Ignored(channel[c].fd) ELSE channel[c].fd
    <2>1. InPlace(c)
      BY DEF SelectInv
    <2>2. channel[c].index \in Int /\ Len(pollfds) \in Nat
      BY <1>t, RegisteredTypes
    <2> QED BY <2>1, <2>2 DEF InPlace
  <1> QED BY <1>1, <1>2 DEF SelectInv, SlotsMatch, Reported

----------------------------------------------------------------------------
(* openedFiles().                                                          *)

EntryType == [handle : Nat, as : {"name", "number"}]

FilesTypes ==
    /\ processes \in Seq([pid : 0 .. 1, opens : BOOLEAN, handles : Seq(Kinds)])
    /\ at \in [p : Nat \ {0}, i : Nat \ {0}]
    /\ finfo \in [DOMAIN processes -> Seq(EntryType)]

(* Where it is among the handles: what is passed over has none, and a      *)
(* thread is about a file of the process looked at.                        *)
WhereItIs ==
    /\ \A p \in DOMAIN processes : Skipped(p) => processes[p].handles = <<>>
    /\ at.p \in DOMAIN processes => at.i <= Len(processes[at.p].handles) + 1
    /\ query # "none" => MoreHandles /\ IsFile

(* The conjuncts of HandlesListed.                                         *)
ListedRight(p) ==
    /\ {finfo[p][k].handle : k \in DOMAIN finfo[p]} = Files(p)
    /\ \A k, l \in DOMAIN finfo[p] : k < l => finfo[p][k].handle < finfo[p][l].handle
    /\ \A k \in DOMAIN finfo[p] : finfo[p][k].as = "name" =>
            processes[p].handles[finfo[p][k].handle] \in {"named", "pipe"}

(* A terminated thread was about a handle that is behind, and a pipe is    *)
(* asked about when that is wanted.                                        *)
DuplicatesKnown ==
    /\ terminated \subseteq Passed
    /\ query # "none" /\ HandleKind = "pipe" => getNamedPipe
    /\ duplicated = terminated \cup UnaskedPipes \cup InHand

FilesInv ==
    /\ FilesTypes /\ WhereItIs /\ DuplicatesKnown
    /\ \A p \in DOMAIN processes : ListedRight(p)

(* What is listed and what is duplicated is as it should be.               *)
LEMMA FilesHold == FilesInv => HandlesListed
  BY DEF FilesInv, HandlesListed, ListedRight, DuplicatesKnown

(* The processes, their handles, and the place that is looked at.          *)
LEMMA FilesFacts ==
    ASSUME FilesTypes
    PROVE  /\ at.p \in Nat /\ at.i \in Nat /\ at.p >= 1 /\ at.i >= 1
           /\ Len(processes) \in Nat /\ DOMAIN processes = 1 .. Len(processes)
           /\ \A p \in DOMAIN processes :
                 /\ processes[p].handles \in Seq(Kinds)
                 /\ Len(processes[p].handles) \in Nat
                 /\ DOMAIN processes[p].handles = 1 .. Len(processes[p].handles)
                 /\ finfo[p] \in Seq(EntryType)
           /\ at = [p |-> at.p, i |-> at.i]
  <1>1. processes \in Seq([pid : 0 .. 1, opens : BOOLEAN, handles : Seq(Kinds)])
    BY DEF FilesTypes
  <1>2. Len(processes) \in Nat /\ DOMAIN processes = 1 .. Len(processes)
    BY <1>1, LenProperties
  <1>3. ASSUME NEW p \in DOMAIN processes PROVE processes[p].handles \in Seq(Kinds)
    <2>1. processes[p] \in [pid : 0 .. 1, opens : BOOLEAN, handles : Seq(Kinds)]
      BY <1>1, <1>2, ElementOfSeq
    <2> QED BY <2>1
  <1>4. ASSUME NEW p \in DOMAIN processes
        PROVE  Len(processes[p].handles) \in Nat
               /\ DOMAIN processes[p].handles = 1 .. Len(processes[p].handles)
    BY <1>3, LenProperties
  <1>5. \A p \in DOMAIN processes : finfo[p] \in Seq(EntryType)
    BY DEF FilesTypes
  <1>6. at \in [p : Nat \ {0}, i : Nat \ {0}]
    BY DEF FilesTypes
  <1> QED BY <1>2, <1>3, <1>4, <1>5, <1>6

(* What is behind once the next handle is looked at.                       *)
LEMMA BehindGrows ==
    ASSUME FilesTypes, NextHandle, processes' = processes
    PROVE  /\ at'.p = at.p /\ at'.i = at.i + 1
           /\ at' \in [p : Nat \ {0}, i : Nat \ {0}]
           /\ Behind(at.p)' = Behind(at.p) \cup {at.i}
           /\ at.i \notin Behind(at.p) /\ \A k \in Behind(at.p) : k \in Nat /\ k < at.i
           /\ \A p \in DOMAIN processes : p # at.p => Behind(p)' = Behind(p)
  <1>1. at \in [p : Nat \ {0}, i : Nat \ {0}] /\ at' = [at EXCEPT !.i = @ + 1]
    BY DEF FilesTypes, NextHandle
  <1>2. /\ at'.p = at.p /\ at'.i = at.i + 1 /\ at' \in [p : Nat \ {0}, i : Nat \ {0}]
        /\ at.p \in Nat /\ at.i \in Nat /\ at.i >= 1
    BY <1>1
  <1>3. Behind(at.p) = 1 .. at.i - 1
    BY <1>2 DEF Behind
  <1>4. Behind(at.p)' = 1 .. at'.i - 1
    <2> at'.p = at.p
      BY <1>2
    <2> QED BY <1>2 DEF Behind
  <1>5. ASSUME NEW p \in DOMAIN processes, p # at.p PROVE Behind(p)' = Behind(p)
    BY <1>2, <1>5 DEF Behind
  <1>6. 1 .. at'.i - 1 = (1 .. at.i - 1) \cup {at.i}
    BY <1>2
  <1>7. at.i \notin 1 .. at.i - 1 /\ \A k \in 1 .. at.i - 1 : k \in Nat /\ k < at.i
    BY <1>2
  <1> QED BY <1>2, <1>3, <1>4, <1>5, <1>6, <1>7

(* The handle looked at is not among those that are passed, and is the     *)
(* next of them.                                                           *)
LEMMA PassedGrows ==
    ASSUME FilesTypes, MoreHandles
    PROVE  /\ Here \notin Passed
           /\ processes[Here[1]].handles[Here[2]] = HandleKind
           /\ NextHandle /\ UNCHANGED asked => Passed' = Passed \cup {Here}
  <1>1. at.p \in DOMAIN processes
    BY FilesFacts DEF MoreHandles, InProcess
  <1>2. Here[1] = at.p /\ Here[2] = at.i /\ Here = <<at.p, at.i>>
    BY DEF Here
  <1>3. at.i \notin Behind(at.p)
    BY FilesFacts DEF Behind
  <1>4. Here \notin Passed
    BY <1>2, <1>3 DEF Passed
  <1>5. ASSUME NextHandle, UNCHANGED asked PROVE Passed' = Passed \cup {Here}
    <2>1. /\ processes' = processes /\ at'.p = at.p
          /\ Behind(at.p)' = Behind(at.p) \cup {at.i}
          /\ \A p \in DOMAIN processes : p # at.p => Behind(p)' = Behind(p)
      BY <1>5, BehindGrows DEF asked
    <2> DEFINE B(p) == Behind(p)
               C(p) == IF p = at.p THEN B(p) \cup {at.i} ELSE B(p)
    <2>2. ASSUME NEW p \in DOMAIN processes PROVE Behind(p)' = C(p)
      <3>1. CASE p = at.p
        BY <2>1, <3>1
      <3>2. CASE p # at.p
        BY <2>1, <3>2
      <3> QED BY <3>1, <3>2
    <2>3. Passed' = UNION {{p} \X C(p) : p \in DOMAIN processes}
      BY <2>1, <2>2 DEF Passed
    <2>4. Passed = UNION {{p} \X B(p) : p \in DOMAIN processes}
      BY DEF Passed
    <2> HIDE DEF B
    <2> QED BY <1>1, <1>2, <2>3, <2>4
  <1> QED BY <1>2, <1>4, <1>5 DEF HandleKind

(* The pipes that are not asked about, once the next handle is looked at.  *)
LEMMA UnaskedGrows ==
    ASSUME FilesTypes, MoreHandles, NextHandle, UNCHANGED asked
    PROVE  UnaskedPipes' = IF HandleKind = "pipe" /\ ~getNamedPipe
                           THEN UnaskedPipes \cup {Here} ELSE UnaskedPipes
  <1>1. Passed' = Passed \cup {Here} /\ processes[Here[1]].handles[Here[2]] = HandleKind
    BY PassedGrows
  <1>2. UnaskedPipes' = {h \in Passed \cup {Here} :
                            processes[h[1]].handles[h[2]] = "pipe" /\ ~getNamedPipe}
    BY <1>1 DEF UnaskedPipes, asked
  <1> QED BY <1>1, <1>2 DEF UnaskedPipes

(* An entry more, for the handle looked at, which is a file.               *)
LEMMA EntryAdded ==
    ASSUME FilesInv, NextHandle, processes' = processes, MoreHandles, IsFile,
           NEW e \in EntryType, e.handle = at.i,
           e.as = "name" => HandleKind \in {"named", "pipe"},
           finfo' = [finfo EXCEPT ![at.p] = Append(@, e)]
    PROVE  /\ finfo' \in [DOMAIN processes -> Seq(EntryType)]
           /\ \A p \in DOMAIN processes : ListedRight(p)'
  <1>t. FilesTypes
    BY DEF FilesInv
  <1>p. at.p \in DOMAIN processes
    BY <1>t, FilesFacts DEF MoreHandles, InProcess
  <1>f. finfo \in [DOMAIN processes -> Seq(EntryType)]
    BY <1>t DEF FilesTypes
  <1> DEFINE s == finfo[at.p]
             a == Append(s, e)
             hs == processes[at.p].handles
  <1>1. s \in Seq(EntryType) /\ Len(s) \in Nat /\ DOMAIN s = 1 .. Len(s)
    BY <1>f, <1>p, LenProperties
  <1>2. /\ a \in Seq(EntryType) /\ DOMAIN a = 1 .. Len(s) + 1
        /\ \A k \in 1 .. Len(s) : a[k] = s[k]
        /\ a[Len(s) + 1] = e
    BY <1>1, AppendProperties, LenProperties
  <1>3. finfo' \in [DOMAIN processes -> Seq(EntryType)]
        /\ finfo'[at.p] = a
        /\ \A p \in DOMAIN processes : p # at.p => finfo'[p] = finfo[p]
    <2> HIDE DEF s
    <2>1. finfo' = [finfo EXCEPT ![at.p] = a]
      BY DEF s
    <2> HIDE DEF a
    <2> QED BY <1>f, <1>p, <1>2, <2>1
  <1>4. ASSUME NEW p \in DOMAIN processes, p # at.p PROVE ListedRight(p)'
    <2>1. Behind(p)' = Behind(p)
      BY <1>t, <1>4, BehindGrows
    <2>2. Files(p)' = Files(p)
      BY <2>1 DEF Files
    <2>3. ListedRight(p)
      BY DEF FilesInv
    <2> QED BY <1>3, <1>4, <2>2, <2>3 DEF ListedRight
  <1>5. ListedRight(at.p)
    BY <1>p DEF FilesInv
  <1>6. /\ Files(at.p)' = Files(at.p) \cup {at.i}
        /\ \A k \in Files(at.p) : k \in Nat /\ k < at.i
    <2>1. hs[at.i] \notin {"other", "denied"}
      BY DEF IsFile, HandleKind
    <2>2. Behind(at.p)' = Behind(at.p) \cup {at.i}
          /\ \A k \in Behind(at.p) : k \in Nat /\ k < at.i
      BY <1>t, BehindGrows
    <2>3. Files(at.p) = {k \in Behind(at.p) : hs[k] \notin {"other", "denied"}}
      BY DEF Files
    <2>4. at'.p = at.p
      BY <1>t, BehindGrows
    <2>5. Files(at.p)' = {k \in Behind(at.p)' : hs[k] \notin {"other", "denied"}}
      BY <2>4 DEF Files
    <2> HIDE DEF hs
    <2> QED BY <2>1, <2>2, <2>3, <2>5
  <1>7. /\ {s[k].handle : k \in DOMAIN s} = Files(at.p)
        /\ \A k, l \in DOMAIN s : k < l => s[k].handle < s[l].handle
        /\ \A k \in DOMAIN s : s[k].as = "name" => hs[s[k].handle] \in {"named", "pipe"}
    BY <1>5 DEF ListedRight
  <1>h. hs[at.i] = HandleKind
    BY DEF HandleKind
  <1>m. at'.p = at.p /\ at.i \in Nat
    BY <1>t, BehindGrows, FilesFacts
  <1> HIDE DEF s, a, hs
  <1>8. {a[k].handle : k \in DOMAIN a} = Files(at.p) \cup {at.i}
    <2>1. ASSUME NEW k \in DOMAIN a PROVE a[k].handle \in Files(at.p) \cup {at.i}
      <3>1. CASE k \in 1 .. Len(s)
        BY <1>1, <1>2, <1>7, <3>1
      <3>2. CASE k = Len(s) + 1
        BY <1>2, <3>2
      <3> QED BY <1>1, <1>2, <3>1, <3>2
    <2>2. ASSUME NEW h \in Files(at.p) PROVE \E k \in DOMAIN a : a[k].handle = h
      <3>1. PICK k \in DOMAIN s : s[k].handle = h
        BY <1>7
      <3>2. k \in DOMAIN a /\ a[k] = s[k]
        BY <1>1, <1>2
      <3> QED BY <3>1, <3>2
    <2>3. \E k \in DOMAIN a : a[k].handle = at.i
      <3>1. Len(s) + 1 \in DOMAIN a
        BY <1>1, <1>2
      <3> QED BY <1>2, <3>1
    <2> QED BY <2>1, <2>2, <2>3
  <1>9. ASSUME NEW k \in DOMAIN a, NEW l \in DOMAIN a, k < l
        PROVE  a[k].handle < a[l].handle
    <2>1. k \in 1 .. Len(s)
      BY <1>1, <1>2, <1>9
    <2>2. CASE l \in 1 .. Len(s)
      BY <1>1, <1>2, <1>7, <1>9, <2>1, <2>2
    <2>3. CASE l = Len(s) + 1
      <3>1. a[k].handle \in Files(at.p)
        BY <1>1, <1>2, <1>7, <2>1
      <3>2. a[l].handle = at.i
        BY <1>2, <2>3
      <3> QED BY <1>6, <3>1, <3>2
    <2> QED BY <1>1, <1>2, <2>2, <2>3
  <1>10. ASSUME NEW k \in DOMAIN a, a[k].as = "name"
         PROVE  hs[a[k].handle] \in {"named", "pipe"}
    <2>1. CASE k \in 1 .. Len(s)
      BY <1>1, <1>2, <1>7, <1>10, <2>1
    <2>2. CASE k = Len(s) + 1
      BY <1>2, <1>10, <1>h, <2>2
    <2> QED BY <1>1, <1>2, <2>1, <2>2
  <1>11. ListedRight(at.p)'
    <2>1. finfo'[at'.p] = a /\ processes'[at'.p].handles = hs
      BY <1>3, <1>m DEF hs
    <2>2. Files(at.p)' = {a[k].handle : k \in DOMAIN a}
      BY <1>6, <1>8
    <2> QED BY <1>9, <1>10, <2>1, <2>2 DEF ListedRight
  <1>12. ASSUME NEW p \in DOMAIN processes, p = at.p PROVE ListedRight(p)'
    <2>1. at'.p = at.p
      BY <1>m
    <2>2. ListedRight(at.p)' <=> ListedRight(p)'
      BY <1>12, <2>1 DEF ListedRight, Files, Behind
    <2> QED BY <1>11, <2>2
  <1> QED BY <1>3, <1>4, <1>12

(* Nothing is listed of any process at first.                              *)
LEMMA FilesBegin == FilesInit => FilesInv
  <1> SUFFICES ASSUME FilesInit PROVE FilesInv
    OBVIOUS
  <1>1. PICK n \in 0 .. MaxProcesses :
           processes \in [1 .. n -> [pid : 0 .. 1, opens : BOOLEAN,
                                     handles : BoundedSeq(Kinds, MaxHandles)]]
    BY DEF FilesInit
  <1>2. BoundedSeq(Kinds, MaxHandles) \subseteq Seq(Kinds)
    <2>1. MaxHandles \in Nat
      BY FilesAssumption
    <2>2. BoundedSeq(Kinds, MaxHandles) = UNION {[1 .. m -> Kinds] : m \in 0 .. MaxHandles}
      BY DEF BoundedSeq, SeqOf
    <2>3. ASSUME NEW s \in BoundedSeq(Kinds, MaxHandles) PROVE s \in Seq(Kinds)
      <3>1. PICK m \in 0 .. MaxHandles : s \in [1 .. m -> Kinds]
        BY <2>2
      <3>2. m \in Nat
        BY <2>1
      <3> QED BY <3>1, <3>2
    <2> QED BY <2>3
  <1>3. \A p \in 1 .. n : processes[p] \in [pid : 0 .. 1, opens : BOOLEAN, handles : Seq(Kinds)]
    BY <1>1, <1>2
  <1>4. n \in Nat
    BY FilesAssumption
  <1>5. processes \in [1 .. n -> [pid : 0 .. 1, opens : BOOLEAN, handles : Seq(Kinds)]]
    BY <1>1, <1>3
  <1>6. processes \in Seq([pid : 0 .. 1, opens : BOOLEAN, handles : Seq(Kinds)])
    <2> DEFINE T == [pid : 0 .. 1, opens : BOOLEAN, handles : Seq(Kinds)]
    <2>1. processes \in [1 .. n -> T]
      BY <1>5
    <2> HIDE DEF T
    <2>2. processes \in Seq(T)
      BY <1>4, <2>1
    <2> QED BY <2>2 DEF T
  <1>7. /\ finfo = [p \in DOMAIN processes |-> <<>>] /\ at = [p |-> 1, i |-> 1]
        /\ query = "none" /\ duplicated = {} /\ terminated = {}
        /\ \A p \in DOMAIN processes : Skipped(p) => processes[p].handles = <<>>
    BY DEF FilesInit
  <1>8. at \in [p : Nat \ {0}, i : Nat \ {0}] /\ at.p = 1 /\ at.i = 1
    BY <1>7
  <1>9. finfo \in [DOMAIN processes -> Seq(EntryType)]
    BY <1>7, EmptySeq
  <1>t. FilesTypes
    BY <1>6, <1>8, <1>9 DEF FilesTypes
  <1>10. WhereItIs
    BY <1>7, <1>8, <1>t, FilesFacts DEF WhereItIs
  <1>11. ASSUME NEW p \in DOMAIN processes PROVE ListedRight(p)
    <2>1. finfo[p] = <<>>
      BY <1>7
    <2>2. Behind(p) = {}
      BY <1>8, <1>t, FilesFacts DEF Behind
    <2> QED BY <2>1, <2>2 DEF ListedRight, Files
  <1>12. DuplicatesKnown
    <2>1. \A p \in DOMAIN processes : Behind(p) = {}
      BY <1>8, <1>t, FilesFacts DEF Behind
    <2>2. Passed = {}
      BY <2>1 DEF Passed
    <2> QED BY <1>7, <2>2 DEF DuplicatesKnown, UnaskedPipes, InHand
  <1> QED BY <1>7, <1>t, <1>10, <1>11, <1>12 DEF FilesInv

(* Where it is once the next handle is looked at, which no thread is about.*)
LEMMA MovedOn ==
    ASSUME FilesInv, NextHandle, MoreHandles, UNCHANGED asked, query' = "none"
    PROVE  WhereItIs'
  <1>t. FilesTypes
    BY DEF FilesInv
  <1>1. /\ at'.p = at.p /\ at'.i = at.i + 1
        /\ processes' = processes
    BY <1>t, BehindGrows DEF asked
  <1>2. at.p \in DOMAIN processes /\ at.i <= Len(processes[at.p].handles)
    BY <1>t, FilesFacts DEF MoreHandles, InProcess
  <1>3. at'.i <= Len(processes[at'.p].handles) + 1
    BY <1>1, <1>2, <1>t, FilesFacts
  <1>4. \A p \in DOMAIN processes : Skipped(p) => processes[p].handles = <<>>
    BY DEF FilesInv, WhereItIs
  <1> QED BY <1>1, <1>3, <1>4 DEF WhereItIs, Skipped

(* A process whose handles have been looked at is behind                   *)
(* (processInfo.cpp:291-295).                                              *)
LEMMA NextProcessKept == ASSUME FilesInv, NextProcess PROVE FilesInv'
  <1>t. FilesTypes
    BY DEF FilesInv
  <1>1. /\ InProcess /\ ~MoreHandles
        /\ at' = [p |-> at.p + 1, i |-> 1]
        /\ processes' = processes /\ getNamedPipe' = getNamedPipe
        /\ finfo' = finfo /\ query' = query /\ duplicated' = duplicated
        /\ terminated' = terminated
    BY DEF NextProcess, asked
  <1>2. /\ at'.p = at.p + 1 /\ at'.i = 1 /\ at.p \in Nat /\ at.i \in Nat /\ at.i >= 1
        /\ at' \in [p : Nat \ {0}, i : Nat \ {0}]
        /\ at.p \in DOMAIN processes
    BY <1>1, <1>t, FilesFacts DEF InProcess
  <1>3. query = "none"
    BY <1>1 DEF FilesInv, WhereItIs
  <1>4. DOMAIN processes[at.p].handles = 1 .. at.i - 1
    <2> DEFINE hs == processes[at.p].handles
    <2>1. /\ Len(hs) \in Nat /\ DOMAIN hs = 1 .. Len(hs) /\ at.i <= Len(hs) + 1
      BY <1>2, <1>t, FilesFacts DEF FilesInv, WhereItIs
    <2>2. CASE Skipped(at.p)
      <3>1. hs = <<>>
        BY <1>2, <2>2 DEF FilesInv, WhereItIs
      <3>2. Len(hs) = 0
        BY <3>1
      <3> QED BY <1>2, <2>1, <3>2
    <2>3. CASE ~Skipped(at.p)
      <3>1. ~(at.i <= Len(hs))
        BY <1>1, <2>3 DEF MoreHandles
      <3> HIDE DEF hs
      <3>2. at.i - 1 = Len(hs)
        BY <1>2, <2>1, <3>1
      <3>3. DOMAIN hs = 1 .. at.i - 1
        BY <2>1, <3>2
      <3> QED BY <3>3 DEF hs
    <2> QED BY <2>2, <2>3
  <1>5. ASSUME NEW p \in DOMAIN processes PROVE Behind(p)' = Behind(p)
    <2>0. p \in Nat
      BY <1>t, FilesFacts
    <2>1. CASE p = at.p
      <3>1. Behind(p)' = DOMAIN processes[p].handles
        BY <1>1, <1>2, <2>1 DEF Behind
      <3>2. Behind(p) = 1 .. at.i - 1
        BY <1>2, <2>1 DEF Behind
      <3> QED BY <1>4, <2>1, <3>1, <3>2
    <2>2. CASE p < at.p
      BY <1>1, <1>2, <2>0, <2>2 DEF Behind
    <2>3. CASE p > at.p
      <3>1. Behind(p) = {}
        BY <1>2, <2>0, <2>3 DEF Behind
      <3>2. CASE p = at'.p
        <4>1. Behind(p)' = 1 .. at'.i - 1
          BY <1>2, <3>2 DEF Behind
        <4> QED BY <1>2, <3>1, <4>1
      <3>3. CASE p # at'.p
        BY <1>1, <1>2, <2>0, <2>3, <3>1, <3>3 DEF Behind
      <3> QED BY <3>2, <3>3
    <2> QED BY <1>2, <2>0, <2>1, <2>2, <2>3
  <1>6. ASSUME NEW p \in DOMAIN processes PROVE ListedRight(p)'
    <2>1. Files(p)' = Files(p)
      BY <1>1, <1>5 DEF Files
    <2>2. ListedRight(p)
      BY DEF FilesInv
    <2> QED BY <1>1, <2>1, <2>2 DEF ListedRight
  <1>7. FilesTypes'
    BY <1>1, <1>2, <1>t DEF FilesTypes
  <1>8. WhereItIs'
    <2>1. at'.p \in DOMAIN processes => at'.i <= Len(processes[at'.p].handles) + 1
      BY <1>2, <1>t, FilesFacts
    <2> QED BY <1>1, <1>3, <2>1 DEF FilesInv, WhereItIs, Skipped
  <1>9. DuplicatesKnown'
    <2> DEFINE B(p) == Behind(p)
    <2>1. Passed' = Passed
      <3>1. Passed' = UNION {{p} \X B(p) : p \in DOMAIN processes}
        BY <1>1, <1>5 DEF Passed
      <3> QED BY <3>1 DEF Passed
    <2>2. UnaskedPipes' = UnaskedPipes
      BY <1>1, <2>1 DEF UnaskedPipes
    <2> QED BY <1>1, <1>3, <2>1, <2>2 DEF FilesInv, DuplicatesKnown, InHand
  <1> QED BY <1>1, <1>6, <1>7, <1>8, <1>9 DEF FilesInv

(* A handle that is no file, or that cannot be duplicated, is not listed   *)
(* (processInfo.cpp:203-212).                                              *)
LEMMA PassOverKept == ASSUME FilesInv, PassOver PROVE FilesInv'
  <1>t. FilesTypes
    BY DEF FilesInv
  <1>1. /\ MoreHandles /\ query = "none" /\ ~IsFile /\ NextHandle
        /\ UNCHANGED asked /\ processes' = processes /\ getNamedPipe' = getNamedPipe
        /\ finfo' = finfo /\ query' = query /\ duplicated' = duplicated
        /\ terminated' = terminated
    BY DEF PassOver, asked
  <1>2. WhereItIs'
    BY <1>1, MovedOn
  <1>3. FilesTypes'
    BY <1>1, <1>t, BehindGrows DEF FilesTypes
  <1>4. DuplicatesKnown'
    <2>1. UnaskedPipes' = UnaskedPipes /\ Passed' = Passed \cup {Here}
      BY <1>1, <1>t, UnaskedGrows, PassedGrows DEF IsFile
    <2> QED BY <1>1, <2>1 DEF FilesInv, DuplicatesKnown, InHand
  <1>5. ASSUME NEW p \in DOMAIN processes PROVE ListedRight(p)'
    <2>1. Files(p)' = Files(p)
      <3>1. CASE p = at.p
        <4>1. Behind(p)' = Behind(p) \cup {at.i}
          <5>1. Behind(at.p)' = Behind(at.p) \cup {at.i} /\ at'.p = at.p
            BY <1>1, <1>t, BehindGrows
          <5> QED BY <3>1, <5>1
        <4>2. processes[p].handles[at.i] \in {"other", "denied"}
          BY <1>1, <3>1 DEF IsFile, HandleKind
        <4> QED BY <1>1, <4>1, <4>2 DEF Files
      <3>2. CASE p # at.p
        <4>1. Behind(p)' = Behind(p)
          BY <1>1, <1>t, <3>2, BehindGrows
        <4> QED BY <1>1, <4>1 DEF Files
      <3> QED BY <3>1, <3>2
    <2>2. ListedRight(p)
      BY DEF FilesInv
    <2> QED BY <1>1, <2>1, <2>2 DEF ListedRight
  <1> QED BY <1>1, <1>2, <1>3, <1>4, <1>5 DEF FilesInv

(* Where it is, the entry of a handle has its number.                      *)
LEMMA EntryIsOne ==
    ASSUME FilesTypes, NEW as \in {"name", "number"}
    PROVE  Entry(as) \in EntryType /\ Entry(as).handle = at.i /\ Entry(as).as = as
  BY FilesFacts DEF Entry, EntryType

(* A pipe is listed without asking for its name when that was not wanted   *)
(* (processInfo.cpp:214-224).                                              *)
LEMMA SkipPipeKept == ASSUME FilesInv, SkipPipe PROVE FilesInv'
  <1>t. FilesTypes
    BY DEF FilesInv
  <1>1. /\ MoreHandles /\ query = "none" /\ HandleKind = "pipe" /\ ~getNamedPipe
        /\ NextHandle
        /\ UNCHANGED asked /\ processes' = processes /\ getNamedPipe' = getNamedPipe
        /\ finfo' = [finfo EXCEPT ![at.p] = Append(@, Entry("number"))]
        /\ query' = query /\ duplicated' = duplicated \cup {Here}
        /\ terminated' = terminated
    BY DEF SkipPipe, asked
  <1>2. WhereItIs'
    BY <1>1, MovedOn
  <1>3. IsFile
    BY <1>1 DEF IsFile
  <1>4. /\ finfo' \in [DOMAIN processes -> Seq(EntryType)]
        /\ \A p \in DOMAIN processes : ListedRight(p)'
    <2>1. PICK e : e = Entry("number")
      OBVIOUS
    <2>2. e \in EntryType /\ e.handle = at.i /\ e.as # "name"
      BY <1>t, <2>1, EntryIsOne
    <2>3. finfo' = [finfo EXCEPT ![at.p] = Append(@, e)]
      BY <1>1, <2>1
    <2> QED BY <1>1, <1>3, <2>2, <2>3, EntryAdded
  <1>5. FilesTypes'
    BY <1>1, <1>4, <1>t, BehindGrows DEF FilesTypes
  <1>6. DuplicatesKnown'
    <2>1. UnaskedPipes' = UnaskedPipes \cup {Here} /\ Passed' = Passed \cup {Here}
      BY <1>1, <1>t, UnaskedGrows, PassedGrows
    <2> QED BY <1>1, <2>1 DEF FilesInv, DuplicatesKnown, InHand
  <1> QED BY <1>1, <1>2, <1>4, <1>5, <1>6 DEF FilesInv

(* The steps that leave the place and the result alone.                    *)
LEMMA ThreadKept ==
    ASSUME FilesInv, UNCHANGED <<asked, finfo, at>>, query' # "none" => MoreHandles /\ IsFile
    PROVE  /\ FilesTypes' /\ WhereItIs'
           /\ \A p \in DOMAIN processes' : ListedRight(p)'
           /\ Passed' = Passed /\ UnaskedPipes' = UnaskedPipes
           /\ HandleKind' = HandleKind /\ Here' = Here
  <1>1. /\ processes' = processes /\ getNamedPipe' = getNamedPipe /\ finfo' = finfo /\ at' = at
        /\ fileTypeIndex' = fileTypeIndex
    BY DEF asked
  <1>2. FilesTypes'
    BY <1>1 DEF FilesInv, FilesTypes
  <1>3. WhereItIs'
    BY <1>1 DEF FilesInv, WhereItIs, Skipped, MoreHandles, InProcess, IsFile, HandleKind
  <1>4. ASSUME NEW p \in DOMAIN processes PROVE ListedRight(p)'
    <2>1. ListedRight(p)
      BY DEF FilesInv
    <2> QED BY <1>1, <2>1 DEF ListedRight, Files, Behind
  <1>5. Passed' = Passed /\ UnaskedPipes' = UnaskedPipes
    BY <1>1 DEF Passed, UnaskedPipes, Behind
  <1>6. HandleKind' = HandleKind /\ Here' = Here
    BY <1>1 DEF HandleKind, Here
  <1> QED BY <1>1, <1>2, <1>3, <1>4, <1>5, <1>6

(* A thread is started to ask for the name of the file.                    *)
LEMMA AskKept == ASSUME FilesInv, Ask PROVE FilesInv'
  <1>1. /\ MoreHandles /\ IsFile /\ query = "none" /\ query' = "asked"
        /\ HandleKind = "pipe" => getNamedPipe
        /\ duplicated' = duplicated \cup {Here} /\ getNamedPipe' = getNamedPipe
        /\ UNCHANGED <<asked, finfo, at>> /\ terminated' = terminated
    BY DEF Ask, asked
  <1>2. /\ FilesTypes' /\ WhereItIs' /\ \A p \in DOMAIN processes' : ListedRight(p)'
        /\ Passed' = Passed /\ UnaskedPipes' = UnaskedPipes
        /\ HandleKind' = HandleKind /\ Here' = Here
    BY <1>1, ThreadKept
  <1>3. DuplicatesKnown'
    BY <1>1, <1>2 DEF FilesInv, DuplicatesKnown, InHand
  <1> QED BY <1>2, <1>3 DEF FilesInv

(* The thread has the answer.                                              *)
LEMMA AnswerKept == ASSUME FilesInv, Answer PROVE FilesInv'
  <1>1. /\ query = "asked" /\ query' = "answered"
        /\ UNCHANGED <<asked, finfo, at>> /\ terminated' = terminated
        /\ duplicated' = duplicated /\ getNamedPipe' = getNamedPipe
    BY DEF Answer, asked
  <1>2. MoreHandles /\ IsFile
    BY <1>1 DEF FilesInv, WhereItIs
  <1>3. /\ FilesTypes' /\ WhereItIs' /\ \A p \in DOMAIN processes' : ListedRight(p)'
        /\ Passed' = Passed /\ UnaskedPipes' = UnaskedPipes
        /\ HandleKind' = HandleKind /\ Here' = Here
    BY <1>1, <1>2, ThreadKept
  <1>4. DuplicatesKnown'
    BY <1>1, <1>3 DEF FilesInv, DuplicatesKnown, InHand
  <1> QED BY <1>3, <1>4 DEF FilesInv

(* The thread closes the duplicate (processInfo.cpp:230-231).              *)
LEMMA CloseDuplicateKept == ASSUME FilesInv, CloseDuplicate PROVE FilesInv'
  <1>1. /\ query = "answered" /\ query' = "ended"
        /\ UNCHANGED <<asked, finfo, at>> /\ terminated' = terminated
        /\ duplicated' = duplicated \ {Here} /\ getNamedPipe' = getNamedPipe
    BY DEF CloseDuplicate, asked
  <1>2. MoreHandles /\ IsFile
    BY <1>1 DEF FilesInv, WhereItIs
  <1>3. /\ FilesTypes' /\ WhereItIs' /\ \A p \in DOMAIN processes' : ListedRight(p)'
        /\ Passed' = Passed /\ UnaskedPipes' = UnaskedPipes
        /\ HandleKind' = HandleKind /\ Here' = Here
    BY <1>1, <1>2, ThreadKept
  <1>4. DuplicatesKnown'
    <2>1. Here \notin Passed
      BY <1>2, PassedGrows DEF FilesInv
    <2>2. Here \notin terminated /\ Here \notin UnaskedPipes
      BY <2>1 DEF FilesInv, DuplicatesKnown, UnaskedPipes
    <2>3. duplicated = terminated \cup UnaskedPipes \cup {Here}
      BY <1>1 DEF FilesInv, DuplicatesKnown, InHand
    <2>4. duplicated' = terminated' \cup UnaskedPipes' /\ InHand' = {}
      BY <1>1, <1>3, <2>2, <2>3 DEF InHand
    <2> QED BY <1>1, <1>3, <2>4 DEF FilesInv, DuplicatesKnown
  <1> QED BY <1>3, <1>4 DEF FilesInv

(* One entry for the file is pushed, and a thread that did not end in time *)
(* is terminated (processInfo.cpp:233-289).                                *)
LEMMA CollectKept == ASSUME FilesInv, Collect PROVE FilesInv'
  <1>t. FilesTypes
    BY DEF FilesInv
  <1>1. PICK success \in BOOLEAN :
           finfo' = [finfo EXCEPT ![at.p] = @ \o Pushed(success, query # "asked")]
    BY DEF Collect
  <1>2. /\ query \in {"asked", "answered", "ended"} /\ query' = "none" /\ NextHandle
        /\ UNCHANGED asked /\ processes' = processes /\ getNamedPipe' = getNamedPipe
        /\ duplicated' = duplicated
        /\ terminated' = IF query = "ended" THEN terminated ELSE terminated \cup {Here}
    BY DEF Collect, asked
  <1>3. MoreHandles /\ IsFile
    BY <1>2 DEF FilesInv, WhereItIs
  <1>p. at.p \in DOMAIN processes
    BY <1>t, <1>3, FilesFacts DEF MoreHandles, InProcess
  <1>4. PICK as \in {"name", "number"} :
           /\ Pushed(success, query # "asked") = <<Entry(as)>>
           /\ as = "name" => HandleKind \in {"named", "pipe"}
    BY DEF Pushed, Entries
  <1>5. /\ finfo' \in [DOMAIN processes -> Seq(EntryType)]
        /\ \A p \in DOMAIN processes : ListedRight(p)'
    <2>1. PICK e : e = Entry(as)
      OBVIOUS
    <2>2. e \in EntryType /\ e.handle = at.i /\ e.as = as
      BY <1>t, <2>1, EntryIsOne
    <2>3. finfo[at.p] \o <<e>> = Append(finfo[at.p], e)
      <3>1. finfo[at.p] \in Seq(EntryType)
        BY <1>t, <1>p, FilesFacts
      <3> QED BY <2>2, <3>1
    <2>4. finfo' = [finfo EXCEPT ![at.p] = Append(@, e)]
      BY <1>1, <1>4, <2>1, <2>3
    <2> QED BY <1>2, <1>3, <1>4, <2>2, <2>4, EntryAdded
  <1>6. FilesTypes'
    BY <1>2, <1>5, <1>t, BehindGrows DEF FilesTypes
  <1>7. WhereItIs'
    BY <1>2, <1>3, MovedOn
  <1>8. DuplicatesKnown'
    <2>1. Passed' = Passed \cup {Here}
      BY <1>2, <1>3, <1>t, PassedGrows
    <2>2. UnaskedPipes' = UnaskedPipes
      BY <1>2, <1>3, <1>t, UnaskedGrows DEF FilesInv, DuplicatesKnown
    <2>3. duplicated = terminated \cup UnaskedPipes
                          \cup (IF query = "ended" THEN {} ELSE {Here})
      BY <1>2 DEF FilesInv, DuplicatesKnown, InHand
    <2>4. InHand' = {}
      BY <1>2 DEF InHand
    <2>5. terminated \subseteq Passed
      BY DEF FilesInv, DuplicatesKnown
    <2>6. duplicated' = terminated' \cup UnaskedPipes' \cup InHand'
      BY <1>2, <2>2, <2>3, <2>4
    <2>7. terminated' \subseteq Passed'
      BY <1>2, <2>1, <2>5
    <2> QED BY <1>2, <2>6, <2>7 DEF DuplicatesKnown
  <1> QED BY <1>2, <1>5, <1>6, <1>7, <1>8 DEF FilesInv

(* What the other parts do leaves the lists alone.                         *)
LEMMA FilesIdle == ASSUME FilesInv, UNCHANGED filesVars PROVE FilesInv'
  <1>1. /\ UNCHANGED <<asked, finfo, at>> /\ query' = query
        /\ UNCHANGED <<duplicated, terminated>> /\ getNamedPipe' = getNamedPipe
    BY DEF filesVars, asked
  <1>2. query' # "none" => MoreHandles /\ IsFile
    BY <1>1 DEF FilesInv, WhereItIs
  <1>3. /\ FilesTypes' /\ WhereItIs' /\ \A p \in DOMAIN processes' : ListedRight(p)'
        /\ Passed' = Passed /\ UnaskedPipes' = UnaskedPipes
        /\ HandleKind' = HandleKind /\ Here' = Here
    BY <1>1, <1>2, ThreadKept
  <1>4. DuplicatesKnown'
    BY <1>1, <1>3 DEF FilesInv, DuplicatesKnown, InHand
  <1> QED BY <1>3, <1>4 DEF FilesInv

(* Every step of openedFiles() keeps the invariant.                        *)
LEMMA FilesKept == FilesInv /\ (FilesNext \/ UNCHANGED filesVars) => FilesInv'
  BY NextProcessKept, PassOverKept, SkipPipeKept, AskKept, AnswerKept, CloseDuplicateKept,
     CollectKept, FilesIdle DEF FilesNext

----------------------------------------------------------------------------
(* pipe().                                                                 *)

(* What the local variables are before each call, and what is open.        *)
PipeInv ==
    /\ step \in {"socket", "bind", "listen", "getsockname", "socket1", "connect", "accept",
                 "close", "returned"}
    /\ tcp \in {-1, 1} /\ tcp1 \in {-1, 2} /\ tcp2 \in {-1, 3}
    /\ step # "returned" => opened = Clean /\ pipe = [read |-> -1, write |-> -1]
    /\ step \notin {"socket", "returned"} => tcp = 1
    /\ step \in {"connect", "accept", "close"} => tcp1 = 2
    /\ step = "close" => tcp2 = 3
    /\ PipeWholeOrNone

(* No socket is open before pipe() is called.                              *)
LEMMA PipeBegins == PipeInit => PipeInv
  BY DEF PipeInit, PipeInv, Clean, PipeWholeOrNone

(* Every call of pipe() keeps the invariant, whether it succeeds or fails. *)
LEMMA PipeKept == PipeInv /\ (PipeNext \/ UNCHANGED pipeVars) => PipeInv'
  <1> SUFFICES ASSUME PipeInv, PipeNext \/ UNCHANGED pipeVars PROVE PipeInv'
    OBVIOUS
  <1>1. CASE OpenListener
    BY <1>1 DEF OpenListener, PipeInv, Clean, PipeWholeOrNone
  <1>2. CASE OpenClient
    BY <1>2 DEF OpenClient, PipeInv, Clean, PipeWholeOrNone
  <1>3. CASE AcceptClient
    BY <1>3 DEF AcceptClient, PipeInv, Clean, PipeWholeOrNone
  <1>4. CASE Proceed
    BY <1>4 DEF Proceed, PipeInv, Clean, PipeWholeOrNone
  <1>5. CASE CloseListener
    <2>1. /\ tcp = 1 /\ tcp1 = 2 /\ tcp2 = 3 /\ opened = Clean
          /\ tcp' = tcp /\ tcp1' = tcp1 /\ tcp2' = tcp2 /\ step' = "returned"
          /\ opened' = opened \ {tcp} /\ pipe' = [read |-> tcp1, write |-> tcp2]
      BY <1>5 DEF CloseListener, PipeInv
    <2>2. opened' = {2, 3}
      BY <2>1 DEF Clean
    <2>3. pipe'.read = 2 /\ pipe'.write = 3
      BY <2>1
    <2> QED BY <2>1, <2>2, <2>3 DEF PipeInv, PipeWholeOrNone
  <1>6. CASE Fail
    BY <1>6 DEF Fail, PipeInv, Clean, PipeWholeOrNone
  <1>7. CASE UNCHANGED pipeVars
    BY <1>7 DEF pipeVars, PipeInv, Clean, PipeWholeOrNone
  <1> QED BY <1>1, <1>2, <1>3, <1>4, <1>5, <1>6, <1>7 DEF PipeNext

----------------------------------------------------------------------------
(* The beginning of a file that grows.                                     *)

(* The kinds of readings, and what is known while readToString() reads on. *)
Readings ==
    {NotReading}
    \cup [call : {"readToBuffer"}, from : Nat, content : Seq(Nat)]
    \cup [call : {"readToString", "read"}, max : Nat, from : Nat, content : Seq(Nat),
          fileSize : Nat]

FileInv ==
    /\ size \in Nat /\ offset \in Nat
    /\ reading \in Readings
    /\ reading.call \in {"readToString", "read"} => reading.fileSize <= size
    /\ FileReadInOrder

(* The smaller of two numbers.                                             *)
LEMMA MinOfTwo ==
    ASSUME NEW a \in Int, NEW b \in Int
    PROVE  Min({a, b}) = IF a <= b THEN a ELSE b
  <1>1. CASE a <= b
    <2>1. a \in {a, b} /\ \A y \in {a, b} : a =< y
      BY <1>1
    <2>2. \A x \in {a, b} : (\A y \in {a, b} : x =< y) => x = a
      BY <1>1
    <2>3. Min({a, b}) = a
      BY <2>1, <2>2 DEF Min
    <2> QED BY <1>1, <2>3
  <1>2. CASE ~(a <= b)
    <2>1. b \in {a, b} /\ \A y \in {a, b} : b =< y
      BY <1>2
    <2>2. \A x \in {a, b} : (\A y \in {a, b} : x =< y) => x = b
      BY <1>2
    <2>3. Min({a, b}) = b
      BY <2>1, <2>2 DEF Min
    <2> QED BY <1>2, <2>3
  <1> QED BY <1>1, <1>2

(* The bytes that are read next.                                           *)
LEMMA NextBytes ==
    ASSUME NEW n \in Nat, offset \in Nat
    PROVE  /\ Bytes(n) \in Seq(Nat) /\ Len(Bytes(n)) = n
           /\ \A i \in 1 .. n : Bytes(n)[i] = offset + i
  <1>1. Bytes(n) = [i \in 1 .. n |-> offset + i]
    BY DEF Bytes
  <1>2. [i \in 1 .. n |-> offset + i] \in Seq(Nat)
    OBVIOUS
  <1> QED BY <1>1, <1>2

(* fread_s() reads what is asked for or what is left of the file.          *)
LEMMA HowMany ==
    ASSUME NEW m \in Nat, size \in Nat, offset \in Nat, offset <= size
    PROVE  /\ fread_s(m) \in Nat /\ fread_s(m) <= m /\ offset + fread_s(m) <= size
           /\ fread_s(m) = 0 => m = 0 \/ offset = size
  <1>1. fread_s(m) = IF m <= size - offset THEN m ELSE size - offset
    BY MinOfTwo DEF fread_s
  <1> QED BY <1>1

(* Nothing is read of a new file.                                          *)
LEMMA FileBegins == SmallFileInit => FileInv
  BY DEF SmallFileInit, FileInv, Readings, NotReading, FileReadInOrder

(* The steps that leave the reading alone.                                 *)
LEMMA FileUnread ==
    ASSUME FileInv, size' \in Nat, size <= size', offset' = offset, reading' = reading
    PROVE  FileInv'
  <1>1. /\ size \in Nat /\ offset \in Nat /\ reading \in Readings /\ offset <= size
        /\ reading.call \in {"readToString", "read"} => reading.fileSize <= size
    BY DEF FileInv, FileReadInOrder
  <1>2. offset' <= size'
    BY <1>1
  <1>3. reading.call \in {"readToString", "read"} => reading.fileSize <= size'
    <2>1. ASSUME reading.call \in {"readToString", "read"} PROVE reading.fileSize \in Nat
      BY <1>1, <2>1 DEF Readings, NotReading
    <2> QED BY <1>1, <2>1
  <1>4. FileReadInOrder'
    BY <1>2 DEF FileInv, FileReadInOrder
  <1> QED BY <1>1, <1>3, <1>4 DEF FileInv

(* readToBuffer() reads on where the file is (fileUtil.cpp:19-37).         *)
LEMMA ToBufferKept == ASSUME FileInv, readToBuffer PROVE FileInv'
  <1>a. /\ size \in Nat /\ offset \in Nat /\ offset <= size /\ size' = size
    BY DEF FileInv, FileReadInOrder, readToBuffer
  <1>b. kBufferSize \in Nat /\ kBufferSize - 1 \in Nat /\ kBufferSize > 0
    BY SmallFileAssumption
  <1>1. PICK n : n = fread_s(kBufferSize - 1)
    OBVIOUS
  <1>2. /\ reading' = [call |-> "readToBuffer", from |-> offset, content |-> Bytes(n)]
        /\ offset' = offset + n
    BY <1>1 DEF readToBuffer
  <1>3. n \in Nat /\ n <= kBufferSize - 1 /\ offset + n <= size
    BY <1>1, <1>a, <1>b, HowMany
  <1>4. /\ Bytes(n) \in Seq(Nat) /\ Len(Bytes(n)) = n /\ DOMAIN Bytes(n) = 1 .. n
        /\ \A i \in 1 .. n : Bytes(n)[i] = offset + i
    BY <1>a, <1>3, NextBytes, LenProperties
  <1>5. /\ reading'.call = "readToBuffer" /\ reading'.from = offset
        /\ reading'.content = Bytes(n)
    BY <1>2
  <1>6. reading' \in Readings
    BY <1>2, <1>4, <1>a DEF Readings
  <1>7. FileReadInOrder'
    BY <1>a, <1>b, <1>2, <1>3, <1>4, <1>5 DEF FileReadInOrder
  <1> QED BY <1>a, <1>2, <1>3, <1>5, <1>6, <1>7 DEF FileInv

(* readToString() notes the size of the file and begins to read            *)
(* (fileUtil.cpp:39-72).                                                   *)
LEMMA ToStringKept == ASSUME FileInv, NEW m \in MaxSizes, readToString(m) PROVE FileInv'
  <1>a. /\ size \in Nat /\ offset \in Nat /\ offset <= size /\ size' = size /\ offset' = offset
        /\ m \in Nat
    BY SmallFileAssumption DEF FileInv, FileReadInOrder, readToString
  <1>1. reading' = [call |-> "readToString", max |-> m, from |-> offset,
                   content |-> <<>>, fileSize |-> size]
    BY DEF readToString
  <1>2. /\ reading'.call = "readToString" /\ reading'.max = m /\ reading'.from = offset
        /\ reading'.content = <<>> /\ reading'.fileSize = size
    BY <1>1
  <1>3. reading' \in Readings
    BY <1>1, <1>a, EmptySeq DEF Readings
  <1>4. FileReadInOrder'
    <2>1. Len(<<>>) = 0 /\ DOMAIN <<>> = {}
      OBVIOUS
    <2> QED BY <1>a, <1>2, <2>1 DEF FileReadInOrder
  <1> QED BY <1>a, <1>2, <1>3, <1>4 DEF FileInv

(* What is read next follows what was read (fileUtil.cpp:74-89).           *)
LEMMA ReadOnKept == ASSUME FileInv, ReadOn PROVE FileInv'
  <1>a. /\ size \in Nat /\ offset \in Nat /\ offset <= size /\ size' = size
        /\ reading.call = "readToString"
    BY DEF FileInv, FileReadInOrder, ReadOn
  <1>b. kBufferSize \in Nat /\ kBufferSize > 0
    BY SmallFileAssumption
  <1>1. reading \in [call : {"readToString", "read"}, max : Nat, from : Nat, content : Seq(Nat),
                     fileSize : Nat]
    BY <1>a DEF FileInv, Readings, NotReading
  <1> DEFINE old == reading.content
             max == reading.max
             start == reading.from
  <1>2. /\ old \in Seq(Nat) /\ max \in Nat /\ start \in Nat /\ reading.fileSize \in Nat
        /\ Len(old) \in Nat /\ DOMAIN old = 1 .. Len(old)
    BY <1>1, LenProperties
  <1>3. \A i \in DOMAIN old : old[i] = start + i
    BY <1>a DEF FileInv, FileReadInOrder
  <1>l. PICK l : l = Len(old)
    OBVIOUS
  <1>m. /\ offset = start + l /\ l <= max /\ reading.fileSize <= size
        /\ l \in Nat /\ max \in Nat /\ start \in Nat /\ reading.fileSize \in Nat
    BY <1>a, <1>2, <1>l DEF FileInv, FileReadInOrder
  <1>4. PICK n : n = fread_s(toRead)
    OBVIOUS
  <1>5. /\ reading' = IF n > 0 THEN [reading EXCEPT !.content = @ \o Bytes(n)]
                               ELSE [reading EXCEPT !.call = "read"]
        /\ offset' = offset + n
    BY <1>4 DEF ReadOn
  <1>6. toRead = IF kBufferSize <= max - l THEN kBufferSize ELSE max - l
    <2>1. toRead = Min({kBufferSize, max - l})
      BY <1>l DEF toRead
    <2> HIDE DEF max
    <2>2. max - l \in Int /\ kBufferSize \in Int
      BY <1>m, <1>b
    <2> QED BY <2>1, <2>2, MinOfTwo
  <1> HIDE DEF old, max, start
  <1>7. toRead \in Nat /\ toRead <= max - l /\ (toRead = 0 => max = l)
    BY <1>m, <1>6, <1>b
  <1>8. /\ n \in Nat /\ n <= toRead /\ offset + n <= size
        /\ n = 0 => toRead = 0 \/ offset = size
    BY <1>4, <1>7, <1>a, HowMany
  <1>9. offset' \in Nat /\ offset' <= size'
    BY <1>a, <1>5, <1>8
  <1>10. CASE n > 0
    <2>1. /\ Bytes(n) \in Seq(Nat) /\ Len(Bytes(n)) = n
          /\ \A i \in 1 .. n : Bytes(n)[i] = offset + i
      BY <1>a, <1>8, NextBytes
    <2> DEFINE new == old \o Bytes(n)
    <2>2. /\ new \in Seq(Nat) /\ Len(new) = l + n
          /\ \A i \in 1 .. l : new[i] = old[i]
          /\ \A i \in l + 1 .. l + n : new[i] = Bytes(n)[i - l]
      <3>1. /\ new \in Seq(Nat) /\ Len(new) = l + n
            /\ \A i \in 1 .. l + n : new[i] = IF i <= l THEN old[i] ELSE Bytes(n)[i - l]
        <4>1. PICK b : b = Bytes(n)
          OBVIOUS
        <4>2. b \in Seq(Nat) /\ Len(b) = n
          BY <2>1, <4>1
        <4>3. /\ old \o b \in Seq(Nat) /\ Len(old \o b) = Len(old) + Len(b)
              /\ \A i \in 1 .. Len(old) + Len(b) :
                    (old \o b)[i] = IF i <= Len(old) THEN old[i] ELSE b[i - Len(old)]
          BY <1>2, <4>2, ConcatProperties
        <4> QED BY <1>l, <4>1, <4>2, <4>3
      <3> HIDE DEF new
      <3> QED BY <1>m, <1>8, <3>1
    <2>3. DOMAIN new = 1 .. l + n
      BY <2>2, LenProperties
    <2> HIDE DEF new
    <2>4. ASSUME NEW i \in 1 .. l + n PROVE new[i] = start + i
      <3>1. CASE i \in 1 .. l
        BY <1>2, <1>3, <1>l, <2>2, <3>1
      <3>2. CASE i \in l + 1 .. l + n
        <4>1. i - l \in 1 .. n
          BY <1>m, <1>8, <3>2
        <4>2. new[i] = offset + (i - l)
          BY <2>1, <2>2, <3>2, <4>1
        <4> QED BY <1>m, <4>1, <4>2
      <3> QED BY <1>m, <1>8, <3>1, <3>2
    <2>5. reading' = [reading EXCEPT !.content = new]
      BY <1>5, <1>10 DEF new, old
    <2>6. /\ reading'.call = "readToString" /\ reading'.max = max /\ reading'.from = start
          /\ reading'.content = new /\ reading'.fileSize = reading.fileSize
          /\ reading' \in [call : {"readToString", "read"}, max : Nat, from : Nat,
                           content : Seq(Nat), fileSize : Nat]
      BY <1>1, <1>a, <2>2, <2>5 DEF max, start
    <2>7. reading' \in Readings
      BY <2>6 DEF Readings
    <2>8. Len(new) <= max /\ offset' = start + Len(new)
      BY <1>m, <1>5, <1>7, <1>8, <2>2
    <2>9. FileReadInOrder'
      BY <1>9, <2>3, <2>4, <2>6, <2>8 DEF FileReadInOrder
    <2> QED BY <1>a, <1>m, <1>9, <2>6, <2>7, <2>9 DEF FileInv
  <1>11. CASE n = 0
    <2>1. reading' = [reading EXCEPT !.call = "read"]
      BY <1>5, <1>11
    <2>2. /\ reading'.call = "read" /\ reading'.max = max /\ reading'.from = start
          /\ reading'.content = old /\ reading'.fileSize = reading.fileSize
          /\ reading' \in [call : {"readToString", "read"}, max : Nat, from : Nat,
                           content : Seq(Nat), fileSize : Nat]
      BY <1>1, <2>1 DEF max, start, old
    <2>3. reading' \in Readings
      BY <2>2 DEF Readings
    <2>4. offset' = offset
      BY <1>a, <1>5, <1>11
    <2>5. l >= Min({max, reading.fileSize - start})
      <3>1. max = l \/ offset = size
        BY <1>7, <1>8, <1>11
      <3>2. max \in Int /\ reading.fileSize - start \in Int
        BY <1>m
      <3>3. Min({max, reading.fileSize - start}) =
               IF max <= reading.fileSize - start THEN max ELSE reading.fileSize - start
        BY <3>2, MinOfTwo
      <3> QED BY <1>m, <1>a, <3>1, <3>3
    <2>6. FileReadInOrder'
      BY <1>l, <1>m, <1>3, <1>9, <2>2, <2>4, <2>5 DEF FileReadInOrder
    <2> QED BY <1>a, <1>m, <1>9, <2>2, <2>3, <2>6 DEF FileInv
  <1> QED BY <1>8, <1>10, <1>11

(* Every step keeps the invariant of the file.                             *)
LEMMA FileKept == FileInv /\ (SmallFileNext \/ UNCHANGED smallFileVars) => FileInv'
  <1> SUFFICES ASSUME FileInv, SmallFileNext \/ UNCHANGED smallFileVars PROVE FileInv'
    OBVIOUS
  <1>s. size \in Nat
    BY DEF FileInv
  <1>1. CASE Grows
    <2>1. size' \in Nat /\ size <= size' /\ offset' = offset /\ reading' = reading
      BY <1>1, <1>s DEF Grows
    <2> QED BY <2>1, FileUnread
  <1>2. CASE OpenFile \/ CloseFile \/ UNCHANGED smallFileVars
    <2>1. size' \in Nat /\ size <= size' /\ offset' = offset /\ reading' = reading
      BY <1>2, <1>s DEF OpenFile, CloseFile, smallFileVars
    <2> QED BY <2>1, FileUnread
  <1> QED BY <1>1, <1>2, ToBufferKept, ToStringKept, ReadOnKept DEF SmallFileNext

----------------------------------------------------------------------------
(* Numbers of w bytes.                                                     *)

(* Every set of numbers has a least.                                       *)
LEMMA LeastNumber ==
    ASSUME NEW T, T \subseteq Nat, T # {}
    PROVE  \E n \in T : \A y \in T : ~(y < n)
  <1>1. \E n \in T : \A y \in T : ~(<<y, n>> \in OpToRel(<, Nat))
    BY NatLessThanWellFounded, WFMin
  <1> QED BY <1>1 DEF OpToRel

(* A product grows with its factor...                                      *)
LEMMA TimesMonotonic ==
    ASSUME NEW a \in Int, NEW b \in Int, NEW d \in Nat, a <= b
    PROVE  a * d <= b * d
  OBVIOUS

(* ... by the other factor at least.                                       *)
LEMMA TimesOneMore ==
    ASSUME NEW a \in Int, NEW b \in Int, NEW d \in Nat, a < b
    PROVE  a * d + d <= b * d
  <1>1. (a + 1) * d <= b * d
    <2>1. a + 1 \in Int /\ a + 1 <= b
      OBVIOUS
    <2> QED BY <2>1, TimesMonotonic
  <1>2. (a + 1) * d = a * d + d
    OBVIOUS
  <1>3. a * d \in Int /\ b * d \in Int
    OBVIOUS
  <1> QED BY <1>1, <1>2, <1>3

(* What the quotient and the remainder of a division are...                *)
LEMMA Quotient ==
    ASSUME NEW a \in Int, NEW d \in Nat, d > 0
    PROVE  /\ a \div d \in Int /\ (a \div d) * d <= a /\ a < (a \div d) * d + d
           /\ a % d \in 0 .. d - 1 /\ a = (a \div d) * d + (a % d)
  <1>1. a \div d \in Int
    OBVIOUS
  <1>2. a % d \in 0 .. d - 1
    OBVIOUS
  <1>3. a = d * (a \div d) + (a % d)
    OBVIOUS
  <1>4. d * (a \div d) = (a \div d) * d
    OBVIOUS
  <1> QED BY <1>1, <1>2, <1>3, <1>4

(* ... and that no other number is the quotient.                           *)
LEMMA QuotientUnique ==
    ASSUME NEW a \in Int, NEW d \in Nat, d > 0, NEW q \in Int, q * d <= a, a < q * d + d
    PROVE  a \div d = q
  <1> DEFINE p == a \div d
  <1>1. p \in Int /\ p * d <= a /\ a < p * d + d
    BY Quotient
  <1> HIDE DEF p
  <1>2. p * d \in Int /\ q * d \in Int
    BY <1>1
  <1>3. ~(p < q)
    <2> SUFFICES ASSUME p < q PROVE FALSE
      OBVIOUS
    <2>1. p * d + d <= q * d
      BY <1>1, TimesOneMore
    <2> QED BY <1>1, <1>2, <2>1
  <1>4. ~(q < p)
    <2> SUFFICES ASSUME q < p PROVE FALSE
      OBVIOUS
    <2>1. q * d + d <= p * d
      BY <1>1, TimesOneMore
    <2> QED BY <1>1, <1>2, <2>1
  <1>5. p = q
    BY <1>1, <1>3, <1>4
  <1> QED BY <1>5 DEF p

(* Dividing by a product is dividing twice.                                *)
LEMMA QuotientTwice ==
    ASSUME NEW a \in Int, NEW b \in Nat, NEW d \in Nat, b > 0, d > 0
    PROVE  a \div (b * d) = (a \div d) \div b
  <1> DEFINE p == a \div d
             q == p \div b
  <1>1. p \in Int /\ p * d <= a /\ a < p * d + d
    BY Quotient
  <1> HIDE DEF p
  <1>2. q \in Int /\ q * b <= p /\ p < q * b + b
    BY <1>1, Quotient
  <1> HIDE DEF q
  <1>3. b * d \in Nat /\ b * d > 0
    OBVIOUS
  <1>4. q * (b * d) = (q * b) * d /\ q * b \in Int /\ (q * b) * d \in Int /\ p * d \in Int
    BY <1>1, <1>2
  <1>5. (q * b) * d <= p * d
    BY <1>1, <1>2, <1>4, TimesMonotonic
  <1>6. p * d + d <= (q * b + b) * d
    BY <1>1, <1>2, <1>4, TimesOneMore
  <1>7. (q * b + b) * d = (q * b) * d + b * d
    BY <1>2, <1>4
  <1>8. q * (b * d) <= a /\ a < q * (b * d) + b * d
    BY <1>1, <1>3, <1>4, <1>5, <1>6, <1>7
  <1>9. a \div (b * d) = q
    BY <1>2, <1>3, <1>8, QuotientUnique
  <1> QED BY <1>9 DEF p, q

(* The recursion of Weight, up to n.                                       *)
WeightsTo(f, n) == /\ f \in [0 .. n -> Nat] /\ f[0] = 1
                   /\ \A i \in 1 .. n : f[i] = Base * f[i - 1]

(* There is a function as the recursion says, for a least n without one    *)
(* would have one.                                                         *)
LEMMA WeightsExist == \A n \in Nat : \E f : WeightsTo(f, n)
  <1> DEFINE Bad == {n \in Nat : ~ \E f : WeightsTo(f, n)}
  <1> SUFFICES ASSUME Bad # {} PROVE FALSE
    OBVIOUS
  <1>b. Base \in Nat
    BY BufferAssumption
  <1>1. PICK n \in Bad : \A y \in Bad : ~(y < n)
    BY LeastNumber
  <1>2. CASE n = 0
    <2> DEFINE f == [i \in 0 .. 0 |-> 1]
    <2>1. WeightsTo(f, 0)
      BY DEF WeightsTo
    <2> QED BY <1>1, <1>2, <2>1
  <1>3. CASE n # 0
    <2>1. n \in Nat /\ n - 1 \in Nat /\ n - 1 < n /\ n - 1 \notin Bad
      BY <1>1, <1>3
    <2>2. PICK g : WeightsTo(g, n - 1)
      BY <2>1
    <2> HIDE DEF Bad
    <2>3. g \in [0 .. n - 1 -> Nat] /\ g[0] = 1 /\ \A i \in 1 .. n - 1 : g[i] = Base * g[i - 1]
      BY <2>2 DEF WeightsTo
    <2>4. PICK last \in Nat : last = Base * g[n - 1]
      <3>1. n - 1 \in 0 .. n - 1
        BY <2>1
      <3>2. g[n - 1] \in Nat
        BY <2>3, <3>1
      <3> QED BY <1>b, <3>2
    <2> DEFINE f == [i \in 0 .. n |-> IF i < n THEN g[i] ELSE last]
    <2>5. ASSUME NEW i \in 0 .. n PROVE f[i] \in Nat
      <3>1. i < n => i \in 0 .. n - 1
        BY <2>1
      <3>2. i < n => g[i] \in Nat
        BY <2>3, <3>1
      <3> QED BY <2>4, <3>2
    <2>6. f \in [0 .. n -> Nat]
      BY <2>5
    <2>7. f[0] = 1 /\ f[n] = last /\ \A i \in 0 .. n - 1 : f[i] = g[i]
      BY <2>1, <2>3, <1>3
    <2> HIDE DEF f
    <2>8. ASSUME NEW i \in 1 .. n PROVE f[i] = Base * f[i - 1]
      <3>1. CASE i < n
        <4>1. i \in 1 .. n - 1 /\ i \in 0 .. n - 1 /\ i - 1 \in 0 .. n - 1
          BY <2>1, <3>1
        <4> QED BY <2>3, <2>7, <4>1
      <3>2. CASE i = n
        <4>1. n - 1 \in 0 .. n - 1
          BY <2>1
        <4> QED BY <2>4, <2>7, <3>2, <4>1
      <3> QED BY <2>1, <3>1, <3>2
    <2>9. WeightsTo(f, n)
      BY <2>6, <2>7, <2>8 DEF WeightsTo
    <2> QED BY <1>1, <2>9 DEF Bad
  <1> QED BY <1>2, <1>3

(* Two such functions agree where both are.                                *)
LEMMA WeightsAgree ==
    ASSUME NEW f, NEW g, NEW n \in Nat, NEW m \in Nat, WeightsTo(f, n), WeightsTo(g, m),
           NEW k \in Nat, k <= n, k <= m
    PROVE  f[k] = g[k]
  <1> DEFINE Bad == {i \in 0 .. k : f[i] # g[i]}
  <1> SUFFICES ASSUME Bad # {} PROVE FALSE
    <2> k \in 0 .. k
      OBVIOUS
    <2> QED OBVIOUS
  <1>1. Bad \subseteq Nat
    OBVIOUS
  <1>2. PICK i \in Bad : \A y \in Bad : ~(y < i)
    BY <1>1, LeastNumber
  <1>3. i # 0
    BY <1>2 DEF WeightsTo
  <1>4. i \in 1 .. n /\ i \in 1 .. m /\ i - 1 \in 0 .. k /\ i - 1 < i
    BY <1>2, <1>3
  <1>5. f[i - 1] = g[i - 1]
    BY <1>2, <1>4
  <1>6. f[i] = Base * f[i - 1] /\ g[i] = Base * g[i - 1]
    BY <1>4 DEF WeightsTo
  <1>7. f[i] = g[i]
    BY <1>5, <1>6
  <1> QED BY <1>2, <1>7

(* Weight is what its definition says.                                     *)
LEMMA WeightIs ==
    /\ Weight \in [Nat -> Nat] /\ Weight[0] = 1
    /\ \A n \in Nat : Weight[n + 1] = Base * Weight[n]
  <1> DEFINE g(n) == CHOOSE f : WeightsTo(f, n)
             F == [n \in Nat |-> g(n)[n]]
  <1>1. ASSUME NEW n \in Nat PROVE WeightsTo(g(n), n)
    BY WeightsExist
  <1> HIDE DEF g
  <1>2. ASSUME NEW n \in Nat PROVE F[n] = g(n)[n] /\ F[n] \in Nat
    <2>1. WeightsTo(g(n), n) /\ n \in 0 .. n
      BY <1>1
    <2> QED BY <2>1 DEF WeightsTo
  <1>3. F[0] = 1
    <2>1. WeightsTo(g(0), 0)
      BY <1>1
    <2> QED BY <1>2, <2>1 DEF WeightsTo
  <1>4. ASSUME NEW n \in Nat, n # 0 PROVE F[n] = Base * F[n - 1]
    <2>1. WeightsTo(g(n), n) /\ n - 1 \in Nat /\ WeightsTo(g(n - 1), n - 1) /\ n - 1 <= n
      BY <1>1, <1>4
    <2>2. g(n)[n - 1] = g(n - 1)[n - 1]
      BY <2>1, WeightsAgree
    <2>3. n \in 1 .. n
      BY <1>4
    <2>4. g(n)[n] = Base * g(n)[n - 1]
      BY <2>1, <2>3 DEF WeightsTo
    <2> QED BY <1>2, <2>1, <2>2, <2>4
  <1>5. F \in [Nat -> Nat]
    BY <1>2
  <1> DEFINE R == [n \in Nat |-> IF n = 0 THEN 1 ELSE Base * F[n - 1]]
  <1>6. ASSUME NEW n \in Nat PROVE F[n] = R[n]
    BY <1>3, <1>4
  <1> HIDE DEF F
  <1>7. F = R
    BY <1>5, <1>6
  <1>8. Weight = [n \in Nat |-> IF n = 0 THEN 1 ELSE Base * Weight[n - 1]]
    <2> DEFINE W(f) == f = [n \in Nat |-> IF n = 0 THEN 1 ELSE Base * f[n - 1]]
    <2>1. W(F)
      BY <1>7
    <2>2. Weight = CHOOSE f : W(f)
      BY DEF Weight
    <2> HIDE DEF W
    <2>3. W(Weight)
      BY <2>1, <2>2
    <2> QED BY <2>3 DEF W
  <1>9. \A n \in Nat : Weight[n] = IF n = 0 THEN 1 ELSE Base * Weight[n - 1]
    BY <1>8
  <1>10. \A n \in Nat : Weight[n] = F[n]
    <2> DEFINE Bad == {n \in Nat : Weight[n] # F[n]}
    <2>1. Bad = {}
      <3> SUFFICES ASSUME Bad # {} PROVE FALSE
        OBVIOUS
      <3>1. PICK i \in Bad : \A y \in Bad : ~(y < i)
        BY LeastNumber
      <3>2. i # 0
        BY <1>3, <1>9, <3>1
      <3>3. i - 1 \in Nat /\ i - 1 < i
        BY <3>1, <3>2
      <3>4. Weight[i - 1] = F[i - 1]
        BY <3>1, <3>3
      <3>5. F[i] = Base * F[i - 1]
        BY <1>4, <3>1, <3>2
      <3> QED BY <1>9, <3>1, <3>2, <3>4, <3>5
    <2>2. \A n \in Nat : Weight[n] = F[n]
      BY <2>1
    <2> QED BY <2>2
  <1>11. Weight \in [Nat -> Nat]
    <2>1. \A n \in Nat : Weight[n] \in Nat
      BY <1>5, <1>10
    <2>2. Weight = [n \in Nat |-> Weight[n]]
      BY <1>8
    <2> QED BY <2>1, <2>2
  <1>12. ASSUME NEW n \in Nat PROVE Weight[n + 1] = Base * Weight[n]
    <2>1. n + 1 \in Nat /\ n + 1 # 0 /\ (n + 1) - 1 = n
      OBVIOUS
    <2> QED BY <1>9, <2>1
  <1> QED BY <1>3, <1>10, <1>11, <1>12

(* Some bytes have at least one value.                                     *)
LEMMA WeightPositive == \A n \in Nat : Weight[n] \in Nat /\ Weight[n] > 0
  <1> DEFINE Bad == {n \in Nat : ~(Weight[n] > 0)}
  <1>1. Bad = {}
    <2> SUFFICES ASSUME Bad # {} PROVE FALSE
      OBVIOUS
    <2>1. PICK i \in Bad : \A y \in Bad : ~(y < i)
      BY LeastNumber
    <2>2. i # 0
      BY <2>1, WeightIs
    <2>3. i - 1 \in Nat /\ i - 1 < i /\ (i - 1) + 1 = i
      BY <2>1, <2>2
    <2>4. Weight[i - 1] > 0 /\ Weight[i - 1] \in Nat
      BY <2>1, <2>3, WeightIs
    <2>5. Weight[i] = Base * Weight[i - 1]
      BY <2>3, WeightIs
    <2>6. Base \in Nat /\ Base > 0
      BY BufferAssumption
    <2>7. Base * Weight[i - 1] > 0
      BY <2>4, <2>6
    <2> QED BY <2>1, <2>5, <2>7
  <1>2. \A n \in Nat : Weight[n] > 0
    BY <1>1
  <1> QED BY <1>2, WeightIs

(* The only function that recurs as Unsigned does gives its value.         *)
LEMMA UnsignedIs ==
    ASSUME NEW str, Len(str) \in Nat, NEW V \in [0 .. Len(str) -> Int], V[0] = 0,
           \A n \in 1 .. Len(str) : V[n] = V[n - 1] * Base + str[n]
    PROVE  Unsigned(str) = V[Len(str)]
  <1> DEFINE w == Len(str)
             U(f) == f = [n \in 0 .. w |-> IF n = 0 THEN 0 ELSE f[n - 1] * Base + str[n]]
             u == CHOOSE f : U(f)
  <1>1. Unsigned(str) = u[w]
    BY DEF Unsigned
  <1>2. U(V)
    <2> DEFINE R == [n \in 0 .. w |-> IF n = 0 THEN 0 ELSE V[n - 1] * Base + str[n]]
    <2>1. ASSUME NEW n \in 0 .. w PROVE V[n] = R[n]
      OBVIOUS
    <2> HIDE DEF R
    <2>2. DOMAIN R = 0 .. w /\ R = [n \in 0 .. w |-> R[n]]
      BY DEF R
    <2>3. V = [n \in 0 .. w |-> V[n]]
      OBVIOUS
    <2>4. V = R
      BY <2>1, <2>2, <2>3
    <2> QED BY <2>4 DEF R
  <1> HIDE DEF U
  <1>3. U(u)
    BY <1>2
  <1> HIDE DEF u
  <1>4. \A n \in 0 .. w : u[n] = IF n = 0 THEN 0 ELSE u[n - 1] * Base + str[n]
    BY <1>3 DEF U
  <1>5. \A n \in 0 .. w : u[n] = V[n]
    <2> DEFINE Bad == {n \in 0 .. w : u[n] # V[n]}
    <2> SUFFICES ASSUME Bad # {} PROVE FALSE
      OBVIOUS
    <2>1. Bad \subseteq Nat
      OBVIOUS
    <2>2. PICK i \in Bad : \A y \in Bad : ~(y < i)
      BY <2>1, LeastNumber
    <2>3. i # 0
      BY <1>4, <2>2
    <2>4. i \in 1 .. w /\ i - 1 \in 0 .. w /\ i - 1 < i
      BY <2>2, <2>3
    <2>5. u[i - 1] = V[i - 1]
      BY <2>2, <2>4
    <2>6. u[i] = u[i - 1] * Base + str[i]
      BY <1>4, <2>2, <2>3
    <2>7. V[i] = V[i - 1] * Base + str[i]
      BY <2>4
    <2> QED BY <2>2, <2>5, <2>6, <2>7
  <1>6. w \in 0 .. w
    OBVIOUS
  <1> QED BY <1>1, <1>5, <1>6

(* The bytes of a number.                                                  *)
LEMMA BytesOfInt ==
    ASSUME NEW x \in Int, NEW w \in Nat
    PROVE  /\ hostToNetwork(x, w) \in Seq(Byte) /\ Len(hostToNetwork(x, w)) = w
           /\ \A i \in 1 .. w : hostToNetwork(x, w)[i] = (x \div Weight[w - i]) % Base
  <1>1. ASSUME NEW i \in 1 .. w PROVE (x \div Weight[w - i]) % Base \in Byte
    <2>1. w - i \in Nat
      OBVIOUS
    <2>2. Weight[w - i] \in Nat /\ Weight[w - i] > 0
      BY <2>1, WeightPositive
    <2>3. x \div Weight[w - i] \in Int
      BY <2>2, Quotient
    <2>4. Base \in Nat /\ Base > 0
      BY BufferAssumption
    <2> QED BY <2>3, <2>4, Quotient DEF Byte
  <1> DEFINE h == hostToNetwork(x, w)
  <1>2. h = [i \in 1 .. w |-> (x \div Weight[w - i]) % Base]
    BY DEF hostToNetwork
  <1> HIDE DEF h
  <1>3. h \in [1 .. w -> Byte] /\ \A i \in 1 .. w : h[i] = (x \div Weight[w - i]) % Base
    BY <1>1, <1>2
  <1>4. h \in Seq(Byte) /\ Len(h) = w
    BY <1>3
  <1> QED BY <1>3, <1>4 DEF h

(* What the bytes stand for if they are read without a sign.               *)
LEMMA UnsignedOfInt ==
    ASSUME NEW x \in Int, NEW w \in Nat
    PROVE  Unsigned(hostToNetwork(x, w)) = x - Weight[w] * (x \div Weight[w])
  <1> DEFINE h == hostToNetwork(x, w)
             q(n) == x \div Weight[w - n]
             V == [n \in 0 .. w |-> q(n) - Weight[n] * q(0)]
  <1>1. Len(h) = w /\ \A i \in 1 .. w : h[i] = q(i) % Base
    BY BytesOfInt
  <1> HIDE DEF h
  <1>2. Base \in Nat /\ Base > 0
    BY BufferAssumption
  <1>3. ASSUME NEW n \in 0 .. w
        PROVE  q(n) \in Int /\ Weight[n] \in Nat
    <2>1. w - n \in Nat /\ n \in Nat
      OBVIOUS
    <2>2. Weight[w - n] \in Nat /\ Weight[w - n] > 0 /\ Weight[n] \in Nat
      BY <2>1, WeightPositive
    <2> QED BY <2>2, Quotient
  <1>4. ASSUME NEW n \in 1 .. w
        PROVE  q(n) = q(n - 1) * Base + h[n]
    <2>1. w - n \in Nat /\ w - (n - 1) = (w - n) + 1 /\ n - 1 \in 0 .. w /\ n \in 0 .. w
      OBVIOUS
    <2>2. Weight[w - (n - 1)] = Base * Weight[w - n] /\ Weight[w - n] \in Nat
          /\ Weight[w - n] > 0
      BY <2>1, WeightIs, WeightPositive
    <2>3. q(n - 1) = q(n) \div Base
      BY <1>2, <2>2, QuotientTwice
    <2>4. q(n) \in Int
      BY <1>3, <2>1
    <2> HIDE DEF q
    <2>5. q(n) = (q(n) \div Base) * Base + (q(n) % Base)
      BY <1>2, <2>4, Quotient
    <2> QED BY <1>1, <2>3, <2>5
  <1>5. Weight[0] = 1
    BY WeightIs
  <1>c. q(w) = x
    <2>1. w - w = 0
      OBVIOUS
    <2>2. x \div 1 = x
      BY QuotientUnique
    <2> QED BY <1>5, <2>1, <2>2
  <1>d. q(0) = x \div Weight[w]
    <2>1. w - 0 = w
      OBVIOUS
    <2> QED BY <2>1
  <1> HIDE DEF q
  <1>6. V \in [0 .. Len(h) -> Int]
    <2>1. ASSUME NEW n \in 0 .. w PROVE q(n) - Weight[n] * q(0) \in Int
      <3>1. 0 \in 0 .. w
        OBVIOUS
      <3>2. q(n) \in Int /\ Weight[n] \in Nat /\ q(0) \in Int
        BY <1>3, <3>1
      <3> QED BY <3>2
    <2> QED BY <1>1, <2>1
  <1>7. V[0] = 0
    <2>1. q(0) \in Int /\ 0 \in 0 .. w
      BY <1>3
    <2> QED BY <1>5, <2>1
  <1>8. ASSUME NEW n \in 1 .. Len(h) PROVE V[n] = V[n - 1] * Base + h[n]
    <2>1. n \in 1 .. w /\ n \in 0 .. w /\ n - 1 \in 0 .. w /\ 0 \in 0 .. w
          /\ n - 1 \in Nat /\ (n - 1) + 1 = n
      BY <1>1
    <2>2. q(n - 1) \in Int /\ q(0) \in Int /\ Weight[n - 1] \in Nat
      BY <1>3, <2>1
    <2>3. Weight[n] = Base * Weight[n - 1]
      BY <2>1, WeightIs
    <2>4. q(n) = q(n - 1) * Base + h[n] /\ h[n] \in Int
      <3>1. h[n] = q(n) % Base /\ q(n) \in Int
        BY <1>1, <1>3, <2>1
      <3>2. h[n] \in Int
        BY <3>1, <1>2, Quotient
      <3> QED BY <1>4, <2>1, <3>2
    <2>5. V[n] = q(n) - Weight[n] * q(0) /\ V[n - 1] = q(n - 1) - Weight[n - 1] * q(0)
      BY <2>1
    <2> HIDE DEF V
    <2>6. (q(n - 1) - Weight[n - 1] * q(0)) * Base
             = q(n - 1) * Base - (Base * Weight[n - 1]) * q(0)
      BY <2>2, <1>2
    <2> DEFINE a == q(n - 1) * Base
               b == (Base * Weight[n - 1]) * q(0)
    <2>7. a \in Int /\ b \in Int
      BY <2>2, <1>2
    <2>8. V[n] = (a + h[n]) - b
      BY <2>3, <2>4, <2>5
    <2>9. V[n - 1] * Base = a - b
      BY <2>5, <2>6
    <2> HIDE DEF a, b
    <2> QED BY <2>4, <2>7, <2>8, <2>9
  <1>9. Unsigned(h) = V[w]
    <2> HIDE DEF V
    <2> QED BY <1>1, <1>6, <1>7, <1>8, UnsignedIs
  <1>10. V[w] = x - Weight[w] * (x \div Weight[w])
    BY <1>c, <1>d
  <1> QED BY <1>9, <1>10 DEF h

(* A number of w bytes comes back from them.                               *)
LEMMA IntsComeBack ==
    ASSUME NEW w \in Nat, NEW x \in Ints(w)
    PROVE  networkToHost(hostToNetwork(x, w)) = x
  <1> DEFINE W == Weight[w]
             h == hostToNetwork(x, w)
  <1>1. W \in Nat /\ W > 0
    BY WeightPositive
  <1> HIDE DEF W
  <1>2. PICK half \in Int : half = W \div 2
    BY <1>1, Quotient
  <1>3. half * 2 <= W /\ W < half * 2 + 2
    <2>1. 2 \in Nat /\ W \in Int
      BY <1>1
    <2> QED BY <2>1, <1>2, Quotient
  <1>4. x \in Int /\ -half <= x /\ x <= half - 1
    BY <1>2 DEF Ints, W
  <1>5. Len(h) = w
    BY <1>4, BytesOfInt
  <1>6. Unsigned(h) = x - W * (x \div W)
    BY <1>4, UnsignedOfInt DEF W
  <1>7. networkToHost(h) = IF Unsigned(h) < half THEN Unsigned(h) ELSE Unsigned(h) - W
    BY <1>2, <1>5 DEF networkToHost, W
  <1> HIDE DEF h
  <1>8. CASE x >= 0
    <2>1. x \div W = 0
      <3>1. 0 * W <= x /\ x < 0 * W + W
        BY <1>1, <1>3, <1>4, <1>8
      <3> QED BY <1>1, <1>4, <3>1, QuotientUnique
    <2>2. Unsigned(h) = x
      BY <1>1, <1>4, <1>6, <2>1
    <2>3. networkToHost(h) = x
      BY <1>4, <1>7, <2>2
    <2> QED BY <2>3 DEF h
  <1>9. CASE x < 0
    <2>1. x \div W = -1
      <3>1. (-1) * W <= x /\ x < (-1) * W + W
        BY <1>1, <1>3, <1>4, <1>9
      <3> QED BY <1>1, <1>4, <3>1, QuotientUnique
    <2>2. Unsigned(h) = x + W
      BY <1>1, <1>4, <1>6, <2>1
    <2>3. ~(x + W < half)
      BY <1>1, <1>2, <1>3, <1>4
    <2>4. networkToHost(h) = x
      BY <1>1, <1>4, <1>7, <2>2, <2>3
    <2> QED BY <2>4 DEF h
  <1> QED BY <1>4, <1>8, <1>9

----------------------------------------------------------------------------
(* The buffer.                                                             *)

IsBuffer(b) ==
    /\ b = [vec |-> b.vec, reader |-> b.reader, writer |-> b.writer]
    /\ b.vec \in Seq(Byte) /\ Len(b.vec) \in Nat /\ b.reader \in Nat /\ b.writer \in Nat
    /\ b.reader <= b.writer /\ b.writer <= Len(b.vec)
    /\ kCheapPrepend <= Len(b.vec)

(* The elements of a sequence of bytes.                                    *)
LEMMA BytesOf ==
    ASSUME NEW s \in Seq(Byte)
    PROVE  /\ Len(s) \in Nat /\ DOMAIN s = 1 .. Len(s)
           /\ \A i \in 1 .. Len(s) : s[i] \in Byte
  BY LenProperties, ElementOfSeq

(* What a vector grows by are bytes.                                       *)
LEMMA ZeroIsByte == 0 \in Byte /\ Byte \subseteq Nat
  <1>1. Base \in Nat /\ Base >= 2
    BY BufferAssumption
  <1> QED BY <1>1 DEF Byte

(* A sequence is given by its elements.                                    *)
LEMMA SameBytes ==
    ASSUME NEW s \in Seq(Byte), NEW t \in Seq(Byte), Len(s) = Len(t),
           \A i \in 1 .. Len(s) : s[i] = t[i]
    PROVE  s = t
  BY SeqEqual

(* The contents are the bytes between the indices.                         *)
LEMMA ContentsAre ==
    ASSUME NEW b, IsBuffer(b)
    PROVE  /\ Contents(b) \in Seq(Byte) /\ Len(Contents(b)) = b.writer - b.reader
           /\ \A i \in 1 .. b.writer - b.reader : Contents(b)[i] = b.vec[b.reader + i]
           /\ b.writer - b.reader \in Nat
  <1> DEFINE v == b.vec
             r == b.reader
             w == b.writer
  <1>1. v \in Seq(Byte) /\ Len(v) \in Nat /\ r \in Nat /\ w \in Nat /\ r <= w /\ w <= Len(v)
    BY DEF IsBuffer
  <1>2. Contents(b) = SubSeq(v, r + 1, w)
    BY DEF Contents
  <1> HIDE DEF v, r, w
  <1>3. /\ SubSeq(v, r + 1, w) \in Seq(Byte) /\ Len(SubSeq(v, r + 1, w)) = w - r
        /\ \A i \in 1 .. w - r : SubSeq(v, r + 1, w)[i] = v[r + i]
    <2>1. \A i \in r + 1 .. w : v[i] \in Byte
      BY <1>1, BytesOf
    <2> QED BY <1>1, <2>1
  <1>4. w - r \in Nat
    BY <1>1
  <1> QED BY <1>2, <1>3, <1>4 DEF v, r, w

(* std::copy() to a place in the vector changes the bytes there and no     *)
(* others.                                                                 *)
LEMMA CopiedIs ==
    ASSUME NEW vec \in Seq(Byte), NEW to \in Nat, NEW str \in Seq(Byte)
    PROVE  /\ Copied(vec, to, str) \in Seq(Byte) /\ Len(Copied(vec, to, str)) = Len(vec)
           /\ \A i \in 1 .. Len(vec) : Copied(vec, to, str)[i] =
                 IF to < i /\ i <= to + Len(str) THEN str[i - to] ELSE vec[i]
  <1>1. /\ Len(vec) \in Nat /\ DOMAIN vec = 1 .. Len(vec)
        /\ \A i \in 1 .. Len(vec) : vec[i] \in Byte
    BY BytesOf
  <1>2. Len(str) \in Nat /\ \A i \in 1 .. Len(str) : str[i] \in Byte
    BY BytesOf
  <1> DEFINE c == Copied(vec, to, str)
  <1>3. c = [i \in 1 .. Len(vec) |-> IF to < i /\ i <= to + Len(str) THEN str[i - to]
                                     ELSE vec[i]]
    BY <1>1 DEF Copied
  <1>4. ASSUME NEW i \in 1 .. Len(vec)
        PROVE  (IF to < i /\ i <= to + Len(str) THEN str[i - to] ELSE vec[i]) \in Byte
    <2>1. to < i /\ i <= to + Len(str) => i - to \in 1 .. Len(str)
      BY <1>2
    <2> QED BY <1>1, <1>2, <2>1
  <1> HIDE DEF c
  <1>5. c \in [1 .. Len(vec) -> Byte]
    BY <1>3, <1>4
  <1>6. c \in Seq(Byte) /\ Len(c) = Len(vec)
    BY <1>1, <1>5
  <1>7. \A i \in 1 .. Len(vec) : c[i] = IF to < i /\ i <= to + Len(str) THEN str[i - to]
                                        ELSE vec[i]
    BY <1>3
  <1> QED BY <1>6, <1>7 DEF c

(* vector::resize() to a size that is larger keeps what was there.         *)
LEMMA ResizedIs ==
    ASSUME NEW vec \in Seq(Byte), NEW n \in Nat, Len(vec) <= n
    PROVE  /\ Resized(vec, n) \in Seq(Byte) /\ Len(Resized(vec, n)) = n
           /\ \A i \in 1 .. Len(vec) : Resized(vec, n)[i] = vec[i]
  <1>1. Len(vec) \in Nat /\ \A i \in 1 .. Len(vec) : vec[i] \in Byte
    BY BytesOf
  <1> DEFINE c == Resized(vec, n)
  <1>2. c = [i \in 1 .. n |-> IF i <= Len(vec) THEN vec[i] ELSE 0]
    BY DEF Resized
  <1>3. ASSUME NEW i \in 1 .. n PROVE (IF i <= Len(vec) THEN vec[i] ELSE 0) \in Byte
    <2>1. i <= Len(vec) => i \in 1 .. Len(vec)
      BY <1>1
    <2> QED BY <1>1, <2>1, ZeroIsByte
  <1> HIDE DEF c
  <1>4. c \in [1 .. n -> Byte]
    BY <1>2, <1>3
  <1>5. c \in Seq(Byte) /\ Len(c) = n
    BY <1>4
  <1>6. \A i \in 1 .. Len(vec) : c[i] = vec[i]
    BY <1>1, <1>2
  <1> QED BY <1>5, <1>6 DEF c

(* Writing behind the contents.                                            *)
LEMMA WrittenIs ==
    ASSUME NEW b, IsBuffer(b), NEW str \in Seq(Byte), Len(str) <= writableBytes(b)
    PROVE  /\ IsBuffer(Written(b, str)) /\ Len(Written(b, str).vec) = Len(b.vec)
           /\ Written(b, str).reader = b.reader
           /\ Written(b, str).writer = b.writer + Len(str)
           /\ Contents(Written(b, str)) = Contents(b) \o str
  <1> DEFINE v == b.vec
             r == b.reader
             w == b.writer
             n == Len(str)
             d == Written(b, str)
             c == Copied(v, w, str)
  <1>1. /\ v \in Seq(Byte) /\ Len(v) \in Nat /\ r \in Nat /\ w \in Nat /\ r <= w
        /\ kCheapPrepend <= Len(v) /\ b = [vec |-> v, reader |-> r, writer |-> w]
    BY DEF IsBuffer
  <1>2. n \in Nat /\ w + n <= Len(v)
    BY <1>1, BytesOf DEF writableBytes
  <1>3. d = [vec |-> c, reader |-> r, writer |-> w + n]
    <2>1. d = [b EXCEPT !.vec = c, !.writer = w + n]
      BY DEF Written
    <2>2. b = [vec |-> v, reader |-> r, writer |-> w]
      BY <1>1
    <2> HIDE DEF d, c, v, r, w, n
    <2> QED BY <2>1, <2>2
  <1>4. /\ c \in Seq(Byte) /\ Len(c) = Len(v)
        /\ \A i \in 1 .. Len(v) : c[i] = IF w < i /\ i <= w + n THEN str[i - w] ELSE v[i]
    BY <1>1, CopiedIs
  <1> HIDE DEF d, c, v, r, w, n
  <1>5. d.vec = c /\ d.reader = r /\ d.writer = w + n
        /\ d = [vec |-> d.vec, reader |-> d.reader, writer |-> d.writer]
    BY <1>3
  <1>6. IsBuffer(d)
    BY <1>1, <1>2, <1>4, <1>5 DEF IsBuffer
  <1>7. /\ Contents(d) \in Seq(Byte) /\ Len(Contents(d)) = (w + n) - r
        /\ \A i \in 1 .. (w + n) - r : Contents(d)[i] = c[r + i]
    BY <1>5, <1>6, ContentsAre
  <1>8. /\ Contents(b) \in Seq(Byte) /\ Len(Contents(b)) = w - r
        /\ \A i \in 1 .. w - r : Contents(b)[i] = v[r + i]
    BY ContentsAre DEF v, r, w
  <1> DEFINE old == Contents(b)
             new == Contents(d)
             cat == old \o str
  <1>9. /\ cat \in Seq(Byte) /\ Len(cat) = Len(old) + n
        /\ \A i \in 1 .. Len(old) + n : cat[i] = IF i <= Len(old) THEN old[i]
                                                 ELSE str[i - Len(old)]
    BY <1>8, ConcatProperties DEF n
  <1> HIDE DEF old, new, cat
  <1>10. Len(new) = Len(cat) /\ Len(old) = w - r /\ Len(new) = (w + n) - r
    BY <1>1, <1>2, <1>7, <1>8, <1>9 DEF old, new
  <1>11. ASSUME NEW i \in 1 .. Len(new) PROVE new[i] = cat[i]
    <2>1. i \in 1 .. (w + n) - r /\ r + i \in 1 .. Len(v)
      BY <1>1, <1>2, <1>10
    <2>2. new[i] = c[r + i] /\ c[r + i] = IF w < r + i /\ r + i <= w + n THEN str[(r + i) - w]
                                          ELSE v[r + i]
      BY <1>4, <1>7, <2>1 DEF new
    <2>3. cat[i] = IF i <= w - r THEN old[i] ELSE str[i - (w - r)]
      BY <1>9, <1>10, <2>1, <1>1, <1>2
    <2>4. CASE i <= w - r
      <3>1. ~(w < r + i) /\ i \in 1 .. w - r
        BY <1>1, <2>1, <2>4
      <3>2. old[i] = v[r + i]
        BY <1>8, <3>1 DEF old
      <3> QED BY <2>2, <2>3, <2>4, <3>1, <3>2
    <2>5. CASE ~(i <= w - r)
      <3>1. w < r + i /\ r + i <= w + n /\ (r + i) - w = i - (w - r)
        BY <1>1, <1>2, <2>1, <2>5
      <3> QED BY <2>2, <2>3, <2>5, <3>1
    <2> QED BY <2>4, <2>5
  <1>12. new = cat
    BY <1>7, <1>9, <1>10, <1>11, SameBytes DEF new
  <1>13. Len(d.vec) = Len(v)
    BY <1>4, <1>5
  <1> QED BY <1>5, <1>6, <1>12, <1>13 DEF d, v, r, w, n, new, cat, old

(* Making room keeps the contents, and the vector only grows as needed.    *)
LEMMA RoomMade ==
    ASSUME NEW b, IsBuffer(b), NEW len \in Nat
    PROVE  /\ IsBuffer(ensureWritableBytes(b, len))
           /\ Contents(ensureWritableBytes(b, len)) = Contents(b)
           /\ writableBytes(ensureWritableBytes(b, len)) >= len
           /\ readableBytes(ensureWritableBytes(b, len)) = readableBytes(b)
           /\ \/ Len(ensureWritableBytes(b, len).vec) = Len(b.vec)
              \/ /\ Len(ensureWritableBytes(b, len).vec) = b.writer + len
                 /\ b.reader < len + kCheapPrepend
  <1> DEFINE v == b.vec
             r == b.reader
             w == b.writer
             e == ensureWritableBytes(b, len)
  <1>1. /\ v \in Seq(Byte) /\ Len(v) \in Nat /\ r \in Nat /\ w \in Nat /\ r <= w /\ w <= Len(v)
        /\ kCheapPrepend <= Len(v) /\ b = [vec |-> v, reader |-> r, writer |-> w]
    BY DEF IsBuffer
  <1>k. kCheapPrepend \in Nat
    BY BufferAssumption
  <1>b. /\ Contents(b) \in Seq(Byte) /\ Len(Contents(b)) = w - r
        /\ \A i \in 1 .. w - r : Contents(b)[i] = v[r + i]
    BY ContentsAre
  <1>2. CASE Len(v) - w >= len
    <2>1. e = b
      BY <1>1, <1>2 DEF ensureWritableBytes, writableBytes
    <2> QED BY <1>1, <1>2, <2>1 DEF writableBytes
  <1>3. CASE Len(v) - w < len /\ (Len(v) - w) + r < len + kCheapPrepend
    <2> DEFINE c == Resized(v, w + len)
    <2>1. e = [b EXCEPT !.vec = c]
      BY <1>3 DEF ensureWritableBytes, makeSpace, Grown, writableBytes, prependableBytes
    <2>2. e = [vec |-> c, reader |-> r, writer |-> w]
      BY <1>1, <2>1
    <2> HIDE DEF e, v, r, w
    <2>3. /\ c \in Seq(Byte) /\ Len(c) = w + len /\ \A i \in 1 .. Len(v) : c[i] = v[i]
      <3>1. w + len \in Nat /\ Len(v) <= w + len
        BY <1>1, <1>3
      <3> QED BY <1>1, <3>1, ResizedIs
    <2> HIDE DEF c
    <2>4. e.vec = c /\ e.reader = r /\ e.writer = w
          /\ e = [vec |-> e.vec, reader |-> e.reader, writer |-> e.writer]
      BY <2>2
    <2>5. IsBuffer(e)
      BY <1>1, <1>3, <1>k, <2>3, <2>4 DEF IsBuffer
    <2>6. /\ Contents(e) \in Seq(Byte) /\ Len(Contents(e)) = w - r
          /\ \A i \in 1 .. w - r : Contents(e)[i] = c[r + i]
      BY <2>4, <2>5, ContentsAre
    <2>7. Contents(e) = Contents(b)
      <3>1. ASSUME NEW i \in 1 .. w - r PROVE Contents(e)[i] = Contents(b)[i]
        <4>1. r + i \in 1 .. Len(v)
          BY <1>1
        <4> QED BY <1>b, <2>3, <2>6, <4>1
      <3> QED BY <1>b, <2>6, <3>1, SameBytes
    <2>8. r < len + kCheapPrepend
      BY <1>1, <1>3, <1>k
    <2>9. writableBytes(e) >= len /\ readableBytes(e) = w - r
      BY <1>1, <2>3, <2>4 DEF writableBytes, readableBytes
    <2>10. Len(e.vec) = w + len
      BY <2>3, <2>4
    <2> QED BY <2>5, <2>7, <2>8, <2>9, <2>10 DEF e, v, r, w, readableBytes
  <1>4. CASE Len(v) - w < len /\ ~((Len(v) - w) + r < len + kCheapPrepend)
    <2> DEFINE k == kCheapPrepend
               old == Contents(b)
               c == Copied(v, k, old)
    <2>1. e = [vec |-> c, reader |-> k, writer |-> k + (w - r)]
      BY <1>4 DEF ensureWritableBytes, makeSpace, MovedToFront, writableBytes,
                  prependableBytes, readableBytes
    <2> HIDE DEF e, v, r, w, k, old
    <2>o. old \in Seq(Byte) /\ Len(old) = w - r /\ \A i \in 1 .. w - r : old[i] = v[r + i]
      BY <1>b DEF old
    <2>k. k \in Nat /\ k <= Len(v) /\ ~((Len(v) - w) + r < len + k)
      BY <1>1, <1>4, <1>k DEF k
    <2>3. /\ c \in Seq(Byte) /\ Len(c) = Len(v)
          /\ \A i \in 1 .. Len(v) : c[i] = IF k < i /\ i <= k + Len(old) THEN old[i - k]
                                           ELSE v[i]
      BY <1>1, <2>o, <2>k, CopiedIs
    <2> HIDE DEF c
    <2>4. e.vec = c /\ e.reader = k /\ e.writer = k + (w - r)
          /\ e = [vec |-> e.vec, reader |-> e.reader, writer |-> e.writer]
      BY <2>1
    <2>n. k + (w - r) <= Len(v) /\ k + (w - r) \in Nat /\ k <= k + (w - r)
      BY <1>1, <1>4, <2>k
    <2>5. IsBuffer(e)
      BY <1>1, <2>k, <2>n, <2>3, <2>4 DEF IsBuffer, k
    <2>6. /\ Contents(e) \in Seq(Byte) /\ Len(Contents(e)) = (k + (w - r)) - k
          /\ \A i \in 1 .. (k + (w - r)) - k : Contents(e)[i] = c[k + i]
      BY <2>4, <2>5, ContentsAre
    <2>q. (k + (w - r)) - k = w - r
      BY <1>1, <2>k
    <2>7. Contents(e) = old
      <3>1. ASSUME NEW i \in 1 .. w - r PROVE Contents(e)[i] = old[i]
        <4>1. k + i \in 1 .. Len(v) /\ k < k + i /\ k + i <= k + Len(old) /\ (k + i) - k = i
          BY <1>1, <2>k, <2>n, <2>o
        <4>2. Contents(e)[i] = c[k + i]
          BY <2>6, <2>q
        <4>3. c[k + i] = old[i]
          BY <2>3, <4>1
        <4> QED BY <4>2, <4>3
      <3> QED BY <2>o, <2>6, <2>q, <3>1, SameBytes
    <2>9. writableBytes(e) >= len /\ readableBytes(e) = w - r
      BY <1>1, <2>k, <2>n, <2>3, <2>4 DEF writableBytes, readableBytes
    <2>10. Len(e.vec) = Len(v)
      BY <2>3, <2>4
    <2> QED BY <2>5, <2>7, <2>9, <2>10 DEF e, v, r, w, k, old, readableBytes
  <1>5. Len(v) - w \in Int /\ (Len(v) - w) + r \in Int
    BY <1>1
  <1> QED BY <1>2, <1>3, <1>4, <1>5, <1>k

(* The bytes from one place to another.                                    *)
LEMMA PieceIs ==
    ASSUME NEW s \in Seq(Byte), NEW p \in Nat, NEW q \in Nat, p <= q, q <= Len(s)
    PROVE  /\ SubSeq(s, p + 1, q) \in Seq(Byte) /\ Len(SubSeq(s, p + 1, q)) = q - p
           /\ \A i \in 1 .. q - p : SubSeq(s, p + 1, q)[i] = s[p + i]
           /\ q - p \in Nat
  <1>1. Len(s) \in Nat /\ \A i \in p + 1 .. q : s[i] \in Byte
    BY BytesOf
  <1> QED BY <1>1

(* There is room: the buffer stays as it is.                               *)
LEMMA RoomEnough ==
    ASSUME NEW b, IsBuffer(b), NEW len \in Nat, writableBytes(b) >= len
    PROVE  ensureWritableBytes(b, len) = b
  <1>1. writableBytes(b) \in Int
    BY DEF writableBytes, IsBuffer
  <1> QED BY <1>1 DEF ensureWritableBytes

(* append() adds at the end, and the vector grows only when it must.       *)
LEMMA Appends ==
    ASSUME NEW b, IsBuffer(b), NEW str \in Seq(Byte)
    PROVE  /\ IsBuffer(append(b, str)) /\ Contents(append(b, str)) = Contents(b) \o str
           /\ \/ Len(append(b, str).vec) = Len(b.vec)
              \/ /\ Len(append(b, str).vec) = b.writer + Len(str)
                 /\ b.reader < Len(str) + kCheapPrepend
  <1> DEFINE e == ensureWritableBytes(b, Len(str))
             n == Len(str)
  <1>1. n \in Nat
    BY BytesOf
  <1>2. /\ IsBuffer(e) /\ Contents(e) = Contents(b) /\ writableBytes(e) >= n
        /\ \/ Len(e.vec) = Len(b.vec)
           \/ Len(e.vec) = b.writer + n /\ b.reader < n + kCheapPrepend
    BY <1>1, RoomMade
  <1>3. append(b, str) = Written(e, str)
    BY DEF append
  <1> HIDE DEF e
  <1>4. writableBytes(e) \in Int
    BY <1>2 DEF writableBytes, IsBuffer
  <1>5. n <= writableBytes(e)
    BY <1>1, <1>2, <1>4
  <1>6. IsBuffer(Written(e, str)) /\ Len(Written(e, str).vec) = Len(e.vec)
        /\ Contents(Written(e, str)) = Contents(e) \o str
    BY <1>2, <1>5, WrittenIs
  <1> QED BY <1>2, <1>3, <1>6

(* Three strings put together, the first two or the last two first.        *)
LEMMA InAnyOrder ==
    ASSUME NEW x \in Seq(Byte), NEW y \in Seq(Byte), NEW z \in Seq(Byte)
    PROVE  (x \o y) \o z = x \o (y \o z)
  BY ConcatAssociative

(* What readFd() reads to two places is put together.                      *)
LEMMA Reads ==
    ASSUME NEW b, IsBuffer(b), NEW str \in Seq(Byte)
    PROVE  /\ IsBuffer(readFd(b, str)) /\ Contents(readFd(b, str)) = Contents(b) \o str
           /\ \/ Len(readFd(b, str).vec) = Len(b.vec)
              \/ /\ Len(readFd(b, str).vec) = b.writer + Len(str)
                 /\ b.reader < Len(str) + kCheapPrepend
  <1> DEFINE n == Len(str)
             room == writableBytes(b)
  <1>1. n \in Nat /\ room \in Nat
    BY BytesOf DEF writableBytes, IsBuffer
  <1>2. CASE n <= room
    <2>1. readFd(b, str) = Written(b, str)
      BY <1>2 DEF readFd
    <2>2. IsBuffer(Written(b, str)) /\ Len(Written(b, str).vec) = Len(b.vec)
          /\ Contents(Written(b, str)) = Contents(b) \o str
      BY <1>2, WrittenIs
    <2> QED BY <2>1, <2>2
  <1>3. CASE ~(n <= room)
    <2> DEFINE s == SubSeq(str, 1, room)
               t == SubSeq(str, room + 1, Len(str))
               d == Written(b, s)
    <2>1. readFd(b, str) = append(d, t)
      BY <1>3 DEF readFd
    <2>2. s \in Seq(Byte) /\ Len(s) = room
      <3>1. 0 + 1 = 1 /\ room - 0 = room /\ 0 <= room /\ room <= Len(str)
        BY <1>1, <1>3
      <3>2. SubSeq(str, 0 + 1, room) \in Seq(Byte) /\ Len(SubSeq(str, 0 + 1, room)) = room - 0
        BY <1>1, <3>1, PieceIs
      <3> QED BY <3>1, <3>2
    <2>3. t \in Seq(Byte) /\ Len(t) = n - room
      <3>1. room <= n /\ n <= Len(str)
        BY <1>1, <1>3
      <3> QED BY <1>1, <3>1, PieceIs
    <2>4. s \o t = str
      <3>1. 1 \in 1 .. Len(str) + 1 /\ room \in 1 - 1 .. Len(str)
            /\ Len(str) \in room .. Len(str)
        BY <1>1, <1>3
      <3>2. SubSeq(str, 1, room) \o SubSeq(str, room + 1, Len(str)) = SubSeq(str, 1, Len(str))
        BY <3>1, ConcatAdjacentSubSeq
      <3>3. SubSeq(str, 1, Len(str)) = str
        BY SubSeqFull
      <3> QED BY <3>2, <3>3
    <2> HIDE DEF s, t
    <2>5. /\ IsBuffer(d) /\ Len(d.vec) = Len(b.vec) /\ d.reader = b.reader
          /\ d.writer = b.writer + Len(s) /\ Contents(d) = Contents(b) \o s
      <3>1. Len(s) <= writableBytes(b)
        BY <1>1, <2>2
      <3> QED BY <2>2, <3>1, WrittenIs
    <2> HIDE DEF d
    <2>6. /\ IsBuffer(append(d, t)) /\ Contents(append(d, t)) = Contents(d) \o t
          /\ \/ Len(append(d, t).vec) = Len(d.vec)
             \/ /\ Len(append(d, t).vec) = d.writer + Len(t)
                /\ d.reader < Len(t) + kCheapPrepend
      BY <2>3, <2>5, Appends
    <2>7. (Contents(b) \o s) \o t = Contents(b) \o str
      <3>1. PICK old \in Seq(Byte) : old = Contents(b)
        BY ContentsAre
      <3>2. (old \o s) \o t = old \o (s \o t)
        BY <2>2, <2>3, InAnyOrder
      <3> QED BY <3>1, <3>2, <2>4
    <2>8. d.writer + Len(t) = b.writer + n /\ (d.reader < Len(t) + kCheapPrepend
                                               => b.reader < n + kCheapPrepend)
      <3>1. b.writer \in Nat /\ b.reader \in Nat /\ kCheapPrepend \in Nat
        BY BufferAssumption DEF IsBuffer
      <3>2. d.writer = b.writer + room /\ d.reader = b.reader
        BY <2>2, <2>5
      <3>3. Len(t) = n - room
        BY <2>3
      <3> HIDE DEF n, room
      <3>4. d.writer + Len(t) = b.writer + n
        BY <3>1, <3>2, <3>3, <1>1
      <3>5. d.reader < Len(t) + kCheapPrepend => b.reader < n + kCheapPrepend
        BY <3>1, <3>2, <3>3, <1>1
      <3> QED BY <3>4, <3>5
    <2> HIDE DEF n, room
    <2> QED BY <2>1, <2>5, <2>6, <2>7, <2>8 DEF n
  <1> QED BY <1>2, <1>3

(* prepend() adds at the front.                                            *)
LEMMA Prepends ==
    ASSUME NEW b, IsBuffer(b), NEW str \in Seq(Byte), Len(str) <= prependableBytes(b)
    PROVE  /\ IsBuffer(prepend(b, str)) /\ Contents(prepend(b, str)) = str \o Contents(b)
           /\ Len(prepend(b, str).vec) = Len(b.vec)
  <1> DEFINE v == b.vec
             r == b.reader
             w == b.writer
             n == Len(str)
             p == b.reader - Len(str)
             d == prepend(b, str)
             c == Copied(b.vec, b.reader - Len(str), str)
  <1>1. /\ v \in Seq(Byte) /\ Len(v) \in Nat /\ r \in Nat /\ w \in Nat /\ r <= w
        /\ w <= Len(v) /\ kCheapPrepend <= Len(v)
    BY DEF IsBuffer
  <1>2. n \in Nat /\ n <= r /\ p \in Nat /\ p = r - n
    BY <1>1, BytesOf DEF prependableBytes
  <1>3. d = [vec |-> c, reader |-> p, writer |-> w]
    <2>1. d = [b EXCEPT !.vec = c, !.reader = p]
      BY DEF prepend
    <2>2. b = [vec |-> v, reader |-> r, writer |-> w]
      BY DEF IsBuffer
    <2> HIDE DEF d, c, v, r, w, p
    <2> QED BY <2>1, <2>2
  <1>4. /\ c \in Seq(Byte) /\ Len(c) = Len(v)
        /\ \A i \in 1 .. Len(v) : c[i] = IF p < i /\ i <= p + n THEN str[i - p] ELSE v[i]
    BY <1>1, <1>2, CopiedIs
  <1> HIDE DEF d, c, v, r, w, n, p
  <1>5. d.vec = c /\ d.reader = p /\ d.writer = w
        /\ d = [vec |-> d.vec, reader |-> d.reader, writer |-> d.writer]
    BY <1>3
  <1>6. IsBuffer(d)
    <2>1. p <= w
      BY <1>1, <1>2
    <2> QED BY <1>1, <1>2, <1>4, <1>5, <2>1 DEF IsBuffer
  <1>7. /\ Contents(d) \in Seq(Byte) /\ Len(Contents(d)) = w - p
        /\ \A i \in 1 .. w - p : Contents(d)[i] = c[p + i]
    BY <1>5, <1>6, ContentsAre
  <1>8. /\ Contents(b) \in Seq(Byte) /\ Len(Contents(b)) = w - r
        /\ \A i \in 1 .. w - r : Contents(b)[i] = v[r + i]
    BY ContentsAre DEF v, r, w
  <1> DEFINE old == Contents(b)
             new == Contents(d)
             cat == str \o old
  <1>9. /\ cat \in Seq(Byte) /\ Len(cat) = n + Len(old)
        /\ \A i \in 1 .. n + Len(old) : cat[i] = IF i <= n THEN str[i] ELSE old[i - n]
    BY <1>8, ConcatProperties DEF n
  <1> HIDE DEF old, new, cat
  <1>10. Len(new) = Len(cat) /\ Len(old) = w - r /\ Len(new) = w - p
         /\ n + Len(old) = w - p
    BY <1>1, <1>2, <1>7, <1>8, <1>9 DEF old, new
  <1>11. ASSUME NEW i \in 1 .. Len(new) PROVE new[i] = cat[i]
    <2>1. i \in 1 .. w - p /\ p + i \in 1 .. Len(v) /\ (p + i) - p = i
      BY <1>1, <1>2, <1>10
    <2>2. new[i] = c[p + i] /\ c[p + i] = IF p < p + i /\ p + i <= p + n THEN str[(p + i) - p]
                                          ELSE v[p + i]
      BY <1>4, <1>7, <2>1 DEF new
    <2>3. cat[i] = IF i <= n THEN str[i] ELSE old[i - n]
      BY <1>9, <1>10, <2>1
    <2>4. CASE i <= n
      <3>1. p < p + i /\ p + i <= p + n
        BY <1>2, <2>1, <2>4
      <3> QED BY <2>1, <2>2, <2>3, <2>4, <3>1
    <2>5. CASE ~(i <= n)
      <3>1. ~(p + i <= p + n) /\ i - n \in 1 .. w - r /\ r + (i - n) = p + i
        BY <1>1, <1>2, <2>1, <2>5
      <3>2. old[i - n] = v[p + i]
        BY <1>8, <3>1 DEF old
      <3> QED BY <2>2, <2>3, <2>5, <3>1, <3>2
    <2> QED BY <2>4, <2>5
  <1>12. new = cat
    BY <1>7, <1>9, <1>10, <1>11, SameBytes DEF new
  <1> QED BY <1>4, <1>5, <1>6, <1>12 DEF d, v, new, cat, old

(* The indices come closer: a part of the contents is left.                *)
LEMMA PartLeft ==
    ASSUME NEW b, IsBuffer(b), NEW p \in Nat, NEW q \in Nat,
           b.reader <= p, p <= q, q <= b.writer, NEW d,
           d = [vec |-> b.vec, reader |-> p, writer |-> q]
    PROVE  /\ IsBuffer(d) /\ Len(d.vec) = Len(b.vec)
           /\ Contents(d) = SubSeq(Contents(b), (p - b.reader) + 1, q - b.reader)
  <1> DEFINE v == b.vec
             r == b.reader
             w == b.writer
             c == Contents(b)
             s == SubSeq(c, (p - r) + 1, q - r)
  <1>1. /\ v \in Seq(Byte) /\ Len(v) \in Nat /\ r \in Nat /\ w \in Nat /\ r <= w
        /\ w <= Len(v) /\ kCheapPrepend <= Len(v)
    BY DEF IsBuffer
  <1>2. d.vec = v /\ d.reader = p /\ d.writer = q
        /\ d = [vec |-> d.vec, reader |-> d.reader, writer |-> d.writer]
    OBVIOUS
  <1>3. r <= p /\ q <= w
    OBVIOUS
  <1>4. c \in Seq(Byte) /\ Len(c) = w - r /\ \A i \in 1 .. w - r : c[i] = v[r + i]
    BY ContentsAre
  <1> HIDE DEF v, r, w, c
  <1>5. IsBuffer(d)
    <2>1. q <= Len(v)
      BY <1>1, <1>3
    <2> QED BY <1>1, <1>2, <2>1 DEF IsBuffer
  <1>6. /\ Contents(d) \in Seq(Byte) /\ Len(Contents(d)) = q - p
        /\ \A i \in 1 .. q - p : Contents(d)[i] = v[p + i]
    BY <1>2, <1>5, ContentsAre
  <1>7. p - r \in Nat /\ q - r \in Nat /\ p - r <= q - r /\ q - r <= Len(c)
        /\ (q - r) - (p - r) = q - p
    BY <1>1, <1>3, <1>4
  <1>8. /\ s \in Seq(Byte) /\ Len(s) = q - p
        /\ \A i \in 1 .. q - p : s[i] = c[(p - r) + i]
    BY <1>4, <1>7, PieceIs
  <1> HIDE DEF s
  <1>9. ASSUME NEW i \in 1 .. q - p PROVE Contents(d)[i] = s[i]
    <2>1. (p - r) + i \in 1 .. w - r /\ r + ((p - r) + i) = p + i
      BY <1>1, <1>3
    <2>2. c[(p - r) + i] = v[r + ((p - r) + i)]
      BY <1>4, <2>1
    <2> QED BY <1>6, <1>8, <2>1, <2>2
  <1>10. Contents(d) = s
    BY <1>6, <1>8, <1>9, SameBytes
  <1> QED BY <1>2, <1>5, <1>10 DEF s, c, r, v

(* retrieve() takes from the front.                                        *)
LEMMA Retrieves ==
    ASSUME NEW b, IsBuffer(b), NEW len \in Nat, len <= readableBytes(b)
    PROVE  /\ IsBuffer(retrieve(b, len)) /\ Len(retrieve(b, len).vec) = Len(b.vec)
           /\ Contents(retrieve(b, len)) = SubSeq(Contents(b), len + 1, Len(Contents(b)))
           /\ SubSeq(Contents(b), 1, len) \in Seq(Byte)
           /\ Len(SubSeq(Contents(b), 1, len)) = len
  <1> DEFINE v == b.vec
             r == b.reader
             w == b.writer
             c == Contents(b)
  <1>1. /\ v \in Seq(Byte) /\ Len(v) \in Nat /\ r \in Nat /\ w \in Nat /\ r <= w
        /\ w <= Len(v) /\ kCheapPrepend <= Len(v)
        /\ b = [vec |-> v, reader |-> r, writer |-> w]
    BY DEF IsBuffer
  <1>2. len <= w - r
    BY DEF readableBytes
  <1>3. c \in Seq(Byte) /\ Len(c) = w - r
    BY ContentsAre
  <1>4. SubSeq(c, 1, len) \in Seq(Byte) /\ Len(SubSeq(c, 1, len)) = len
    <2> HIDE DEF c, w, r
    <2>1. 0 + 1 = 1 /\ len - 0 = len /\ 0 <= len /\ len <= Len(c)
      BY <1>2, <1>3
    <2>2. SubSeq(c, 0 + 1, len) \in Seq(Byte) /\ Len(SubSeq(c, 0 + 1, len)) = len - 0
      BY <1>3, <2>1, PieceIs
    <2> QED BY <2>1, <2>2
  <1>5. CASE len < w - r
    <2> DEFINE d == retrieve(b, len)
    <2>1. d = [b EXCEPT !.reader = r + len]
      BY <1>5 DEF retrieve, readableBytes
    <2> HIDE DEF d
    <2>2. d = [vec |-> v, reader |-> r + len, writer |-> w]
      <3> HIDE DEF v, r, w
      <3> QED BY <1>1, <2>1
    <2>3. r + len \in Nat /\ r <= r + len /\ r + len <= w /\ (r + len) - r = len
      <3> HIDE DEF v, r, w
      <3> QED BY <1>1, <1>2
    <2>4. /\ IsBuffer(d) /\ Len(d.vec) = Len(b.vec)
          /\ Contents(d) = SubSeq(c, ((r + len) - r) + 1, w - r)
      <3>1. PICK p \in Nat : p = r + len
        BY <2>3
      <3>2. /\ d = [vec |-> b.vec, reader |-> p, writer |-> b.writer] /\ b.writer \in Nat
            /\ b.reader <= p /\ p <= b.writer /\ b.writer <= b.writer
        BY <1>1, <2>2, <2>3, <3>1
      <3>3. /\ IsBuffer(d) /\ Len(d.vec) = Len(b.vec)
            /\ Contents(d) = SubSeq(Contents(b), (p - b.reader) + 1, b.writer - b.reader)
        BY <3>2, PartLeft
      <3> QED BY <3>1, <3>3
    <2> QED BY <1>3, <1>4, <2>3, <2>4 DEF d
  <1>6. CASE len = w - r
    <2> DEFINE d == retrieve(b, len)
               k == kCheapPrepend
    <2>1. d = [b EXCEPT !.reader = k, !.writer = k]
      <3>1. ~(len < readableBytes(b))
        BY <1>1, <1>6 DEF readableBytes
      <3> QED BY <3>1 DEF retrieve, retrieveAll
    <2> HIDE DEF d
    <2>2. d = [vec |-> v, reader |-> k, writer |-> k]
      <3> HIDE DEF v, r, w
      <3> QED BY <1>1, <2>1
    <2>k. k \in Nat
      BY BufferAssumption
    <2>3. d.vec = v /\ d.reader = k /\ d.writer = k
          /\ d = [vec |-> d.vec, reader |-> d.reader, writer |-> d.writer]
      BY <2>2
    <2>4. IsBuffer(d)
      <3> HIDE DEF v, r, w
      <3> QED BY <1>1, <2>k, <2>3 DEF IsBuffer, k
    <2>5. Contents(d) \in Seq(Byte) /\ Len(Contents(d)) = 0
      <3>1. Contents(d) \in Seq(Byte) /\ Len(Contents(d)) = d.writer - d.reader
        BY <2>4, ContentsAre
      <3> QED BY <2>k, <2>3, <3>1
    <2>6. SubSeq(c, len + 1, Len(c)) \in Seq(Byte) /\ Len(SubSeq(c, len + 1, Len(c))) = 0
      <3> HIDE DEF c, w, r
      <3>1. len <= Len(c) /\ Len(c) \in Nat /\ Len(c) <= Len(c) /\ Len(c) - len = 0
        BY <1>2, <1>3, <1>6
      <3> QED BY <1>3, <3>1, PieceIs
    <2>7. Contents(d) = SubSeq(c, len + 1, Len(c))
      <3> HIDE DEF c
      <3>1. \A i \in 1 .. Len(Contents(d)) : Contents(d)[i] = SubSeq(c, len + 1, Len(c))[i]
        BY <2>5
      <3> QED BY <2>5, <2>6, <3>1, SameBytes
    <2> QED BY <1>4, <2>3, <2>4, <2>7 DEF d
  <1> HIDE DEF v, r, w, c
  <1>7. len < w - r \/ len = w - r
    BY <1>1, <1>2
  <1> QED BY <1>5, <1>6, <1>7 DEF v, r, w, c

(* unwrite() takes from the end.                                           *)
LEMMA Unwrites ==
    ASSUME NEW b, IsBuffer(b), NEW len \in Nat, len <= readableBytes(b), NEW d,
           d = [b EXCEPT !.writer = @ - len]
    PROVE  /\ IsBuffer(d) /\ Len(d.vec) = Len(b.vec)
           /\ Contents(d) = SubSeq(Contents(b), 1, Len(Contents(b)) - len)
  <1>1. /\ b.reader \in Nat /\ b.writer \in Nat /\ b.reader <= b.writer
        /\ b = [vec |-> b.vec, reader |-> b.reader, writer |-> b.writer]
    BY DEF IsBuffer
  <1>2. len <= b.writer - b.reader
    BY DEF readableBytes
  <1>3. PICK q \in Nat : q = b.writer - len
    BY <1>1, <1>2
  <1>4. d = [vec |-> b.vec, reader |-> b.reader, writer |-> q]
    BY <1>1, <1>3
  <1>5. b.reader <= b.reader /\ b.reader <= q /\ q <= b.writer
    BY <1>1, <1>2, <1>3
  <1>6. /\ IsBuffer(d) /\ Len(d.vec) = Len(b.vec)
        /\ Contents(d) = SubSeq(Contents(b), (b.reader - b.reader) + 1, q - b.reader)
    BY <1>1, <1>4, <1>5, PartLeft
  <1>7. Len(Contents(b)) = b.writer - b.reader
    BY ContentsAre
  <1>8. (b.reader - b.reader) + 1 = 1 /\ q - b.reader = Len(Contents(b)) - len
    BY <1>1, <1>3, <1>7
  <1> QED BY <1>6, <1>8

(* A new buffer is empty.                                                  *)
LEMMA NewIs ==
    ASSUME NEW n \in Nat
    PROVE  /\ IsBuffer(NewBuffer(n)) /\ Len(NewBuffer(n).vec) = kCheapPrepend + n
           /\ Contents(NewBuffer(n)) = <<>> /\ NewBuffer(n).reader = kCheapPrepend
           /\ NewBuffer(n).writer = kCheapPrepend
  <1> DEFINE k == kCheapPrepend
             z == [i \in 1 .. k + n |-> 0]
             d == NewBuffer(n)
  <1>1. k \in Nat /\ k + n \in Nat
    BY BufferAssumption
  <1>2. d = [vec |-> z, reader |-> k, writer |-> k]
    BY DEF NewBuffer
  <1> HIDE DEF k, d
  <1>3. z \in [1 .. k + n -> Byte]
    BY ZeroIsByte
  <1>4. z \in Seq(Byte) /\ Len(z) = k + n
    BY <1>1, <1>3
  <1> HIDE DEF z
  <1>5. d.vec = z /\ d.reader = k /\ d.writer = k
        /\ d = [vec |-> d.vec, reader |-> d.reader, writer |-> d.writer]
    BY <1>2
  <1>6. IsBuffer(d)
    BY <1>1, <1>4, <1>5 DEF IsBuffer, k
  <1>7. Contents(d) \in Seq(Byte) /\ Len(Contents(d)) = d.writer - d.reader
    BY <1>6, ContentsAre
  <1>8. Len(Contents(d)) = 0
    BY <1>1, <1>5, <1>7
  <1>9. Contents(d) = <<>>
    BY <1>7, <1>8, EmptySeq
  <1> QED BY <1>4, <1>5, <1>6, <1>9 DEF d, k

(* shrink() keeps the contents.                                            *)
LEMMA Shrinks ==
    ASSUME NEW b, IsBuffer(b), NEW reserve \in Nat
    PROVE  /\ IsBuffer(shrink(b, reserve)) /\ Contents(shrink(b, reserve)) = Contents(b)
           /\ \/ Len(shrink(b, reserve).vec) = kCheapPrepend + kInitialSize
              \/ Len(shrink(b, reserve).vec) = kCheapPrepend + (readableBytes(b) + reserve)
  <1> DEFINE n == NewBuffer(kInitialSize)
             len == readableBytes(b) + reserve
             e == ensureWritableBytes(n, len)
             c == Contents(b)
  <1>1. /\ IsBuffer(n) /\ Len(n.vec) = kCheapPrepend + kInitialSize
        /\ Contents(n) = <<>> /\ n.writer = kCheapPrepend
    <2>1. kInitialSize \in Nat
      BY BufferAssumption
    <2> QED BY <2>1, NewIs
  <1>2. c \in Seq(Byte) /\ Len(c) = readableBytes(b) /\ readableBytes(b) \in Nat
    BY ContentsAre DEF readableBytes
  <1>3. shrink(b, reserve) = append(e, c)
    BY DEF shrink
  <1> HIDE DEF n, c
  <1>4. len \in Nat
    BY <1>2
  <1> HIDE DEF len
  <1>5. /\ IsBuffer(e) /\ Contents(e) = Contents(n) /\ writableBytes(e) >= len
        /\ Len(e.vec) = Len(n.vec) \/ Len(e.vec) = n.writer + len
    BY <1>1, <1>4, RoomMade
  <1> HIDE DEF e
  <1>6. writableBytes(e) \in Int
    BY <1>5 DEF writableBytes, IsBuffer
  <1>7. writableBytes(e) >= Len(c) /\ Len(c) <= writableBytes(e) /\ Len(c) \in Nat
    BY <1>2, <1>5, <1>6 DEF len
  <1>8. append(e, c) = Written(e, c)
    <2>1. ensureWritableBytes(e, Len(c)) = e
      BY <1>5, <1>7, RoomEnough
    <2> QED BY <2>1 DEF append
  <1>9. /\ IsBuffer(Written(e, c)) /\ Len(Written(e, c).vec) = Len(e.vec)
        /\ Contents(Written(e, c)) = Contents(e) \o c
    BY <1>2, <1>5, <1>7, WrittenIs
  <1>10. Contents(e) \o c = c
    BY <1>1, <1>2, <1>5, ConcatEmptySeq
  <1> QED BY <1>1, <1>3, <1>5, <1>8, <1>9, <1>10 DEF c, len

(* The first of the positions, if there is one.                            *)
LEMMA FirstIs ==
    ASSUME NEW S, S \subseteq Nat
    PROVE  /\ S = {} => FirstOf(S) = 0
           /\ S # {} => FirstOf(S) \in S /\ \A i \in S : FirstOf(S) <= i
  <1>1. S = {} => FirstOf(S) = 0
    BY DEF FirstOf
  <1>2. ASSUME S # {} PROVE FirstOf(S) \in S /\ \A i \in S : FirstOf(S) <= i
    <2>1. PICK n \in S : \A y \in S : ~(y < n)
      BY <1>2, LeastNumber
    <2>2. \A y \in S : n <= y
      BY <2>1
    <2>3. FirstOf(S) = CHOOSE x \in S : \A y \in S : x <= y
      BY <1>2 DEF FirstOf, Min
    <2> QED BY <2>2, <2>3
  <1> QED BY <1>1, <1>2

Longest == Max({MaxArgument, MaxReadable})
LongestVector == kCheapPrepend + Max({kInitialSize, MaxReadable + Longest})

(* The buffer is one, holds no more than is to be read, and its vector is  *)
(* no longer than what one call adds to the most there is to read.         *)
BufInv == /\ IsBuffer(buf)
          /\ buf.writer - buf.reader <= MaxReadable
          /\ Len(buf.vec) <= LongestVector

(* The greater of two numbers.                                             *)
LEMMA GreaterOfTwo ==
    ASSUME NEW m \in Nat, NEW n \in Nat
    PROVE  Max({m, n}) \in Nat /\ m <= Max({m, n}) /\ n <= Max({m, n})
  <1>1. \E x \in {m, n} : \A y \in {m, n} : x >= y
    OBVIOUS
  <1>2. Max({m, n}) \in {m, n} /\ \A y \in {m, n} : Max({m, n}) >= y
    BY <1>1 DEF Max
  <1>3. PICK x \in Nat : x = Max({m, n})
    BY <1>2
  <1>4. x >= m /\ x >= n
    BY <1>2, <1>3
  <1> QED BY <1>3, <1>4

(* What the constants say of the bounds.                                   *)
LEMMA Bounds ==
    /\ {kCheapPrepend, kInitialSize, MaxArgument, MaxReadable, Longest, LongestVector}
          \subseteq Nat
    /\ MaxArgument <= Longest /\ MaxReadable <= Longest
    /\ kCheapPrepend + kInitialSize <= LongestVector
    /\ kCheapPrepend + (MaxReadable + Longest) <= LongestVector
  <1>1. {kCheapPrepend, kInitialSize, MaxArgument, MaxReadable} \subseteq Nat
    BY BufferAssumption
  <1>2. Longest \in Nat /\ MaxArgument <= Longest /\ MaxReadable <= Longest
    BY <1>1, GreaterOfTwo DEF Longest
  <1> DEFINE m == Max({kInitialSize, MaxReadable + Longest})
  <1>3. m \in Nat /\ kInitialSize <= m /\ MaxReadable + Longest <= m
    <2>1. MaxReadable + Longest \in Nat
      BY <1>1, <1>2
    <2> QED BY <1>1, <2>1, GreaterOfTwo
  <1>4. LongestVector = kCheapPrepend + m
    BY DEF LongestVector
  <1> HIDE DEF m
  <1> QED BY <1>1, <1>2, <1>3, <1>4

(* A buffer whose contents have become longer by a string, and whose       *)
(* vector only grew when what was before the contents was too little.      *)
LEMMA Added ==
    ASSUME NEW b, IsBuffer(b), NEW d, IsBuffer(d), NEW n \in Nat,
           b.writer - b.reader + n <= MaxReadable, n <= Longest,
           Len(b.vec) <= LongestVector, Len(Contents(d)) = Len(Contents(b)) + n,
           \/ Len(d.vec) = Len(b.vec)
           \/ Len(d.vec) = b.writer + n /\ b.reader < n + kCheapPrepend
    PROVE  d.writer - d.reader <= MaxReadable /\ Len(d.vec) <= LongestVector
  <1>1. /\ Len(Contents(d)) = d.writer - d.reader
        /\ Len(Contents(b)) = b.writer - b.reader
    BY ContentsAre
  <1>2. /\ b.writer \in Nat /\ b.reader \in Nat /\ Len(b.vec) \in Nat /\ Len(d.vec) \in Nat
        /\ d.writer \in Nat /\ d.reader \in Nat
    BY DEF IsBuffer
  <1>3. d.writer - d.reader <= MaxReadable
    BY <1>1, <1>2
  <1>4. /\ kCheapPrepend \in Nat /\ MaxReadable \in Nat /\ Longest \in Nat
        /\ LongestVector \in Nat /\ kCheapPrepend + (MaxReadable + Longest) <= LongestVector
    BY Bounds
  <1>5. ASSUME Len(d.vec) = b.writer + n, b.reader < n + kCheapPrepend
        PROVE  Len(d.vec) <= LongestVector
    BY <1>2, <1>4, <1>5
  <1> QED BY <1>3, <1>5

(* The strings that are added.                                             *)
LEMMA StringsAre ==
    ASSUME NEW n \in Nat, NEW str \in Strings(n)
    PROVE  str \in Seq(Byte) /\ Len(str) \in Nat /\ Len(str) <= n
  <1>1. PICK m \in 0 .. n : str \in [1 .. m -> Byte]
    BY DEF Strings, BoundedSeq, SeqOf
  <1>2. str \in Seq(Byte) /\ Len(str) = m
    BY <1>1
  <1> QED BY <1>1, <1>2

(* The integers of w bytes.                                                *)
LEMMA IntsAre ==
    ASSUME NEW w \in Nat, NEW x \in Ints(w) PROVE x \in Int
  <1>1. Weight[w] \in Nat /\ 2 \in Nat
    BY WeightPositive
  <1>2. PICK half \in Int : half = Weight[w] \div 2
    BY <1>1, Quotient
  <1>3. x \in -half .. half - 1
    BY <1>2 DEF Ints
  <1> QED BY <1>2, <1>3

----------------------------------------------------------------------------
(* A new buffer is an empty string.                                        *)
LEMMA BufferBegins ==
    ASSUME BufferInit PROVE BufInv /\ String!Init
  <1>1. buf = NewBuffer(kInitialSize) /\ call = [op |-> "new"]
    BY DEF BufferInit
  <1>2. kInitialSize \in Nat /\ kCheapPrepend \in Nat /\ MaxReadable \in Nat
        /\ kCheapPrepend + kInitialSize <= LongestVector
    BY Bounds
  <1>3. /\ IsBuffer(buf) /\ Len(buf.vec) = kCheapPrepend + kInitialSize
        /\ Contents(buf) = <<>> /\ buf.reader = kCheapPrepend /\ buf.writer = kCheapPrepend
    BY <1>1, <1>2, NewIs
  <1>4. buf.writer - buf.reader <= MaxReadable
    BY <1>2, <1>3
  <1> QED BY <1>1, <1>2, <1>3, <1>4 DEF BufInv, String!Init

(* append() adds at the end of the string (buffer.h:148-180).              *)
LEMMA AppendKept ==
    ASSUME BufInv, NEW str \in Seq(Byte), Len(str) <= Longest, AppendBytes(str)
    PROVE  BufInv' /\ String!Next
  <1>1. /\ IsBuffer(buf) /\ buf.writer - buf.reader + Len(str) <= MaxReadable
        /\ Len(buf.vec) <= LongestVector
    BY DEF BufInv, AppendBytes, readableBytes
  <1>2. buf' = append(buf, str) /\ call' = [op |-> "append", str |-> str]
    BY DEF AppendBytes, Becomes
  <1>3. /\ IsBuffer(buf') /\ Contents(buf') = Contents(buf) \o str
        /\ \/ Len(buf'.vec) = Len(buf.vec)
           \/ Len(buf'.vec) = buf.writer + Len(str) /\ buf.reader < Len(str) + kCheapPrepend
    BY <1>1, <1>2, Appends
  <1>4. Len(str) \in Nat /\ Len(Contents(buf')) = Len(Contents(buf)) + Len(str)
    BY <1>1, <1>3, BytesOf, ContentsAre, ConcatProperties
  <1>5. buf'.writer - buf'.reader <= MaxReadable /\ Len(buf'.vec) <= LongestVector
    BY <1>1, <1>3, <1>4, Added
  <1>6. String!Appended
    BY <1>2, <1>3 DEF String!Appended, String!Asks
  <1> QED BY <1>3, <1>5, <1>6 DEF BufInv, String!Next

(* So does readFd() (buffer.cpp:14-42).                                    *)
LEMMA ReadKept ==
    ASSUME BufInv, NEW str \in Seq(Byte), Len(str) <= Longest, ReadFd(str)
    PROVE  BufInv' /\ String!Next
  <1>1. /\ IsBuffer(buf) /\ buf.writer - buf.reader + Len(str) <= MaxReadable
        /\ Len(buf.vec) <= LongestVector
    BY DEF BufInv, ReadFd, readableBytes
  <1>2. buf' = readFd(buf, str) /\ call' = [op |-> "append", str |-> str]
    BY DEF ReadFd, Becomes
  <1>3. /\ IsBuffer(buf') /\ Contents(buf') = Contents(buf) \o str
        /\ \/ Len(buf'.vec) = Len(buf.vec)
           \/ Len(buf'.vec) = buf.writer + Len(str) /\ buf.reader < Len(str) + kCheapPrepend
    BY <1>1, <1>2, Reads
  <1>4. Len(str) \in Nat /\ Len(Contents(buf')) = Len(Contents(buf)) + Len(str)
    BY <1>1, <1>3, BytesOf, ContentsAre, ConcatProperties
  <1>5. buf'.writer - buf'.reader <= MaxReadable /\ Len(buf'.vec) <= LongestVector
    BY <1>1, <1>3, <1>4, Added
  <1>6. String!Appended
    BY <1>2, <1>3 DEF String!Appended, String!Asks
  <1> QED BY <1>3, <1>5, <1>6 DEF BufInv, String!Next

(* prepend() adds at its front (buffer.h:304-309).                         *)
LEMMA PrependKept ==
    ASSUME BufInv, NEW str \in Seq(Byte), Len(str) <= Longest, Prepend(str)
    PROVE  BufInv' /\ String!Next
  <1>1. /\ IsBuffer(buf) /\ buf.writer - buf.reader + Len(str) <= MaxReadable
        /\ Len(buf.vec) <= LongestVector /\ Len(str) <= prependableBytes(buf)
    BY DEF BufInv, Prepend, readableBytes
  <1>2. buf' = prepend(buf, str) /\ call' = [op |-> "prepend", str |-> str]
    BY DEF Prepend, Becomes
  <1>3. /\ IsBuffer(buf') /\ Contents(buf') = str \o Contents(buf)
        /\ Len(buf'.vec) = Len(buf.vec)
    BY <1>1, <1>2, Prepends
  <1>4. Len(str) \in Nat /\ Len(Contents(buf')) = Len(Contents(buf)) + Len(str)
    <2>1. /\ Contents(buf) \in Seq(Byte) /\ Len(Contents(buf)) \in Nat /\ Len(str) \in Nat
      BY <1>1, BytesOf, ContentsAre
    <2>2. Len(str \o Contents(buf)) = Len(str) + Len(Contents(buf))
      BY <2>1, ConcatProperties
    <2> QED BY <1>3, <2>1, <2>2
  <1>5. buf'.writer - buf'.reader <= MaxReadable /\ Len(buf'.vec) <= LongestVector
    BY <1>1, <1>3, <1>4, Added
  <1>6. String!Prepended
    BY <1>2, <1>3 DEF String!Prepended, String!Asks
  <1> QED BY <1>3, <1>5, <1>6 DEF BufInv, String!Next

(* retrieve() and what returns what it retrieves take from the front       *)
(* (buffer.h:97-142).                                                      *)
LEMMA RetrieveKept ==
    ASSUME BufInv, NEW len \in Nat, Retrieve(len)
    PROVE  BufInv' /\ String!Next
  <1>1. /\ IsBuffer(buf) /\ buf.writer - buf.reader <= MaxReadable
        /\ Len(buf.vec) <= LongestVector /\ len <= readableBytes(buf)
    BY DEF BufInv, Retrieve
  <1>2. buf' = retrieve(buf, len)
        /\ call' = [op |-> "retrieve", str |-> SubSeq(Contents(buf), 1, len)]
    BY DEF Retrieve, Becomes
  <1>3. /\ IsBuffer(buf') /\ Len(buf'.vec) = Len(buf.vec)
        /\ Contents(buf') = SubSeq(Contents(buf), len + 1, Len(Contents(buf)))
        /\ Len(SubSeq(Contents(buf), 1, len)) = len
    BY <1>1, <1>2, Retrieves
  <1>4. buf'.writer - buf'.reader <= MaxReadable
    <2>1. /\ Contents(buf) \in Seq(Byte) /\ Len(Contents(buf)) = buf.writer - buf.reader
          /\ buf.writer - buf.reader \in Nat
      BY <1>1, ContentsAre
    <2>2. Len(Contents(buf')) = buf'.writer - buf'.reader
      BY <1>3, ContentsAre
    <2>3. len <= Len(Contents(buf)) /\ Len(Contents(buf)) \in Nat
      BY <1>1, <2>1 DEF readableBytes
    <2>4. Len(Contents(buf')) = Len(Contents(buf)) - len
      BY <1>3, <2>1, <2>3, PieceIs
    <2>5. MaxReadable \in Nat
      BY Bounds
    <2>6. Len(Contents(buf')) <= MaxReadable
      BY <1>1, <2>1, <2>3, <2>4, <2>5
    <2> QED BY <2>2, <2>6
  <1>5. String!Retrieve
    BY <1>2, <1>3 DEF String!Retrieve, String!Asks
  <1> QED BY <1>1, <1>3, <1>4, <1>5 DEF BufInv, String!Next

(* unwrite() takes from the end (buffer.h:182-185).                        *)
LEMMA UnwriteKept ==
    ASSUME BufInv, NEW len \in Nat, Unwrite(len)
    PROVE  BufInv' /\ String!Next
  <1>1. /\ IsBuffer(buf) /\ buf.writer - buf.reader <= MaxReadable
        /\ Len(buf.vec) <= LongestVector /\ len <= readableBytes(buf)
    BY DEF BufInv, Unwrite
  <1>2. buf' = [buf EXCEPT !.writer = @ - len] /\ call' = [op |-> "unwrite", len |-> len]
    BY DEF Unwrite, Becomes
  <1>3. /\ IsBuffer(buf') /\ Len(buf'.vec) = Len(buf.vec)
        /\ Contents(buf') = SubSeq(Contents(buf), 1, Len(Contents(buf)) - len)
    BY <1>1, <1>2, Unwrites
  <1>4. buf'.writer - buf'.reader <= MaxReadable
    <2>1. buf.writer \in Nat /\ buf.reader \in Nat /\ MaxReadable \in Nat
      BY <1>1, Bounds DEF IsBuffer
    <2>2. buf'.writer = buf.writer - len /\ buf'.reader = buf.reader
      BY <1>1, <1>2 DEF IsBuffer
    <2> QED BY <1>1, <2>1, <2>2
  <1>5. String!Unwrite
    BY <1>2, <1>3 DEF String!Unwrite, String!Asks
  <1> QED BY <1>1, <1>3, <1>4, <1>5 DEF BufInv, String!Next

(* shrink() changes nothing of the string (buffer.h:311-317).              *)
LEMMA ShrinkKept ==
    ASSUME BufInv, NEW reserve \in Nat, reserve <= MaxArgument, Shrink(reserve)
    PROVE  BufInv' /\ String!Next
  <1>1. IsBuffer(buf) /\ buf.writer - buf.reader <= MaxReadable
    BY DEF BufInv
  <1>2. buf' = shrink(buf, reserve) /\ call' = [op |-> "shrink"]
    BY DEF Shrink, Becomes
  <1>3. /\ IsBuffer(buf') /\ Contents(buf') = Contents(buf)
        /\ \/ Len(buf'.vec) = kCheapPrepend + kInitialSize
           \/ Len(buf'.vec) = kCheapPrepend + (readableBytes(buf) + reserve)
    BY <1>1, <1>2, Shrinks
  <1>4. /\ Len(Contents(buf)) = buf.writer - buf.reader
        /\ Len(Contents(buf')) = buf'.writer - buf'.reader
        /\ buf.writer - buf.reader \in Nat
    BY <1>1, <1>3, ContentsAre
  <1>5. buf'.writer - buf'.reader <= MaxReadable
    BY <1>1, <1>3, <1>4
  <1>6. Len(buf'.vec) <= LongestVector
    <2>1. PICK n \in Nat : n = readableBytes(buf)
      BY <1>4 DEF readableBytes
    <2>2. n <= MaxReadable
      BY <1>1, <2>1 DEF readableBytes
    <2>3. /\ {kCheapPrepend, kInitialSize, MaxArgument, MaxReadable, Longest, LongestVector}
                \subseteq Nat
          /\ MaxArgument <= Longest
          /\ kCheapPrepend + kInitialSize <= LongestVector
          /\ kCheapPrepend + (MaxReadable + Longest) <= LongestVector
      BY Bounds
    <2>4. kCheapPrepend + (n + reserve) <= LongestVector
      BY <2>2, <2>3
    <2> QED BY <1>3, <2>1, <2>3, <2>4
  <1>7. String!Shrink
    BY <1>2, <1>3 DEF String!Shrink, String!Asks
  <1> QED BY <1>3, <1>5, <1>6, <1>7 DEF BufInv, String!Next

(* What is peeked at is the number that the first bytes stand for          *)
(* (buffer.h:216-277).                                                     *)
LEMMA PeekKept ==
    ASSUME BufInv, NEW w \in Nat, PeekInt(w)
    PROVE  BufInv' /\ String!Next
  <1>1. /\ IsBuffer(buf) /\ buf' = buf /\ readableBytes(buf) >= w
        /\ call' = [op |-> "peek", width |-> w,
                    value |-> networkToHost(SubSeq(buf.vec, buf.reader + 1, buf.reader + w))]
    BY DEF BufInv, PeekInt, Becomes
  <1>2. SubSeq(buf.vec, buf.reader + 1, buf.reader + w) = SubSeq(Contents(buf), 1, w)
    <2>1. PICK r \in Nat : r = buf.reader
      BY <1>1 DEF IsBuffer
    <2>2. PICK n \in Nat : n = buf.writer
      BY <1>1 DEF IsBuffer
    <2>3. PICK v \in Seq(Byte) : v = buf.vec
      BY <1>1 DEF IsBuffer
    <2>4. PICK c \in Seq(Byte) : c = Contents(buf)
      BY <1>1, ContentsAre
    <2>5. r <= n /\ n <= Len(v) /\ Len(v) \in Nat
      BY <1>1, <2>1, <2>2, <2>3 DEF IsBuffer
    <2>6. Len(c) = n - r /\ \A i \in 1 .. n - r : c[i] = v[r + i]
      BY <1>1, <2>1, <2>2, <2>3, <2>4, ContentsAre
    <2>7. n - r >= w
      BY <1>1, <2>1, <2>2 DEF readableBytes
    <2> DEFINE s == SubSeq(v, r + 1, r + w)
               t == SubSeq(c, 1, w)
    <2>8. s \in Seq(Byte) /\ Len(s) = w /\ \A i \in 1 .. w : s[i] = v[r + i]
      <3>1. PICK q \in Nat : q = r + w
        OBVIOUS
      <3>2. r <= q /\ q <= Len(v) /\ q - r = w
        BY <2>5, <2>7, <3>1
      <3>3. /\ SubSeq(v, r + 1, q) \in Seq(Byte) /\ Len(SubSeq(v, r + 1, q)) = q - r
            /\ \A i \in 1 .. q - r : SubSeq(v, r + 1, q)[i] = v[r + i]
        BY <3>2, PieceIs
      <3> QED BY <3>1, <3>2, <3>3
    <2>9. t \in Seq(Byte) /\ Len(t) = w /\ \A i \in 1 .. w : t[i] = c[i]
      <3>1. 0 + 1 = 1 /\ w - 0 = w /\ 0 <= w /\ w <= Len(c) /\ \A i \in 1 .. w : 0 + i = i
        BY <2>5, <2>6, <2>7
      <3>2. /\ SubSeq(c, 0 + 1, w) \in Seq(Byte) /\ Len(SubSeq(c, 0 + 1, w)) = w - 0
            /\ \A i \in 1 .. w - 0 : SubSeq(c, 0 + 1, w)[i] = c[0 + i]
        BY <3>1, PieceIs
      <3> QED BY <3>1, <3>2
    <2> HIDE DEF s, t
    <2>10. ASSUME NEW i \in 1 .. w PROVE s[i] = t[i]
      <3>1. i \in 1 .. n - r
        BY <2>5, <2>7
      <3>2. c[i] = v[r + i] /\ s[i] = v[r + i] /\ t[i] = c[i]
        BY <2>6, <2>8, <2>9, <3>1
      <3> QED BY <3>2
    <2>11. s = t
      BY <2>8, <2>9, <2>10, SameBytes
    <2> QED BY <2>1, <2>3, <2>4, <2>11 DEF s, t
  <1>3. String!PeekInt
    BY <1>1, <1>2 DEF String!PeekInt, String!Asks
  <1>4. BufInv'
    BY <1>1 DEF BufInv
  <1> QED BY <1>3, <1>4 DEF String!Next

(* findCRLF() finds the first CRLF of the string (buffer.h:68-80).         *)
LEMMA FindCRLFKept ==
    ASSUME BufInv, NEW start \in Nat, start >= 1, FindCRLF(start)
    PROVE  BufInv' /\ String!Next
  <1>1. /\ IsBuffer(buf) /\ buf' = buf
        /\ call' = [op |-> "findCRLF", start |-> start, at |-> findCRLF(buf, start)]
    BY DEF BufInv, FindCRLF, Becomes
  <1> DEFINE c == Contents(buf)
             there == {i \in start .. Len(c) : i < Len(c) /\ c[i] = CR /\ c[i + 1] = LF}
  <1>2. findCRLF(buf, start) = FirstOf(there)
    <2>1. PICK r \in Nat : r = buf.reader
      BY <1>1 DEF IsBuffer
    <2>2. PICK n \in Nat : n = buf.writer
      BY <1>1 DEF IsBuffer
    <2>3. PICK v \in Seq(Byte) : v = buf.vec
      BY <1>1 DEF IsBuffer
    <2>4. r <= n /\ Len(c) = n - r /\ \A i \in 1 .. n - r : c[i] = v[r + i]
      BY <1>1, <2>1, <2>2, <2>3, ContentsAre DEF IsBuffer
    <2> DEFINE here == {i \in start .. n - r - 1 : v[r + i] = CR /\ v[r + i + 1] = LF}
    <2>5. findCRLF(buf, start) = FirstOf(here)
      BY <2>1, <2>2, <2>3 DEF findCRLF, EndOfSearch
    <2> HIDE DEF c
    <2>6. ASSUME NEW i \in start .. n - r - 1
          PROVE  v[r + i] = c[i] /\ v[r + i + 1] = c[i + 1] /\ i < n - r /\ i \in start .. n - r
      <3>1. i \in 1 .. n - r /\ i + 1 \in 1 .. n - r /\ r + (i + 1) = r + i + 1
        BY <2>4
      <3> QED BY <2>4, <3>1
    <2>7. \A i \in start .. n - r : i < n - r => i \in start .. n - r - 1
      BY <2>4
    <2>8. here = there
      BY <2>4, <2>6, <2>7
    <2> QED BY <2>5, <2>8
  <1>3. there \subseteq Nat
    OBVIOUS
  <1>4. /\ there = {} => call'.at = 0
        /\ there # {} => call'.at \in there /\ \A i \in there : call'.at <= i
    <2> HIDE DEF there
    <2> QED BY <1>1, <1>2, <1>3, FirstIs
  <1>5. String!Finds("findCRLF", String!IsCRLF)
    BY <1>1, <1>4 DEF String!Finds, String!IsCRLF, String!Asks
  <1>6. BufInv'
    BY <1>1 DEF BufInv
  <1> QED BY <1>5, <1>6 DEF String!Next

(* findEOL() finds its first LF (buffer.h:82-92).                          *)
LEMMA FindEOLKept ==
    ASSUME BufInv, NEW start \in Nat, start >= 1, FindEOL(start)
    PROVE  BufInv' /\ String!Next
  <1>1. /\ IsBuffer(buf) /\ buf' = buf
        /\ call' = [op |-> "findEOL", start |-> start, at |-> findEOL(buf, start)]
    BY DEF BufInv, FindEOL, Becomes
  <1> DEFINE c == Contents(buf)
             there == {i \in start .. Len(c) : c[i] = LF}
  <1>2. findEOL(buf, start) = FirstOf(there)
    <2>1. PICK r \in Nat : r = buf.reader
      BY <1>1 DEF IsBuffer
    <2>2. PICK n \in Nat : n = buf.writer
      BY <1>1 DEF IsBuffer
    <2>3. PICK v \in Seq(Byte) : v = buf.vec
      BY <1>1 DEF IsBuffer
    <2>4. r <= n /\ Len(c) = n - r /\ \A i \in 1 .. n - r : c[i] = v[r + i]
      BY <1>1, <2>1, <2>2, <2>3, ContentsAre DEF IsBuffer
    <2> DEFINE here == {i \in start .. n - r : v[r + i] = LF}
    <2>5. findEOL(buf, start) = FirstOf(here)
      BY <2>1, <2>2, <2>3 DEF findEOL, EndOfSearch
    <2> HIDE DEF c
    <2>6. \A i \in start .. n - r : i \in 1 .. n - r
      BY <2>4
    <2>7. here = there
      BY <2>4, <2>6
    <2> QED BY <2>5, <2>7
  <1>3. there \subseteq Nat
    OBVIOUS
  <1>4. /\ there = {} => call'.at = 0
        /\ there # {} => call'.at \in there /\ \A i \in there : call'.at <= i
    <2> HIDE DEF there
    <2> QED BY <1>1, <1>2, <1>3, FirstIs
  <1>5. String!Finds("findEOL", String!IsLF)
    BY <1>1, <1>4 DEF String!Finds, String!IsLF, String!Asks
  <1>6. BufInv'
    BY <1>1 DEF BufInv
  <1> QED BY <1>5, <1>6 DEF String!Next

(* Every call keeps the invariant and is one of a string of bytes.         *)
LEMMA BufferKept ==
    ASSUME BufInv, BufferNext \/ UNCHANGED bufferVars
    PROVE  BufInv' /\ [String!Next]_<<Contents(buf), call>>
  <1>1. CASE UNCHANGED bufferVars
    <2>1. buf' = buf /\ call' = call
      BY <1>1 DEF bufferVars
    <2>2. Contents(buf)' = Contents(buf)
      BY <2>1
    <2> QED BY <2>1, <2>2 DEF BufInv
  <1>b. MaxArgument \in Nat /\ MaxReadable \in Nat /\ Longest \in Nat
        /\ MaxArgument <= Longest /\ MaxReadable <= Longest
    BY Bounds
  <1>2. ASSUME NEW str \in Strings(MaxArgument),
               AppendBytes(str) \/ Prepend(str) \/ ReadFd(str)
        PROVE  BufInv' /\ String!Next
    <2>1. str \in Seq(Byte) /\ Len(str) \in Nat /\ Len(str) <= MaxArgument
      BY <1>b, StringsAre
    <2>2. Len(str) <= Longest
      BY <1>b, <2>1
    <2> QED BY <1>2, <2>1, <2>2, AppendKept, PrependKept, ReadKept
  <1>3. ASSUME NEW w \in Widths, NEW x \in Ints(w), AppendInt(x, w) \/ PrependInt(x, w)
        PROVE  BufInv' /\ String!Next
    <2>1. w \in Nat /\ x \in Int
      <3>1. w \in Nat
        BY BufferAssumption
      <3> QED BY <3>1, IntsAre
    <2>2. PICK str \in Seq(Byte) : str = hostToNetwork(x, w) /\ Len(str) = w
      BY <2>1, BytesOfInt
    <2>3. AppendBytes(str) \/ Prepend(str)
      BY <1>3, <2>2 DEF AppendInt, PrependInt
    <2>4. readableBytes(buf) + Len(str) <= MaxReadable
      BY <2>3 DEF AppendBytes, Prepend
    <2>5. readableBytes(buf) \in Nat
      BY ContentsAre DEF BufInv, readableBytes
    <2>6. Len(str) <= Longest
      BY <1>b, <2>1, <2>2, <2>4, <2>5
    <2> QED BY <2>3, <2>6, AppendKept, PrependKept
  <1>4. ASSUME NEW w \in Widths, PeekInt(w) PROVE BufInv' /\ String!Next
    <2>1. w \in Nat
      BY BufferAssumption
    <2> QED BY <1>4, <2>1, PeekKept
  <1>n. readableBytes(buf) \in Nat
    BY ContentsAre DEF BufInv, readableBytes
  <1>5. ASSUME NEW len \in 0 .. readableBytes(buf), Retrieve(len) \/ Unwrite(len)
        PROVE  BufInv' /\ String!Next
    <2>1. len \in Nat
      BY <1>n
    <2> QED BY <1>5, <2>1, RetrieveKept, UnwriteKept
  <1>6. ASSUME NEW len \in 0 .. MaxArgument, Shrink(len) PROVE BufInv' /\ String!Next
    <2>1. len \in Nat /\ len <= MaxArgument
      BY <1>b
    <2> QED BY <1>6, <2>1, ShrinkKept
  <1>7. ASSUME NEW start \in 1 .. readableBytes(buf) + 1,
               FindCRLF(start) \/ FindEOL(start)
        PROVE  BufInv' /\ String!Next
    <2>1. start \in Nat /\ start >= 1
      BY <1>n
    <2> QED BY <1>7, <2>1, FindCRLFKept, FindEOLKept
  <1>8. CASE BufferNext
    BY <1>2, <1>3, <1>4, <1>5, <1>6, <1>7, <1>8 DEF BufferNext
  <1> QED BY <1>1, <1>8

(* What the assertions of buffer.h say follows.                            *)
LEMMA BufferHolds ==
    ASSUME BufInv PROVE IndicesInOrder
  <1>1. IsBuffer(buf) /\ Len(buf.vec) <= LongestVector
    BY DEF BufInv
  <1>2. BufferTypeOK
    BY <1>1 DEF BufferTypeOK, IsBuffer
  <1>3. ASSUME NEW len \in 0 .. MaxArgument
        PROVE  /\ writableBytes(ensureWritableBytes(buf, len)) >= len
               /\ \/ writableBytes(buf) >= len
                  \/ writableBytes(buf) + prependableBytes(buf) < len + kCheapPrepend
                  \/ kCheapPrepend < buf.reader
    <2>1. len \in Nat /\ kCheapPrepend \in Nat
      BY Bounds
    <2>2. writableBytes(ensureWritableBytes(buf, len)) >= len
      BY <1>1, <2>1, RoomMade
    <2>3. /\ writableBytes(buf) \in Int /\ prependableBytes(buf) = buf.reader
          /\ buf.reader \in Nat
      BY <1>1 DEF writableBytes, prependableBytes, IsBuffer
    <2>4. \/ writableBytes(buf) >= len
          \/ writableBytes(buf) + prependableBytes(buf) < len + kCheapPrepend
          \/ kCheapPrepend < buf.reader
      BY <2>1, <2>3
    <2> QED BY <2>2, <2>4
  <1>4. Len(buf.vec) <= kCheapPrepend + Max({kInitialSize, MaxReadable
                                             + Max({MaxArgument, MaxReadable})})
    BY <1>1 DEF LongestVector, Longest
  <1>5. ASSUME NEW w \in Widths, NEW x \in Ints(w)
        PROVE  networkToHost(hostToNetwork(x, w)) = x
    <2>1. w \in Nat
      BY BufferAssumption
    <2> QED BY <2>1, IntsComeBack
  <1> QED BY <1>2, <1>3, <1>4, <1>5 DEF IndicesInOrder

----------------------------------------------------------------------------
(* Pieces of strings.                                                      *)

(* Two pieces agree up to n, or first differ at i.                         *)
Agree(x, y, n) == \A i \in 1 .. n : x[i] = y[i]
FirstAt(x, y, n, i) == i \in 1 .. n /\ x[i] # y[i] /\ \A j \in 1 .. i - 1 : x[j] = y[j]

(* A piece is a sequence of numbers.                                       *)
LEMMA CharsIs ==
    ASSUME NEW x \in Piece
    PROVE  /\ x \in Seq(Char) /\ x \in Seq(Int) /\ Len(x) \in Nat
           /\ \A i \in 1 .. Len(x) : x[i] \in Int
  <1>1. PICK m \in 0 .. MaxLength : x \in [1 .. m -> Char]
    BY DEF Piece, BoundedSeq, SeqOf
  <1>2. m \in Nat
    BY <1>1, PieceAssumption
  <1>3. x \in Seq(Char)
    BY <1>1, <1>2
  <1>4. Char \subseteq Int
    <2>1. 0 .. 255 \subseteq Int
      OBVIOUS
    <2> QED BY <2>1, PieceAssumption
  <1>5. \A i \in 1 .. Len(x) : x[i] \in Int
    BY <1>3, <1>4, ElementOfSeq
  <1>6. x \in Seq(Int)
    <2>1. x \in [1 .. m -> Int]
      BY <1>1, <1>4
    <2> QED BY <1>2, <2>1
  <1> QED BY <1>3, <1>5, <1>6

(* memcmp() is 0 where they agree and else the difference of the bytes at  *)
(* the first place where they differ.                                      *)
LEMMA memcmpIs ==
    ASSUME NEW x, NEW y, NEW n \in Nat
    PROVE  \/ Agree(x, y, n) /\ memcmp(x, y, n) = 0
           \/ \E i : FirstAt(x, y, n, i) /\ memcmp(x, y, n) = x[i] - y[i]
  <1> DEFINE D == {i \in 1 .. n : x[i] # y[i]}
  <1>1. memcmp(x, y, n) = IF D = {} THEN 0 ELSE x[Min(D)] - y[Min(D)]
    BY DEF memcmp
  <1>2. CASE D = {}
    <2>1. Agree(x, y, n)
      BY <1>2 DEF Agree
    <2> QED BY <1>1, <1>2, <2>1
  <1>3. CASE D # {}
    <2>1. D \subseteq Nat
      OBVIOUS
    <2>2. \E i \in D : \A j \in D : ~(j < i)
      <3> HIDE DEF D
      <3> QED BY <1>3, <2>1, LeastNumber
    <2>3. \E i \in D : \A j \in D : i <= j
      <3> HIDE DEF D
      <3> QED BY <2>1, <2>2
    <2>4. PICK i : i = Min(D)
      OBVIOUS
    <2>5. i \in D /\ \A j \in D : i <= j
      <3> HIDE DEF D
      <3> QED BY <2>3, <2>4 DEF Min
    <2>6. ASSUME NEW j \in 1 .. i - 1 PROVE x[j] = y[j]
      <3>1. j \in 1 .. n /\ ~(i <= j)
        BY <2>5
      <3> QED BY <2>5, <3>1
    <2>7. FirstAt(x, y, n, i)
      BY <2>5, <2>6 DEF FirstAt
    <2> HIDE DEF D
    <2> QED BY <1>1, <1>3, <2>4, <2>7
  <1> QED BY <1>2, <1>3

(* The length that two pieces have in common.                              *)
LEMMA CommonIs ==
    ASSUME NEW x \in Piece, NEW y \in Piece
    PROVE  /\ Common(x, y) \in Nat
           /\ Common(x, y) = IF Len(x) <= Len(y) THEN Len(x) ELSE Len(y)
  <1>1. PICK a, b : a = Len(x) /\ b = Len(y)
    OBVIOUS
  <1>2. a \in Nat /\ b \in Nat
    BY <1>1, CharsIs
  <1>3. Common(x, y) = CHOOSE k \in {a, b} : \A l \in {a, b} : k <= l
    BY <1>1 DEF Common, Min
  <1>4. (CHOOSE k \in {a, b} : \A l \in {a, b} : k <= l) = IF a <= b THEN a ELSE b
    BY <1>2
  <1> QED BY <1>1, <1>2, <1>3, <1>4

(* Where one piece is before another one, in the order of a dictionary:    *)
(* smaller at the first place where they differ, or a beginning of it.     *)
AtPlace(x, y, i) == FirstAt(x, y, Common(x, y), i)
FirstSmaller(x, y) == \E i : AtPlace(x, y, i) /\ x[i] < y[i]
Alike(x, y) == Agree(x, y, Common(x, y))

(* What Differ() says of it.                                               *)
LEMMA DifferIs ==
    ASSUME NEW x \in Piece, NEW y \in Piece
    PROVE  /\ Differ(x, y) \in Int
           /\ Differ(x, y) < 0 <=> FirstSmaller(x, y)
           /\ Differ(x, y) > 0 <=> FirstSmaller(y, x)
           /\ Differ(x, y) = 0 <=> Alike(x, y)
  <1>1. Common(x, y) \in Nat /\ Common(x, y) <= Len(x) /\ Common(x, y) <= Len(y)
        /\ Common(y, x) = Common(x, y) /\ Len(x) \in Nat /\ Len(y) \in Nat
    BY CommonIs, CharsIs
  <1>2. PICK n : n = Common(x, y)
    OBVIOUS
  <1>3. \A i \in 1 .. n : x[i] \in Int /\ y[i] \in Int
    BY <1>1, <1>2, CharsIs
  <1>4. Differ(x, y) = memcmp(x, y, n)
    BY <1>2 DEF Differ
  <1>5. \A i, j : AtPlace(x, y, i) /\ AtPlace(y, x, j) => i = j
    BY <1>1 DEF AtPlace, FirstAt
  <1>6. CASE Agree(x, y, n) /\ memcmp(x, y, n) = 0
    <2>1. Alike(x, y)
      BY <1>2, <1>6 DEF Alike
    <2>2. ~FirstSmaller(x, y) /\ ~FirstSmaller(y, x)
      BY <1>1, <1>2, <1>6 DEF FirstSmaller, AtPlace, FirstAt, Agree
    <2> QED BY <1>4, <1>6, <2>1, <2>2
  <1>7. ASSUME NEW i, FirstAt(x, y, n, i), memcmp(x, y, n) = x[i] - y[i]
        PROVE  /\ Differ(x, y) \in Int
               /\ Differ(x, y) < 0 <=> FirstSmaller(x, y)
               /\ Differ(x, y) > 0 <=> FirstSmaller(y, x)
               /\ Differ(x, y) = 0 <=> Alike(x, y)
    <2>1. i \in 1 .. n /\ x[i] # y[i]
      BY <1>7 DEF FirstAt
    <2>2. ~Alike(x, y)
      BY <1>2, <2>1 DEF Alike, Agree
    <2>3. AtPlace(x, y, i) /\ AtPlace(y, x, i)
      BY <1>1, <1>2, <1>7 DEF AtPlace, FirstAt
    <2>4. \A j : AtPlace(x, y, j) => j = i
      BY <1>5, <2>3
    <2>5. \A j : AtPlace(y, x, j) => j = i
      BY <1>5, <2>3
    <2>6. FirstSmaller(x, y) <=> x[i] < y[i]
      BY <2>3, <2>4 DEF FirstSmaller
    <2>7. FirstSmaller(y, x) <=> y[i] < x[i]
      BY <2>3, <2>5 DEF FirstSmaller
    <2>8. PICK a, b : a = x[i] /\ b = y[i]
      OBVIOUS
    <2>9. a \in Int /\ b \in Int /\ a # b /\ Differ(x, y) = a - b
      BY <1>3, <1>4, <1>7, <2>1, <2>8
    <2>10. /\ Differ(x, y) \in Int
           /\ Differ(x, y) < 0 <=> a < b
           /\ Differ(x, y) > 0 <=> b < a
           /\ Differ(x, y) # 0
      BY <2>9
    <2> QED BY <2>2, <2>6, <2>7, <2>8, <2>10
  <1> QED BY <1>2, <1>1, <1>6, <1>7, memcmpIs

(* Pieces that agree and have one length are the same.                     *)
LEMMA SamePiece ==
    ASSUME NEW x \in Piece, NEW y \in Piece
    PROVE  Alike(x, y) /\ Len(x) = Len(y) <=> x = y
  <1>1. x \in Seq(Char) /\ y \in Seq(Char) /\ Len(x) \in Nat /\ Len(y) \in Nat
    BY CharsIs
  <1>2. Common(x, y) = IF Len(x) <= Len(y) THEN Len(x) ELSE Len(y)
    BY CommonIs
  <1>3. ASSUME Alike(x, y), Len(x) = Len(y) PROVE x = y
    <2>1. Common(x, y) = Len(x)
      BY <1>1, <1>2, <1>3
    <2>2. \A i \in 1 .. Len(x) : x[i] = y[i]
      BY <1>3, <2>1 DEF Alike, Agree
    <2> QED BY <1>1, <1>3, <2>2, SeqEqual
  <1>4. ASSUME x = y PROVE Alike(x, y)
    BY <1>4 DEF Alike, Agree
  <1> QED BY <1>3, <1>4

(* ... as equal() has it.                                                  *)
LEMMA equalIs ==
    ASSUME NEW x \in Piece, NEW y \in Piece
    PROVE  equal(x, y) <=> x = y
  <1>1. Len(x) \in Nat /\ Len(y) \in Nat
    BY CharsIs
  <1>2. CASE Len(x) = Len(y)
    <2>1. Common(x, y) = Len(x)
      BY <1>1, <1>2, CommonIs
    <2>2. equal(x, y) <=> Differ(x, y) = 0
      BY <1>2, <2>1 DEF equal, Differ
    <2> QED BY <1>2, <2>2, DifferIs, SamePiece
  <1>3. CASE Len(x) # Len(y)
    BY <1>3 DEF equal
  <1> QED BY <1>2, <1>3

(* To be before another one, of pieces: smaller where they first differ, or*)
(* shorter where they do not.                                              *)
Under(x, y) == FirstSmaller(x, y) \/ (Alike(x, y) /\ Len(x) < Len(y))

(* It is transitive.                                                       *)
LEMMA UnderTransitive ==
    ASSUME NEW x \in Piece, NEW y \in Piece, NEW z \in Piece, Under(x, y), Under(y, z)
    PROVE  Under(x, z)
  <1>1. PICK a, b, c : a = Len(x) /\ b = Len(y) /\ c = Len(z)
    OBVIOUS
  <1>2. a \in Nat /\ b \in Nat /\ c \in Nat
    BY <1>1, CharsIs
  <1>3. PICK u, v, w : u = Common(x, y) /\ v = Common(y, z) /\ w = Common(x, z)
    OBVIOUS
  <1>4. /\ u = IF a <= b THEN a ELSE b
        /\ v = IF b <= c THEN b ELSE c
        /\ w = IF a <= c THEN a ELSE c
    BY <1>1, <1>3, CommonIs
  <1>5. /\ u \in Nat /\ v \in Nat /\ w \in Nat /\ u <= a /\ u <= b /\ v <= b /\ v <= c
        /\ \A k \in 1 .. w : k \in Nat /\ k <= a /\ k <= c
        /\ \A k \in Nat : k >= 1 /\ k <= a /\ k <= c => k \in 1 .. w
        /\ \A k \in Nat : k >= 1 /\ k <= a /\ k <= b => k \in 1 .. u
        /\ \A k \in Nat : k >= 1 /\ k <= b /\ k <= c => k \in 1 .. v
    BY <1>2, <1>4
  <1>6. /\ \A k \in 1 .. a : x[k] \in Int
        /\ \A k \in 1 .. b : y[k] \in Int
        /\ \A k \in 1 .. c : z[k] \in Int
    BY <1>1, CharsIs
  <1>7. ASSUME NEW i, AtPlace(x, y, i), x[i] < y[i], NEW j, AtPlace(y, z, j), y[j] < z[j]
        PROVE  FirstSmaller(x, z)
    <2>1. /\ i \in 1 .. u /\ \A k \in 1 .. i - 1 : x[k] = y[k]
          /\ j \in 1 .. v /\ \A k \in 1 .. j - 1 : y[k] = z[k]
      BY <1>3, <1>7 DEF AtPlace, FirstAt
    <2>2. i \in Nat /\ j \in Nat /\ 1 <= i /\ 1 <= j /\ i <= a /\ i <= b /\ j <= b /\ j <= c
      BY <1>5, <2>1, <1>2
    <2>3. CASE i < j
      <3>1. i \in 1 .. w /\ i \in 1 .. j - 1
        BY <1>5, <2>2, <2>3, <1>2
      <3>2. y[i] = z[i]
        BY <2>1, <3>1
      <3>3. \A k \in 1 .. i - 1 : k \in 1 .. j - 1
        BY <2>2, <2>3
      <3>4. \A k \in 1 .. i - 1 : x[k] = z[k]
        BY <2>1, <3>3
      <3>5. x[i] < z[i] /\ x[i] # z[i]
        <4>1. i \in 1 .. a /\ i \in 1 .. b
          BY <2>2
        <4>2. PICK p, q : p = x[i] /\ q = y[i]
          OBVIOUS
        <4>3. p \in Int /\ q \in Int /\ p < q
          BY <1>6, <1>7, <4>1, <4>2
        <4> QED BY <3>2, <4>2, <4>3
      <3> QED BY <1>3, <3>1, <3>4, <3>5 DEF FirstSmaller, AtPlace, FirstAt
    <2>4. CASE i = j
      <3>1. i \in 1 .. w
        BY <1>5, <2>2, <2>4
      <3>4. \A k \in 1 .. i - 1 : x[k] = z[k]
        BY <2>1, <2>4
      <3>5. x[i] < z[i] /\ x[i] # z[i]
        <4>1. i \in 1 .. a /\ i \in 1 .. b /\ i \in 1 .. c
          BY <2>2, <2>4
        <4>2. PICK p, q, r : p = x[i] /\ q = y[i] /\ r = z[i]
          OBVIOUS
        <4>3. p \in Int /\ q \in Int /\ r \in Int /\ p < q /\ q < r
          BY <1>6, <1>7, <2>4, <4>1, <4>2
        <4> QED BY <4>2, <4>3
      <3> QED BY <1>3, <3>1, <3>4, <3>5 DEF FirstSmaller, AtPlace, FirstAt
    <2>5. CASE j < i
      <3>1. j \in 1 .. w /\ j \in 1 .. i - 1
        BY <1>5, <2>2, <2>5, <1>2
      <3>2. x[j] = y[j]
        BY <2>1, <3>1
      <3>3. \A k \in 1 .. j - 1 : k \in 1 .. i - 1
        BY <2>2, <2>5
      <3>4. \A k \in 1 .. j - 1 : x[k] = z[k]
        BY <2>1, <3>3
      <3>5. x[j] < z[j] /\ x[j] # z[j]
        <4>1. j \in 1 .. c /\ j \in 1 .. b
          BY <2>2
        <4>2. PICK p, q : p = y[j] /\ q = z[j]
          OBVIOUS
        <4>3. p \in Int /\ q \in Int /\ p < q
          BY <1>6, <1>7, <4>1, <4>2
        <4> QED BY <3>2, <4>2, <4>3
      <3> QED BY <1>3, <3>1, <3>4, <3>5 DEF FirstSmaller, AtPlace, FirstAt
    <2> QED BY <2>2, <2>3, <2>4, <2>5
  <1>8. ASSUME NEW i, AtPlace(x, y, i), x[i] < y[i], Alike(y, z), b < c
        PROVE  FirstSmaller(x, z)
    <2>1. /\ i \in 1 .. u /\ x[i] # y[i] /\ \A k \in 1 .. i - 1 : x[k] = y[k]
          /\ \A k \in 1 .. v : y[k] = z[k]
      BY <1>3, <1>8 DEF AtPlace, FirstAt, Alike, Agree
    <2>2. i \in Nat /\ 1 <= i /\ i <= a /\ i <= b /\ v = b
      BY <1>2, <1>4, <1>5, <1>8, <2>1
    <2>3. i \in 1 .. w /\ i \in 1 .. v /\ \A k \in 1 .. i - 1 : k \in 1 .. v
      BY <1>2, <1>5, <1>8, <2>2
    <2>4. y[i] = z[i] /\ \A k \in 1 .. i - 1 : x[k] = z[k]
      BY <2>1, <2>3
    <2> QED BY <1>3, <1>8, <2>1, <2>3, <2>4 DEF FirstSmaller, AtPlace, FirstAt
  <1>9. ASSUME Alike(x, y), a < b, NEW j, AtPlace(y, z, j), y[j] < z[j]
        PROVE  Under(x, z)
    <2>1. /\ j \in 1 .. v /\ y[j] # z[j] /\ \A k \in 1 .. j - 1 : y[k] = z[k]
          /\ \A k \in 1 .. u : x[k] = y[k]
      BY <1>3, <1>9 DEF AtPlace, FirstAt, Alike, Agree
    <2>2. j \in Nat /\ 1 <= j /\ j <= c /\ j <= b /\ u = a
      BY <1>2, <1>4, <1>5, <1>9, <2>1
    <2>3. CASE j <= a
      <3>1. j \in 1 .. w /\ j \in 1 .. u /\ \A k \in 1 .. j - 1 : k \in 1 .. u
        BY <1>2, <1>5, <2>2, <2>3
      <3>2. x[j] = y[j] /\ \A k \in 1 .. j - 1 : x[k] = z[k]
        BY <2>1, <3>1
      <3>3. FirstSmaller(x, z)
        BY <1>3, <1>9, <2>1, <3>1, <3>2 DEF FirstSmaller, AtPlace, FirstAt
      <3> QED BY <3>3 DEF Under
    <2>4. CASE ~(j <= a)
      <3>1. a < c /\ w = a /\ \A k \in 1 .. w : k \in 1 .. u /\ k \in 1 .. j - 1
        BY <1>2, <1>4, <2>2, <2>4
      <3>2. Alike(x, z)
        BY <1>3, <2>1, <3>1 DEF Alike, Agree
      <3> QED BY <1>1, <3>1, <3>2 DEF Under
    <2> QED BY <2>3, <2>4
  <1>10. ASSUME Alike(x, y), a < b, Alike(y, z), b < c
         PROVE  Under(x, z)
    <2>1. u = a /\ v = b /\ w = a /\ a < c /\ \A k \in 1 .. w : k \in 1 .. u /\ k \in 1 .. v
      BY <1>2, <1>4, <1>10
    <2>2. Alike(x, z)
      BY <1>3, <1>10, <2>1 DEF Alike, Agree
    <2> QED BY <1>1, <2>1, <2>2 DEF Under
  <1>11. /\ FirstSmaller(x, y) \/ (Alike(x, y) /\ a < b)
         /\ FirstSmaller(y, z) \/ (Alike(y, z) /\ b < c)
    BY <1>1 DEF Under
  <1>12. CASE FirstSmaller(x, y) /\ FirstSmaller(y, z)
    BY <1>7, <1>12 DEF FirstSmaller, Under
  <1>13. CASE FirstSmaller(x, y) /\ Alike(y, z) /\ b < c
    BY <1>8, <1>13 DEF FirstSmaller, Under
  <1>14. CASE Alike(x, y) /\ a < b /\ FirstSmaller(y, z)
    BY <1>9, <1>14 DEF FirstSmaller
  <1> QED BY <1>10, <1>11, <1>12, <1>13, <1>14

(* memcmp() is 0 just where they agree.                                    *)
LEMMA memcmpZero ==
    ASSUME NEW x, NEW y, NEW n \in Nat, \A i \in 1 .. n : x[i] \in Int /\ y[i] \in Int
    PROVE  memcmp(x, y, n) = 0 <=> Agree(x, y, n)
  <1>1. CASE Agree(x, y, n) /\ memcmp(x, y, n) = 0
    BY <1>1
  <1>2. ASSUME NEW i, FirstAt(x, y, n, i), memcmp(x, y, n) = x[i] - y[i]
        PROVE  memcmp(x, y, n) # 0 /\ ~Agree(x, y, n)
    <2>1. i \in 1 .. n /\ x[i] # y[i]
      BY <1>2 DEF FirstAt
    <2>2. PICK a, b : a = x[i] /\ b = y[i]
      OBVIOUS
    <2>3. a \in Int /\ b \in Int /\ a # b
      BY <2>1, <2>2
    <2>4. a - b # 0
      BY <2>3
    <2> QED BY <1>2, <2>1, <2>2, <2>4 DEF Agree
  <1> QED BY <1>1, <1>2, memcmpIs

(* The other comparisons are this order, turned round or with equality.    *)
LEMMA ComparisonsAre ==
    ASSUME NEW x \in Piece, NEW y \in Piece
    PROVE  /\ less(x, y) <=> Under(x, y)
           /\ greater(x, y) <=> Under(y, x)
           /\ atMost(x, y) <=> ~Under(y, x)
           /\ atLeast(x, y) <=> ~Under(x, y)
           /\ compare(x, y) < 0 <=> Under(x, y)
           /\ compare(x, y) > 0 <=> Under(y, x)
           /\ Under(x, y) \/ Under(y, x) \/ x = y
           /\ x = y => ~Under(x, y)
           /\ Under(x, y) => ~Under(y, x)
  <1>1. PICK d, a, b : d = Differ(x, y) /\ a = Len(x) /\ b = Len(y)
    OBVIOUS
  <1>2. d \in Int /\ a \in Nat /\ b \in Nat
    BY <1>1, DifferIs, CharsIs
  <1>3. Alike(x, y) <=> Alike(y, x)
    <2>1. Common(x, y) = Common(y, x)
      BY <1>1, <1>2, CommonIs
    <2> QED BY <2>1 DEF Alike, Agree
  <1>4. /\ FirstSmaller(x, y) <=> d < 0
        /\ FirstSmaller(y, x) <=> d > 0
        /\ Alike(x, y) <=> d = 0
    BY <1>1, DifferIs
  <1>5. Under(x, y) <=> d < 0 \/ (d = 0 /\ a < b)
    BY <1>1, <1>4 DEF Under
  <1>6. Under(y, x) <=> d > 0 \/ (d = 0 /\ b < a)
    BY <1>1, <1>3, <1>4 DEF Under
  <1>7. x = y <=> d = 0 /\ a = b
    BY <1>1, <1>4, SamePiece
  <1>8. /\ less(x, y) <=> d < 0 \/ (d = 0 /\ a < b)
        /\ greater(x, y) <=> d > 0 \/ (d = 0 /\ a > b)
        /\ atMost(x, y) <=> d < 0 \/ (d = 0 /\ a <= b)
        /\ atLeast(x, y) <=> d > 0 \/ (d = 0 /\ a >= b)
    BY <1>1 DEF less, greater, atMost, atLeast
  <1>9. PICK c : c = compare(x, y)
    OBVIOUS
  <1>10. c = IF d # 0 THEN d ELSE IF a < b THEN -1 ELSE IF a > b THEN 1 ELSE 0
    BY <1>1, <1>9 DEF compare
  <1>11. (c < 0 <=> d < 0 \/ (d = 0 /\ a < b)) /\ (c > 0 <=> d > 0 \/ (d = 0 /\ b < a))
    BY <1>2, <1>10
  <1>12. /\ d > 0 \/ (d = 0 /\ a > b) <=> d > 0 \/ (d = 0 /\ b < a)
         /\ d < 0 \/ (d = 0 /\ a <= b) <=> ~(d > 0 \/ (d = 0 /\ b < a))
         /\ d > 0 \/ (d = 0 /\ a >= b) <=> ~(d < 0 \/ (d = 0 /\ a < b))
         /\ (d < 0 \/ (d = 0 /\ a < b)) \/ (d > 0 \/ (d = 0 /\ b < a)) \/ (d = 0 /\ a = b)
         /\ (d = 0 /\ a = b) => ~(d < 0 \/ (d = 0 /\ a < b))
         /\ (d < 0 \/ (d = 0 /\ a < b)) => ~(d > 0 \/ (d = 0 /\ b < a))
    BY <1>2
  <1> QED BY <1>5, <1>6, <1>7, <1>8, <1>9, <1>11, <1>12

(* What is left of a piece when its end is removed.                        *)
LEMMA SuffixRemoved ==
    ASSUME NEW x \in Piece, NEW k \in 0 .. Len(x)
    PROVE  /\ Len(remove_suffix(x, Len(x) - k)) = k
           /\ \A i \in 1 .. k : remove_suffix(x, Len(x) - k)[i] = x[i]
  <1>1. PICK l, s : l = Len(x) /\ s = SubSeq(x, 1, k)
    OBVIOUS
  <1>2. l \in Nat /\ k \in Int /\ 1 \in Int /\ k \in Nat /\ k <= l
    BY <1>1, CharsIs
  <1>3. l - (l - k) = k
    BY <1>2
  <1>4. remove_suffix(x, Len(x) - k) = s
    BY <1>1, <1>3 DEF remove_suffix
  <1>5. \A i \in 1 .. k : x[i] \in Int
    BY <1>1, <1>2, CharsIs
  <1>6. /\ Len(s) = IF 1 <= k THEN k - 1 + 1 ELSE 0
        /\ \A i \in 1 .. k - 1 + 1 : s[i] = x[1 + i - 1]
    BY <1>1, <1>2, <1>5, SubSeqProperties
  <1>7. Len(s) = k /\ \A i \in 1 .. k : s[i] = x[i]
    BY <1>2, <1>6
  <1> QED BY <1>4, <1>7

(* What is left of it when its beginning is removed.                       *)
LEMMA PrefixRemoved ==
    ASSUME NEW x \in Piece, NEW k \in 0 .. Len(x)
    PROVE  /\ remove_prefix(x, k) \in Seq(Int)
           /\ Len(remove_prefix(x, k)) = Len(x) - k
           /\ \A i \in 1 .. Len(x) - k : remove_prefix(x, k)[i] = x[k + i]
  <1>1. PICK l, s : l = Len(x) /\ s = SubSeq(x, k + 1, l)
    OBVIOUS
  <1>2. l \in Nat /\ k \in Nat /\ k + 1 \in Int /\ k <= l /\ l \in Int
    BY <1>1, CharsIs
  <1>3. remove_prefix(x, k) = s
    BY <1>1 DEF remove_prefix
  <1>4. \A i \in k + 1 .. l : x[i] \in Int
    BY <1>1, <1>2, CharsIs
  <1>5. /\ s \in Seq(Int)
        /\ Len(s) = IF k + 1 <= l THEN l - (k + 1) + 1 ELSE 0
        /\ \A i \in 1 .. l - (k + 1) + 1 : s[i] = x[k + 1 + i - 1]
    BY <1>1, <1>2, <1>4, SubSeqProperties
  <1>6. Len(s) = l - k /\ \A i \in 1 .. l - k : s[i] = x[k + i]
    BY <1>2, <1>5
  <1> QED BY <1>1, <1>3, <1>5, <1>6

(* A piece that starts with another one is it without an end of its own... *)
LEMMA StartsWithIs ==
    ASSUME NEW x \in Piece, NEW y \in Piece
    PROVE  starts_with(x, y) <=> \E n \in 0 .. Len(x) : equal(remove_suffix(x, n), y)
  <1>1. PICK a, b : a = Len(x) /\ b = Len(y)
    OBVIOUS
  <1>2. /\ a \in Nat /\ b \in Nat
        /\ \A i \in 1 .. a : x[i] \in Int
        /\ \A i \in 1 .. b : y[i] \in Int
    BY <1>1, CharsIs
  <1>3. starts_with(x, y) <=> b <= a /\ Agree(x, y, b)
    <2>1. CASE b <= a
      <3>1. \A i \in 1 .. b : x[i] \in Int /\ y[i] \in Int
        BY <1>2, <2>1
      <3>2. memcmp(x, y, b) = 0 <=> Agree(x, y, b)
        BY <1>2, <3>1, memcmpZero
      <3>3. a >= b
        BY <1>2, <2>1
      <3> QED BY <1>1, <2>1, <3>2, <3>3 DEF starts_with
    <2>2. CASE ~(b <= a)
      <3>1. ~(a >= b)
        BY <1>2, <2>2
      <3> QED BY <1>1, <2>2, <3>1 DEF starts_with
    <2> QED BY <2>1, <2>2
  <1>4. ASSUME NEW k \in 0 .. a
        PROVE  equal(remove_suffix(x, a - k), y) <=> k = b /\ Agree(x, y, b)
    <2>1. PICK s : s = remove_suffix(x, a - k)
      OBVIOUS
    <2>2. Len(s) = k /\ k \in Nat /\ k <= a /\ \A i \in 1 .. k : s[i] = x[i]
      BY <1>1, <1>2, <2>1, SuffixRemoved
    <2>3. CASE k = b
      <3>1. \A i \in 1 .. k : s[i] \in Int /\ y[i] \in Int
        BY <1>2, <2>2, <2>3
      <3>2. memcmp(s, y, k) = 0 <=> Agree(s, y, k)
        BY <2>2, <3>1, memcmpZero
      <3>3. Agree(s, y, k) <=> Agree(x, y, b)
        BY <2>2, <2>3 DEF Agree
      <3> QED BY <1>1, <2>1, <2>2, <2>3, <3>2, <3>3 DEF equal
    <2>4. CASE k # b
      BY <1>1, <2>1, <2>2, <2>4 DEF equal
    <2> QED BY <2>3, <2>4
  <1>5. ASSUME b <= a, Agree(x, y, b)
        PROVE  \E n \in 0 .. a : equal(remove_suffix(x, n), y)
    <2>1. b \in 0 .. a /\ a - b \in 0 .. a
      BY <1>2, <1>5
    <2>2. equal(remove_suffix(x, a - b), y)
      BY <1>4, <1>5, <2>1
    <2> QED BY <2>1, <2>2
  <1>6. ASSUME NEW n \in 0 .. a, equal(remove_suffix(x, n), y)
        PROVE  b <= a /\ Agree(x, y, b)
    <2>1. PICK k \in 0 .. a : k = a - n
      BY <1>2
    <2>2. a - k = n /\ k <= a
      BY <1>2, <2>1
    <2>3. k = b /\ Agree(x, y, b)
      BY <1>4, <1>6, <2>2
    <2> QED BY <2>2, <2>3
  <1> QED BY <1>1, <1>3, <1>5, <1>6

(* ... and it is the other one and what remains when that is removed.      *)
LEMMA StartAndRest ==
    ASSUME NEW x \in Piece, NEW y \in Piece, starts_with(x, y)
    PROVE  equal(y \o remove_prefix(x, Len(y)), x)
  <1>1. PICK a, b, s : a = Len(x) /\ b = Len(y) /\ s = remove_prefix(x, b)
    OBVIOUS
  <1>2. /\ a \in Nat /\ b \in Nat
        /\ \A i \in 1 .. a : x[i] \in Int
        /\ \A i \in 1 .. b : y[i] \in Int
    BY <1>1, CharsIs
  <1>3. a >= b /\ memcmp(x, y, b) = 0
    BY <1>1 DEF starts_with
  <1>4. \A i \in 1 .. b : x[i] \in Int /\ y[i] \in Int
    BY <1>2, <1>3
  <1>5. \A i \in 1 .. b : x[i] = y[i]
    BY <1>2, <1>3, <1>4, memcmpZero DEF Agree
  <1>6. s \in Seq(Int) /\ Len(s) = a - b /\ \A i \in 1 .. a - b : s[i] = x[b + i]
    <2>1. b \in 0 .. Len(x)
      BY <1>1, <1>2, <1>3
    <2> QED BY <1>1, <2>1, PrefixRemoved
  <1>7. y \in Seq(Int)
    BY CharsIs
  <1>8. PICK t : t = y \o s
    OBVIOUS
  <1>9. /\ Len(t) = b + (a - b)
        /\ \A i \in 1 .. b + (a - b) : t[i] = IF i <= b THEN y[i] ELSE s[i - b]
    BY <1>1, <1>6, <1>7, <1>8, ConcatProperties
  <1>10. b + (a - b) = a
    BY <1>2
  <1>11. ASSUME NEW i \in 1 .. a PROVE t[i] = x[i]
    <2>1. CASE i <= b
      <3>1. i \in 1 .. b
        BY <2>1
      <3> QED BY <1>5, <1>9, <1>10, <2>1, <3>1
    <2>2. CASE ~(i <= b)
      <3>1. i - b \in 1 .. a - b /\ b + (i - b) = i
        BY <1>2, <2>2
      <3> QED BY <1>6, <1>9, <1>10, <2>2, <3>1
    <2> QED BY <2>1, <2>2
  <1>12. memcmp(t, x, a) = 0
    <2>1. Agree(t, x, a)
      BY <1>11 DEF Agree
    <2>2. \A i \in 1 .. a : t[i] \in Int /\ x[i] \in Int
      BY <1>2, <1>11
    <2> QED BY <1>2, <2>1, <2>2, memcmpZero
  <1> QED BY <1>1, <1>8, <1>9, <1>10, <1>12 DEF equal

(* The pieces that are compared.                                           *)
PieceInv == pieces \in Piece \X Piece \X Piece

(* Nothing changes them.                                                   *)
LEMMA PiecesKept == /\ PiecesInit => PieceInv
                    /\ PieceInv /\ (PiecesNext \/ UNCHANGED pieces) => PieceInv'
  BY DEF PiecesInit, PiecesNext, PieceInv

(* They are ordered.                                                       *)
LEMMA PiecesHold == PieceInv => PiecesOrdered
  <1> SUFFICES ASSUME PieceInv PROVE PiecesOrdered
    OBVIOUS
  <1>1. PICK x, y, z : x = pieces[1] /\ y = pieces[2] /\ z = pieces[3]
    OBVIOUS
  <1>2. x \in Piece /\ y \in Piece /\ z \in Piece
    BY <1>1 DEF PieceInv
  <1>3. /\ equal(x, y) <=> x = y
        /\ less(x, y) <=> Under(x, y)
        /\ less(y, z) <=> Under(y, z)
        /\ less(x, z) <=> Under(x, z)
        /\ greater(x, y) <=> Under(y, x)
        /\ greater(y, x) <=> Under(x, y)
        /\ atMost(x, y) <=> ~Under(y, x)
        /\ atLeast(x, y) <=> ~Under(x, y)
        /\ compare(x, y) < 0 <=> Under(x, y)
        /\ compare(x, y) > 0 <=> Under(y, x)
        /\ Under(x, y) \/ Under(y, x) \/ x = y
        /\ x = y => ~Under(x, y)
        /\ Under(x, y) => ~Under(y, x)
    BY <1>2, equalIs, ComparisonsAre
  <1>4. Under(x, y) /\ Under(y, z) => Under(x, z)
    BY <1>2, UnderTransitive
  <1>5. starts_with(x, y) <=> \E n \in 0 .. Len(x) : equal(remove_suffix(x, n), y)
    BY <1>2, StartsWithIs
  <1>6. starts_with(x, y) => equal(y \o remove_prefix(x, Len(y)), x)
    BY <1>2, StartAndRest
  <1>7. /\ equal(x, y) <=> x = y
        /\ less(x, y) => ~greater(x, y) /\ ~equal(x, y)
        /\ less(x, y) \/ greater(x, y) \/ equal(x, y)
        /\ less(x, y) <=> greater(y, x)
        /\ less(x, y) /\ less(y, z) => less(x, z)
        /\ atMost(x, y) <=> ~greater(x, y)
        /\ atLeast(x, y) <=> ~less(x, y)
        /\ compare(x, y) < 0 <=> less(x, y)
        /\ compare(x, y) > 0 <=> greater(x, y)
    BY <1>3, <1>4
  <1> QED BY <1>1, <1>5, <1>6, <1>7 DEF PiecesOrdered

----------------------------------------------------------------------------
(* Numbers and their digits.                                               *)

(* What comes of a when F[1] to F[m] are applied to it.                    *)
Applies(V, S, a, F, m) == /\ V \in [0 .. m -> S] /\ V[0] = a
                          /\ \A i \in 1 .. m : V[i] = F[i][V[i - 1]]

(* There is such a sequence, for a least m without would have one.         *)
LEMMA ApplicationsExist ==
    ASSUME NEW S, NEW a \in S, NEW n \in Nat, NEW F \in [1 .. n -> [S -> S]]
    PROVE  \E V : Applies(V, S, a, F, n)
  <1> DEFINE Bad == {m \in 0 .. n : ~ \E V : Applies(V, S, a, F, m)}
  <1> SUFFICES ASSUME Bad # {} PROVE FALSE
    <2> n \in 0 .. n
      OBVIOUS
    <2> QED OBVIOUS
  <1>0. Bad \subseteq Nat
    OBVIOUS
  <1>1. PICK m \in Bad : \A y \in Bad : ~(y < m)
    BY <1>0, LeastNumber
  <1>2. CASE m = 0
    <2> DEFINE f == [i \in 0 .. 0 |-> a]
    <2>1. Applies(f, S, a, F, 0)
      BY DEF Applies
    <2> QED BY <1>1, <1>2, <2>1
  <1>3. CASE m # 0
    <2>1. /\ m \in Nat /\ m - 1 \in Nat /\ m - 1 < m /\ m - 1 \notin Bad
          /\ m \in 1 .. n /\ m - 1 \in 0 .. n
      BY <1>1, <1>3
    <2>2. PICK g : Applies(g, S, a, F, m - 1)
      BY <2>1
    <2> HIDE DEF Bad
    <2>3. g \in [0 .. m - 1 -> S] /\ g[0] = a /\ \A i \in 1 .. m - 1 : g[i] = F[i][g[i - 1]]
      BY <2>2 DEF Applies
    <2>4. PICK last \in S : last = F[m][g[m - 1]]
      <3>1. m - 1 \in 0 .. m - 1
        BY <2>1
      <3>2. g[m - 1] \in S /\ F[m] \in [S -> S]
        BY <2>1, <2>3, <3>1
      <3> QED BY <3>2
    <2> DEFINE f == [i \in 0 .. m |-> IF i < m THEN g[i] ELSE last]
    <2>5. ASSUME NEW i \in 0 .. m PROVE f[i] \in S
      <3>1. i < m => i \in 0 .. m - 1
        BY <2>1
      <3>2. i < m => g[i] \in S
        BY <2>3, <3>1
      <3> QED BY <2>4, <3>2
    <2>6. f \in [0 .. m -> S]
      BY <2>5
    <2>7. f[0] = a /\ f[m] = last /\ \A i \in 0 .. m - 1 : f[i] = g[i]
      BY <2>1, <2>3, <1>3
    <2> HIDE DEF f
    <2>8. ASSUME NEW i \in 1 .. m PROVE f[i] = F[i][f[i - 1]]
      <3>1. CASE i < m
        <4>1. i \in 1 .. m - 1 /\ i \in 0 .. m - 1 /\ i - 1 \in 0 .. m - 1
          BY <2>1, <3>1
        <4> QED BY <2>3, <2>7, <4>1
      <3>2. CASE i = m
        <4>1. m - 1 \in 0 .. m - 1
          BY <2>1
        <4> QED BY <2>4, <2>7, <3>2, <4>1
      <3> QED BY <2>1, <3>1, <3>2
    <2>9. Applies(f, S, a, F, m)
      BY <2>6, <2>7, <2>8 DEF Applies
    <2> QED BY <1>1, <2>9 DEF Bad
  <1> QED BY <1>2, <1>3

(* Digits, the lowest first: Z gives the lowest digit of a number, H what  *)
(* is left, and stop the numbers of one digit.  M tells that less is left. *)
DigitsTo(f, S, D, H, M, Z, stop, n) ==
    /\ f \in [{i \in S : M[i] <= n} -> Seq(D)]
    /\ \A i \in S : M[i] <= n =>
          f[i] = <<Z[i]>> \o (IF i \in stop THEN <<>> ELSE f[H[i]])

(* Any two such functions agree where both are defined, for there is no    *)
(* least number at which they do not.                                      *)
LEMMA DigitsAgree ==
    ASSUME NEW S, NEW D, NEW H \in [S -> S], NEW M \in [S -> Nat], NEW Z, NEW stop,
           \A i \in S : i \notin stop => M[H[i]] < M[i],
           NEW n \in Nat, NEW f, DigitsTo(f, S, D, H, M, Z, stop, n),
           NEW m \in Nat, NEW g, DigitsTo(g, S, D, H, M, Z, stop, m),
           NEW a \in S, M[a] <= n, M[a] <= m
    PROVE  f[a] = g[a]
  <1> DEFINE Bad == {M[i] : i \in {i \in S : M[i] <= n /\ M[i] <= m /\ f[i] # g[i]}}
  <1> SUFFICES ASSUME f[a] # g[a] PROVE FALSE
    OBVIOUS
  <1>1. Bad \subseteq Nat /\ Bad # {}
    OBVIOUS
  <1>2. PICK l \in Bad : \A y \in Bad : ~(y < l)
    <2> HIDE DEF Bad
    <2> QED BY <1>1, LeastNumber
  <1>3. PICK i \in S : M[i] = l /\ M[i] <= n /\ M[i] <= m /\ f[i] # g[i]
    BY <1>2
  <1>4. /\ f[i] = <<Z[i]>> \o (IF i \in stop THEN <<>> ELSE f[H[i]])
        /\ g[i] = <<Z[i]>> \o (IF i \in stop THEN <<>> ELSE g[H[i]])
    BY <1>3 DEF DigitsTo
  <1>5. i \notin stop /\ f[H[i]] # g[H[i]]
    BY <1>3, <1>4
  <1>6. H[i] \in S /\ M[H[i]] \in Nat /\ M[i] \in Nat /\ M[H[i]] < M[i]
    BY <1>5
  <1>7. M[H[i]] <= n /\ M[H[i]] <= m /\ M[H[i]] < l
    BY <1>3, <1>6
  <1>8. M[H[i]] \in Bad
    BY <1>5, <1>6, <1>7
  <1> HIDE DEF Bad
  <1> QED BY <1>2, <1>7, <1>8

(* There are such functions up to any n...                                 *)
LEMMA DigitsExistTo ==
    ASSUME NEW S, NEW D, NEW H \in [S -> S], NEW M \in [S -> Nat], NEW Z \in [S -> D], NEW stop,
           \A i \in S : i \notin stop => M[H[i]] < M[i]
    PROVE  \A n \in Nat : \E f : DigitsTo(f, S, D, H, M, Z, stop, n)
  <1> DEFINE Bad == {n \in Nat : ~ \E f : DigitsTo(f, S, D, H, M, Z, stop, n)}
             First(i, g) == <<Z[i]>> \o (IF i \in stop THEN <<>> ELSE g[H[i]])
  <1> SUFFICES ASSUME Bad # {} PROVE FALSE
    OBVIOUS
  <1>1. PICK n \in Bad : \A y \in Bad : ~(y < n)
    <2>1. Bad \subseteq Nat
      OBVIOUS
    <2> HIDE DEF Bad
    <2> QED BY <2>1, LeastNumber
  <1>2. n \in Nat
    OBVIOUS
  <1>3. PICK g : /\ \A i \in S : M[i] < n => g[i] \in Seq(D)
                 /\ \A i \in S : M[i] < n => g[i] = First(i, g)
    <2>1. CASE n = 0
      <3>1. \A i \in S : ~(M[i] < n)
        BY <2>1
      <3> QED BY <3>1
    <2>2. CASE n # 0
      <3>1. n - 1 \in Nat /\ n - 1 < n /\ n - 1 \notin Bad
        BY <1>1, <1>2, <2>2
      <3>2. PICK g : DigitsTo(g, S, D, H, M, Z, stop, n - 1)
        BY <3>1
      <3>3. \A i \in S : M[i] < n => M[i] <= n - 1
        BY <1>2
      <3>4. \A i \in S : M[i] < n => g[i] \in Seq(D) /\ g[i] = First(i, g)
        BY <3>2, <3>3 DEF DigitsTo
      <3> QED BY <3>4
    <2> QED BY <2>1, <2>2
  <1> DEFINE T == {i \in S : M[i] <= n}
             f == [i \in T |-> First(i, g)]
  <1>4. ASSUME NEW i \in T PROVE First(i, g) \in Seq(D)
    <2>1. Z[i] \in D /\ <<Z[i]>> \in Seq(D) /\ <<>> \in Seq(D)
      OBVIOUS
    <2>2. CASE i \in stop
      BY <2>1, <2>2
    <2>3. CASE i \notin stop
      <3>1. H[i] \in S /\ M[H[i]] < n
        <4>1. H[i] \in S /\ M[H[i]] \in Nat /\ M[i] \in Nat /\ M[H[i]] < M[i] /\ M[i] <= n
          BY <2>3
        <4> QED BY <1>2, <4>1
      <3>2. g[H[i]] \in Seq(D)
        BY <1>3, <3>1
      <3> QED BY <2>1, <2>3, <3>2
    <2> QED BY <2>2, <2>3
  <1>5. f \in [T -> Seq(D)]
    BY <1>4
  <1>6. ASSUME NEW i \in S, M[i] <= n PROVE f[i] = First(i, f)
    <2>1. i \in T /\ f[i] = First(i, g)
      BY <1>6
    <2>2. ASSUME i \notin stop PROVE f[H[i]] = g[H[i]]
      <3>1. H[i] \in S /\ M[H[i]] < n /\ H[i] \in T
        <4>1. H[i] \in S /\ M[H[i]] \in Nat /\ M[i] \in Nat /\ M[H[i]] < M[i] /\ M[i] <= n
          BY <1>6, <2>2
        <4> QED BY <1>2, <4>1
      <3>2. f[H[i]] = First(H[i], g)
        BY <3>1
      <3> HIDE DEF f, T, First
      <3> QED BY <1>3, <3>1, <3>2
    <2> HIDE DEF f, T
    <2> QED BY <2>1, <2>2
  <1>7. DigitsTo(f, S, D, H, M, Z, stop, n)
    <2> HIDE DEF f
    <2> QED BY <1>5, <1>6 DEF DigitsTo
  <1> QED BY <1>1, <1>7

(* Less is left of a number of more digits.                                *)
Lessens(S, H, M, stop) == /\ H \in [S -> S] /\ M \in [S -> Nat]
                          /\ \A i \in S : i \notin stop => M[H[i]] < M[i]

(* Digits of all numbers.                                                  *)
DigitsOfAll(f, S, D, H, Z, stop) ==
    /\ f \in [S -> Seq(D)]
    /\ \A i \in S : f[i] = <<Z[i]>> \o (IF i \in stop THEN <<>> ELSE f[H[i]])

(* ... and so for all numbers.                                             *)
LEMMA DigitsExist ==
    ASSUME NEW S, NEW D, NEW H, NEW M, NEW Z, NEW stop, Lessens(S, H, M, stop), Z \in [S -> D]
    PROVE  \E f : DigitsOfAll(f, S, D, H, Z, stop)
  <1> DEFINE G(n) == CHOOSE g : DigitsTo(g, S, D, H, M, Z, stop, n)
             f == [i \in S |-> G(M[i])[i]]
  <1>0. /\ H \in [S -> S] /\ M \in [S -> Nat] /\ Z \in [S -> D]
        /\ \A i \in S : i \notin stop => M[H[i]] < M[i]
    BY DEF Lessens
  <1>1. \A n \in Nat : DigitsTo(G(n), S, D, H, M, Z, stop, n)
    BY <1>0, DigitsExistTo
  <1> HIDE DEF G
  <1>2. ASSUME NEW i \in S
        PROVE  f[i] \in Seq(D) /\ f[i] = <<Z[i]>> \o (IF i \in stop THEN <<>> ELSE f[H[i]])
    <2>1. PICK m \in Nat : m = M[i] /\ m <= m
      BY <1>0
    <2>2. f[i] = G(m)[i] /\ DigitsTo(G(m), S, D, H, M, Z, stop, m)
      BY <1>1, <2>1
    <2> HIDE DEF f
    <2>3. /\ f[i] \in Seq(D)
          /\ f[i] = <<Z[i]>> \o (IF i \in stop THEN <<>> ELSE G(m)[H[i]])
      BY <2>1, <2>2 DEF DigitsTo
    <2>4. ASSUME i \notin stop PROVE f[H[i]] = G(m)[H[i]]
      <3>1. PICK h : h = H[i]
        OBVIOUS
      <3>2. PICK l : l = M[h]
        OBVIOUS
      <3>3. h \in S /\ l \in Nat /\ l < m
        BY <1>0, <2>1, <2>4, <3>1, <3>2
      <3>4. f[h] = G(l)[h] /\ DigitsTo(G(l), S, D, H, M, Z, stop, l)
        BY <1>1, <3>2, <3>3 DEF f
      <3>5. M[h] <= l /\ M[h] <= m
        BY <3>2, <3>3
      <3>6. G(l)[h] = G(m)[h]
        BY <1>0, <2>2, <3>3, <3>4, <3>5, DigitsAgree
      <3> QED BY <3>1, <3>4, <3>6
    <2> QED BY <2>3, <2>4
  <1>3. f \in [S -> Seq(D)]
    BY <1>2
  <1> HIDE DEF f
  <1>4. DigitsOfAll(f, S, D, H, Z, stop)
    BY <1>2, <1>3 DEF DigitsOfAll
  <1> QED BY <1>4

(* A function with the domain S.                                           *)
FunctionOn(u, S) == u = [i \in S |-> u[i]]

(* Whatever function has such digits has sequences of them.                *)
LEMMA DigitsTyped ==
    ASSUME NEW S, NEW D, NEW H, NEW M, NEW Z, NEW stop, Lessens(S, H, M, stop), Z \in [S -> D],
           NEW u, FunctionOn(u, S),
           \A i \in S : u[i] = <<Z[i]>> \o (IF i \in stop THEN <<>> ELSE u[H[i]])
    PROVE  DigitsOfAll(u, S, D, H, Z, stop)
  <1>0. /\ H \in [S -> S] /\ M \in [S -> Nat] /\ Z \in [S -> D]
        /\ \A i \in S : i \notin stop => M[H[i]] < M[i]
    BY DEF Lessens
  <1> DEFINE Odd == {i \in S : u[i] \notin Seq(D)}
             Bad == {M[i] : i \in Odd}
  <1>1. Odd = {}
    <2> SUFFICES ASSUME Odd # {} PROVE FALSE
      OBVIOUS
    <2>0. \A i \in S : M[i] \in Nat
      BY <1>0
    <2>1. Bad \subseteq Nat /\ Bad # {}
      <3>1. PICK x \in S : u[x] \notin Seq(D)
        OBVIOUS
      <3>2. x \in Odd /\ M[x] \in Bad
        BY <3>1
      <3> QED BY <2>0, <3>2
    <2>2. PICK l \in Bad : \A y \in Bad : ~(y < l)
      <3> HIDE DEF Bad
      <3> QED BY <2>1, LeastNumber
    <2>3. PICK i \in S : M[i] = l /\ u[i] \notin Seq(D)
      BY <2>2
    <2>4. <<Z[i]>> \in Seq(D) /\ <<>> \in Seq(D)
      BY <1>0
    <2>5. CASE i \in stop
      <3>1. u[i] = <<Z[i]>> \o <<>>
        BY <2>5
      <3> QED BY <2>3, <2>4, <3>1, ConcatProperties
    <2>6. CASE i \notin stop
      <3>1. u[i] = <<Z[i]>> \o u[H[i]]
        BY <2>6
      <3>2. H[i] \in S /\ M[H[i]] < l
        BY <1>0, <2>3, <2>6
      <3>3. u[H[i]] \in Seq(D)
        <4>1. M[H[i]] \notin Bad
          <5> HIDE DEF Bad
          <5> QED BY <2>2, <3>2
        <4>2. H[i] \notin Odd
          BY <4>1
        <4> HIDE DEF Bad
        <4> QED BY <3>2, <4>2
      <3> QED BY <2>3, <2>4, <3>1, <3>3, ConcatProperties
    <2> QED BY <2>5, <2>6
  <1>2. \A i \in S : u[i] \in Seq(D)
    BY <1>1
  <1>3. u \in [S -> Seq(D)]
    BY <1>2 DEF FunctionOn
  <1> QED BY <1>3 DEF DigitsOfAll

(* The recursion of Stands.                                                *)
StandsTo(V, s, b) == /\ V \in [0 .. Len(s) -> Nat] /\ V[0] = 0
                     /\ \A i \in 1 .. Len(s) : V[i] = V[i - 1] * b + s[i]

(* Stands() is what its definition says.                                   *)
LEMMA StandsIs ==
    ASSUME NEW s \in Seq(Nat), NEW b \in Nat
    PROVE  \E V : StandsTo(V, s, b) /\ Stands(s, b) = V[Len(s)]
  <1> DEFINE w == Len(s)
             U(f) == f = [n \in 0 .. w |-> IF n = 0 THEN 0 ELSE f[n - 1] * b + s[n]]
             u == CHOOSE f : U(f)
             F == [i \in 1 .. w |-> [x \in Nat |-> x * b + s[i]]]
  <1>1. Stands(s, b) = u[w]
    BY DEF Stands
  <1>2. w \in Nat /\ \A i \in 1 .. w : s[i] \in Nat
    BY ElementOfSeq, LenProperties
  <1>3. F \in [1 .. w -> [Nat -> Nat]]
    <2>1. ASSUME NEW i \in 1 .. w, NEW x \in Nat PROVE x * b + s[i] \in Nat
      <3>1. PICK p, q : p = x * b /\ q = s[i]
        OBVIOUS
      <3>2. p \in Nat /\ q \in Nat
        BY <1>2, <3>1
      <3> QED BY <3>1, <3>2
    <2> HIDE DEF w
    <2> QED BY <2>1
  <1>4. PICK V : Applies(V, Nat, 0, F, w)
    <2> HIDE DEF F, w
    <2> QED BY <1>2, <1>3, ApplicationsExist
  <1>5. /\ V \in [0 .. w -> Nat] /\ V[0] = 0
        /\ \A i \in 1 .. w : V[i] = F[i][V[i - 1]]
    BY <1>4 DEF Applies
  <1>6. ASSUME NEW i \in 1 .. w PROVE V[i] = V[i - 1] * b + s[i]
    <2>1. i - 1 \in 0 .. w
      BY <1>2
    <2> QED BY <1>5, <2>1
  <1>7. U(V)
    <2> DEFINE R == [n \in 0 .. w |-> IF n = 0 THEN 0 ELSE V[n - 1] * b + s[n]]
    <2>1. ASSUME NEW n \in 0 .. w PROVE V[n] = R[n]
      <3>1. n # 0 => n \in 1 .. w
        BY <1>2
      <3> QED BY <1>5, <1>6, <3>1
    <2> HIDE DEF R
    <2>2. DOMAIN R = 0 .. w /\ R = [n \in 0 .. w |-> R[n]]
      BY DEF R
    <2>3. V = [n \in 0 .. w |-> V[n]]
      BY <1>5
    <2>4. V = R
      BY <2>1, <2>2, <2>3
    <2> QED BY <2>4 DEF R
  <1>8. U(u)
    <2> HIDE DEF U
    <2> QED BY <1>7 DEF u
  <1> HIDE DEF u
  <1>9. ASSUME NEW n \in 0 .. w PROVE u[n] = IF n = 0 THEN 0 ELSE u[n - 1] * b + s[n]
    BY <1>8
  <1> DEFINE Bad == {n \in 0 .. w : u[n] # V[n]}
  <1>10. Bad = {}
    <2> SUFFICES ASSUME Bad # {} PROVE FALSE
      OBVIOUS
    <2>1. Bad \subseteq Nat
      OBVIOUS
    <2>2. PICK n \in Bad : \A y \in Bad : ~(y < n)
      <3> HIDE DEF Bad
      <3> QED BY <2>1, LeastNumber
    <2>3. n \in 0 .. w /\ u[n] # V[n]
      BY <2>2
    <2>4. n # 0
      BY <1>5, <1>9, <2>3
    <2>5. n \in 1 .. w /\ n - 1 \in 0 .. w /\ n - 1 < n
      BY <1>2, <2>3, <2>4
    <2>6. u[n - 1] = V[n - 1]
      BY <2>2, <2>5
    <2> HIDE DEF Bad
    <2> QED BY <1>6, <1>9, <2>3, <2>4, <2>5, <2>6
  <1>11. w \in 0 .. w
    BY <1>2
  <1>12. u[w] = V[w]
    BY <1>10, <1>11
  <1>13. StandsTo(V, s, b)
    BY <1>5, <1>6 DEF StandsTo
  <1> HIDE DEF w
  <1> QED BY <1>1, <1>12, <1>13 DEF w

(* A digit more at the end.                                                *)
LEMMA StandsAdd ==
    ASSUME NEW s \in Seq(Nat), NEW b \in Nat, NEW d \in Nat
    PROVE  Stands(s \o <<d>>, b) = Stands(s, b) * b + d /\ Stands(s, b) \in Nat
  <1>1. PICK t, w : t = s \o <<d>> /\ w = Len(s)
    OBVIOUS
  <1>2. w \in Nat
    BY <1>1
  <1>3. t \in Seq(Nat) /\ Len(t) = w + 1 /\ t[w + 1] = d /\ \A i \in 1 .. w : t[i] = s[i]
    BY <1>1
  <1>4. PICK V : StandsTo(V, s, b) /\ Stands(s, b) = V[w]
    BY <1>1, StandsIs
  <1>5. PICK X : StandsTo(X, t, b) /\ Stands(t, b) = X[w + 1]
    BY <1>3, StandsIs
  <1>6. /\ V \in [0 .. w -> Nat] /\ V[0] = 0
        /\ \A i \in 1 .. w : V[i] = V[i - 1] * b + s[i]
    BY <1>1, <1>4 DEF StandsTo
  <1>7. /\ X[0] = 0
        /\ \A i \in 1 .. w + 1 : X[i] = X[i - 1] * b + t[i]
    BY <1>3, <1>5 DEF StandsTo
  <1> DEFINE Bad == {n \in 0 .. w : X[n] # V[n]}
  <1>8. Bad = {}
    <2> SUFFICES ASSUME Bad # {} PROVE FALSE
      OBVIOUS
    <2>1. Bad \subseteq Nat
      OBVIOUS
    <2>2. PICK n \in Bad : \A y \in Bad : ~(y < n)
      <3> HIDE DEF Bad
      <3> QED BY <2>1, LeastNumber
    <2>3. n \in 0 .. w /\ X[n] # V[n]
      BY <2>2
    <2>4. n # 0
      BY <1>6, <1>7, <2>3
    <2>5. n \in 1 .. w /\ n \in 1 .. w + 1 /\ n - 1 \in 0 .. w /\ n - 1 < n
      BY <1>2, <2>3, <2>4
    <2>6. X[n - 1] = V[n - 1]
      BY <2>2, <2>5
    <2> HIDE DEF Bad
    <2> QED BY <1>3, <1>6, <1>7, <2>3, <2>5, <2>6
  <1>9. w \in 0 .. w /\ w + 1 \in 1 .. w + 1 /\ w + 1 - 1 = w
    BY <1>2
  <1>10. X[w] = V[w] /\ V[w] \in Nat
    BY <1>6, <1>8, <1>9
  <1>11. X[w + 1] = X[w + 1 - 1] * b + t[w + 1]
    BY <1>7, <1>9
  <1> QED BY <1>1, <1>3, <1>4, <1>5, <1>9, <1>10, <1>11

(* Reversed, what comes first is last.                                     *)
LEMMA ReverseIs ==
    ASSUME NEW D, NEW s \in Seq(D), NEW d \in D
    PROVE  /\ Reverse(<<d>> \o s) = Reverse(s) \o <<d>>
           /\ Reverse(s \o <<d>>) = <<d>> \o Reverse(s)
           /\ Reverse(s) \in Seq(D) /\ Len(Reverse(s)) = Len(s)
  <1>1. PICK w : w = Len(s)
    OBVIOUS
  <1>2. w \in Nat /\ \A i \in 1 .. w : s[i] \in D
    BY <1>1, ElementOfSeq, LenProperties
  <1>3. PICK r : r = Reverse(s)
    OBVIOUS
  <1>4. r = [i \in 1 .. w |-> s[(w - i) + 1]]
    BY <1>1, <1>3 DEF Reverse
  <1>5. r \in [1 .. w -> D]
    <2>1. ASSUME NEW i \in 1 .. w PROVE s[(w - i) + 1] \in D
      BY <1>2
    <2> QED BY <1>4, <2>1
  <1>6. r \in Seq(D) /\ Len(r) = w
    BY <1>2, <1>5
  <1>l. PICK l : l = w + 1
    OBVIOUS
  <1>7. PICK t, u : t = <<d>> \o s /\ u = s \o <<d>>
    OBVIOUS
  <1>8. /\ t \in Seq(D) /\ Len(t) = l /\ t[1] = d /\ \A i \in 1 .. w : t[i + 1] = s[i]
        /\ u \in Seq(D) /\ Len(u) = l /\ u[l] = d /\ \A i \in 1 .. w : u[i] = s[i]
    <2>1. /\ t \in Seq(D) /\ u \in Seq(D) /\ <<d>> \in Seq(D) /\ Len(<<d>>) = 1 /\ <<d>>[1] = d
      BY <1>7
    <2>2. /\ Len(t) = 1 + w
          /\ \A i \in 1 .. 1 + w : t[i] = IF i <= 1 THEN <<d>>[i] ELSE s[i - 1]
      BY <1>1, <1>7, <1>l, <2>1, ConcatProperties
    <2>3. /\ Len(u) = l
          /\ \A i \in 1 .. l : u[i] = IF i <= w THEN s[i] ELSE <<d>>[i - w]
      BY <1>1, <1>7, <1>l, <2>1, ConcatProperties
    <2>4. Len(t) = l /\ t[1] = d
      BY <1>2, <1>l, <2>1, <2>2
    <2>5. ASSUME NEW i \in 1 .. w PROVE t[i + 1] = s[i]
      <3>1. i + 1 \in 1 .. 1 + w /\ ~(i + 1 <= 1) /\ i + 1 - 1 = i
        BY <1>2, <1>l
      <3> QED BY <2>2, <3>1
    <2>6. u[l] = d
      <3>1. l \in 1 .. l /\ ~(l <= w) /\ l - w = 1
        BY <1>2, <1>l
      <3> QED BY <2>1, <2>3, <3>1
    <2>7. \A i \in 1 .. w : u[i] = s[i]
      BY <1>2, <1>l, <2>3
    <2> QED BY <2>1, <2>3, <2>4, <2>5, <2>6, <2>7
  <1>9. /\ Reverse(t) = [i \in 1 .. l |-> t[(l - i) + 1]]
        /\ Reverse(u) = [i \in 1 .. l |-> u[(l - i) + 1]]
    BY <1>8 DEF Reverse
  <1>10. PICK p, q : p = r \o <<d>> /\ q = <<d>> \o r
    OBVIOUS
  <1>11. /\ p \in Seq(D) /\ Len(p) = l /\ p[l] = d /\ \A i \in 1 .. w : p[i] = r[i]
         /\ q \in Seq(D) /\ Len(q) = l /\ q[1] = d /\ \A i \in 1 .. w : q[i + 1] = r[i]
    BY <1>6, <1>10, <1>l
  <1>12. ASSUME NEW i \in 1 .. l
         PROVE  t[(l - i) + 1] = p[i]
    <2>1. CASE i = l
      <3>1. (l - i) + 1 = 1
        BY <1>2, <1>l, <2>1
      <3> QED BY <1>8, <1>11, <2>1, <3>1
    <2>2. CASE i # l
      <3>1. i \in 1 .. w /\ (w - i) + 1 \in 1 .. w /\ (l - i) + 1 = ((w - i) + 1) + 1
        BY <1>2, <1>l, <2>2
      <3>2. p[i] = s[(w - i) + 1]
        BY <1>4, <1>11, <3>1
      <3> QED BY <1>8, <3>1, <3>2
    <2> QED BY <2>1, <2>2
  <1>13. ASSUME NEW i \in 1 .. l
         PROVE  u[(l - i) + 1] = q[i]
    <2>1. CASE i = 1
      <3>1. (l - i) + 1 = l
        BY <1>2, <1>l, <2>1
      <3> QED BY <1>8, <1>11, <2>1, <3>1
    <2>2. CASE i # 1
      <3>1. /\ i - 1 \in 1 .. w /\ (w - (i - 1)) + 1 \in 1 .. w /\ (i - 1) + 1 = i
            /\ (l - i) + 1 = (w - (i - 1)) + 1
        BY <1>2, <1>l, <2>2
      <3>2. q[i] = s[(w - (i - 1)) + 1]
        BY <1>4, <1>11, <3>1
      <3> QED BY <1>8, <3>1, <3>2
    <2> QED BY <2>1, <2>2
  <1>14. Reverse(t) = p /\ Reverse(u) = q
    <2>1. p = [i \in 1 .. l |-> p[i]] /\ q = [i \in 1 .. l |-> q[i]]
      <3>1. p \in [1 .. l -> D] /\ q \in [1 .. l -> D]
        BY <1>11, LenProperties
      <3> QED BY <3>1
    <2> QED BY <1>9, <1>12, <1>13, <2>1
  <1> QED BY <1>1, <1>3, <1>6, <1>7, <1>10, <1>14

(* f gives the digits to base b of the numbers of S, which have the size M *)
(* and leave H when divided by b.                                          *)
IsDigits(f, S, H, M, b) ==
    /\ b \in Nat /\ b > 1 /\ H \in [S -> S] /\ M \in [S -> Nat] /\ f \in [S -> Seq(Nat)]
    /\ \A i \in S : /\ M[H[i]] = M[i] \div b
                    /\ f[i] = <<M[i] % b>> \o (IF M[i] \div b = 0 THEN <<>> ELSE f[H[i]])

(* The lowest digit d of n, what is left of it and the digits of that.     *)
FirstDigit(f, S, H, M, b, i, d, q, n, r) ==
    /\ n = M[i] /\ n \in Nat /\ d \in Nat /\ q \in Nat /\ n = q * b + d /\ d < b
    /\ d = n % b /\ q = n \div b /\ H[i] \in S /\ M[H[i]] = q
    /\ r \in Seq(Nat) /\ f[i] = <<d>> \o r /\ f[i] \in Seq(Nat)
    /\ Len(f[i]) = 1 + Len(r) /\ Len(r) \in Nat
    /\ q = 0 => r = <<>>
    /\ q # 0 => r = f[H[i]]
    /\ q = 0 <=> n < b
    /\ q # 0 => q < n

(* Digits are split in this way.                                           *)
LEMMA DigitsSplit ==
    ASSUME NEW S, NEW f, NEW H, NEW M, NEW b, IsDigits(f, S, H, M, b), NEW i \in S
    PROVE  \E d, q, n, r : FirstDigit(f, S, H, M, b, i, d, q, n, r)
  <1>1. PICK n, d, q : n = M[i] /\ d = n % b /\ q = n \div b
    OBVIOUS
  <1>2. b \in Nat /\ b > 1 /\ n \in Nat /\ H[i] \in S /\ M[H[i]] = q
    BY <1>1 DEF IsDigits
  <1>3. q \in Int /\ d \in 0 .. b - 1 /\ n = q * b + d
    <2>1. n \div b \in Int /\ n % b \in 0 .. b - 1 /\ n = (n \div b) * b + (n % b)
      <3>1. n \in Int /\ b \in Nat /\ b > 0
        BY <1>2
      <3> QED BY <3>1, Quotient
    <2> QED BY <1>1, <2>1
  <1>4. q \in Nat
    <2>1. M \in [S -> Nat]
      BY DEF IsDigits
    <2> QED BY <1>2, <2>1
  <1>5. PICK r : r = IF q = 0 THEN <<>> ELSE f[H[i]]
    OBVIOUS
  <1>6. r \in Seq(Nat) /\ f[i] = <<d>> \o r
    BY <1>1, <1>2, <1>5 DEF IsDigits
  <1>7. d \in Nat /\ d < b
    BY <1>2, <1>3
  <1>8. Len(r) \in Nat /\ f[i] \in Seq(Nat) /\ Len(f[i]) = 1 + Len(r)
    BY <1>6, <1>7, ConcatProperties
  <1>9. (q = 0 <=> n < b) /\ (q # 0 => q < n)
    <2>1. ASSUME q = 0 PROVE n < b
      <3>1. 0 * b = 0
        BY <1>2
      <3> QED BY <1>2, <1>3, <1>7, <2>1, <3>1
    <2>2. ASSUME q # 0 PROVE n >= b /\ q < n
      <3>1. PICK p : p = q * b
        OBVIOUS
      <3>2. p >= b /\ p >= q + q /\ p \in Int
        <4>1. 1 * b <= q * b
          BY <1>2, <1>4, <2>2, TimesMonotonic
        <4>2. 2 * q <= b * q
          BY <1>2, <1>4, TimesMonotonic
        <4>3. b * q = q * b /\ 1 * b = b /\ 2 * q = q + q /\ q * b \in Int
          BY <1>2, <1>4
        <4> QED BY <3>1, <4>1, <4>2, <4>3
      <3> QED BY <1>2, <1>3, <1>4, <1>7, <2>2, <3>1, <3>2
    <2> QED BY <1>2, <2>1, <2>2
  <1>10. FirstDigit(f, S, H, M, b, i, d, q, n, r)
    BY <1>1, <1>2, <1>3, <1>4, <1>5, <1>6, <1>7, <1>8, <1>9 DEF FirstDigit
  <1> QED BY <1>10

(* The digits stand for the size of the number.                            *)
LEMMA DigitsStand ==
    ASSUME NEW S, NEW f, NEW H, NEW M, NEW b, IsDigits(f, S, H, M, b), NEW a \in S
    PROVE  Stands(Reverse(f[a]), b) = M[a]
  <1> DEFINE Bad == {M[i] : i \in {i \in S : Stands(Reverse(f[i]), b) # M[i]}}
  <1> SUFFICES ASSUME Stands(Reverse(f[a]), b) # M[a] PROVE FALSE
    OBVIOUS
  <1>1. Bad \subseteq Nat /\ Bad # {}
    BY DEF IsDigits
  <1>2. PICK l \in Bad : \A y \in Bad : ~(y < l)
    <2> HIDE DEF Bad
    <2> QED BY <1>1, LeastNumber
  <1>3. PICK i \in S : M[i] = l /\ Stands(Reverse(f[i]), b) # M[i]
    BY <1>2
  <1>a. PICK d, q, n, r : FirstDigit(f, S, H, M, b, i, d, q, n, r)
    BY DigitsSplit, Zenon
  <1>4. /\ n = M[i] /\ n \in Nat /\ d \in Nat /\ q \in Nat /\ n = q * b + d /\ d < b
        /\ d = n % b /\ q = n \div b /\ H[i] \in S /\ M[H[i]] = q
        /\ r \in Seq(Nat) /\ f[i] = <<d>> \o r /\ f[i] \in Seq(Nat)
        /\ Len(f[i]) = 1 + Len(r) /\ Len(r) \in Nat
        /\ q = 0 => r = <<>>
        /\ q # 0 => r = f[H[i]]
        /\ (q = 0 <=> n < b) /\ (q # 0 => q < n)
    BY <1>a DEF FirstDigit
  <1>5. PICK t : t = Reverse(r)
    OBVIOUS
  <1>6. t \in Seq(Nat) /\ Reverse(f[i]) = t \o <<d>> /\ Len(t) = Len(r)
    <2>1. r \in Seq(Nat) /\ d \in Nat /\ f[i] = <<d>> \o r
      BY <1>4
    <2>2. Reverse(<<d>> \o r) = t \o <<d>> /\ t \in Seq(Nat) /\ Len(t) = Len(r)
      BY <1>5, <2>1, ReverseIs
    <2> QED BY <2>1, <2>2
  <1>7. b \in Nat
    BY DEF IsDigits
  <1>8. Stands(t \o <<d>>, b) = Stands(t, b) * b + d
    BY <1>4, <1>6, <1>7, StandsAdd
  <1>9. Stands(t, b) = q
    <2>1. CASE q = 0
      <3>1. t = <<>>
        <4>1. r = <<>>
          BY <1>4, <2>1
        <4> QED BY <1>6, <4>1
      <3>2. PICK V : StandsTo(V, t, b) /\ Stands(t, b) = V[Len(t)]
        BY <1>6, <1>7, StandsIs
      <3> QED BY <2>1, <3>1, <3>2 DEF StandsTo
    <2>2. CASE q # 0
      <3>1. q < l /\ H[i] \in S /\ M[H[i]] = q
        BY <1>3, <1>4, <2>2
      <3>2. q \notin Bad
        <4> HIDE DEF Bad
        <4> QED BY <1>2, <3>1
      <3>3. Stands(Reverse(f[H[i]]), b) = q
        BY <3>1, <3>2
      <3> QED BY <1>4, <1>5, <2>2, <3>3
    <2> QED BY <2>1, <2>2
  <1> QED BY <1>3, <1>4, <1>6, <1>8, <1>9

(* The highest is not zero, but for zero itself.                           *)
LEMMA DigitsEnd ==
    ASSUME NEW S, NEW f, NEW H, NEW M, NEW b, IsDigits(f, S, H, M, b), NEW a \in S,
           M[a] # 0
    PROVE  f[a][Len(f[a])] # 0
  <1> DEFINE Ends(i) == f[i][Len(f[i])] # 0
             Bad == {M[i] : i \in {i \in S : M[i] # 0 /\ ~Ends(i)}}
  <1> SUFFICES ASSUME ~Ends(a) PROVE FALSE
    OBVIOUS
  <1>1. Bad \subseteq Nat /\ Bad # {}
    BY DEF IsDigits
  <1>2. PICK l \in Bad : \A y \in Bad : ~(y < l)
    <2> HIDE DEF Bad
    <2> QED BY <1>1, LeastNumber
  <1>3. PICK i \in S : M[i] = l /\ M[i] # 0 /\ ~Ends(i)
    BY <1>2
  <1>a. PICK d, q, n, r : FirstDigit(f, S, H, M, b, i, d, q, n, r)
    BY DigitsSplit, Zenon
  <1>4. /\ n = M[i] /\ n \in Nat /\ d \in Nat /\ q \in Nat /\ n = q * b + d /\ d < b
        /\ d = n % b /\ q = n \div b /\ H[i] \in S /\ M[H[i]] = q
        /\ r \in Seq(Nat) /\ f[i] = <<d>> \o r /\ f[i] \in Seq(Nat)
        /\ Len(f[i]) = 1 + Len(r) /\ Len(r) \in Nat
        /\ q = 0 => r = <<>>
        /\ q # 0 => r = f[H[i]]
        /\ (q = 0 <=> n < b) /\ (q # 0 => q < n)
    BY <1>a DEF FirstDigit
  <1>5. CASE q = 0
    <2>1. d = n /\ d # 0
      <3>1. b \in Nat
        BY DEF IsDigits
      <3>2. 0 * b = 0
        BY <3>1
      <3>3. n = 0 * b + d /\ d \in Nat /\ n # 0
        BY <1>3, <1>4, <1>5
      <3> QED BY <3>2, <3>3
    <2>2. Len(f[i]) = 1 /\ f[i][1] = d
      <3>1. d \in Nat /\ r = <<>> /\ f[i] = <<d>> \o r
        BY <1>4, <1>5
      <3>2. f[i] = <<d>>
        BY <3>1
      <3> QED BY <3>2
    <2> QED BY <1>3, <2>1, <2>2
  <1>6. CASE q # 0
    <2>1. q < l /\ H[i] \in S /\ M[H[i]] = q /\ M[H[i]] # 0
      BY <1>3, <1>4, <1>6
    <2>2. Ends(H[i])
      <3>1. q \notin Bad
        <4> HIDE DEF Bad
        <4> QED BY <1>2, <2>1
      <3> QED BY <2>1, <3>1
    <2>3. PICK w : w = Len(r)
      OBVIOUS
    <2>4. w \in Nat /\ r[w] # 0 /\ w >= 1
      <3>1. r = f[H[i]] /\ r[w] # 0 /\ w \in Nat
        BY <1>4, <1>6, <2>2, <2>3
      <3>2. PICK e, p, m, s : FirstDigit(f, S, H, M, b, H[i], e, p, m, s)
        BY <2>1, DigitsSplit, Zenon
      <3>3. Len(f[H[i]]) = 1 + Len(s) /\ Len(s) \in Nat
        BY <3>2 DEF FirstDigit
      <3> QED BY <2>3, <3>1, <3>3
    <2>5. PICK k : k = w + 1
      OBVIOUS
    <2>6. Len(f[i]) = k /\ f[i][k] = r[w]
      <3>1. <<d>> \in Seq(Nat) /\ Len(<<d>>) = 1
        BY <1>4
      <3>2. \A j \in 1 .. 1 + w : f[i][j] = IF j <= 1 THEN <<d>>[j] ELSE r[j - 1]
        <4>1. r \in Seq(Nat) /\ f[i] = <<d>> \o r
          BY <1>4
        <4> QED BY <2>3, <3>1, <4>1, ConcatProperties
      <3>3. k \in 1 .. 1 + w /\ ~(k <= 1) /\ k - 1 = w /\ k = 1 + w
        BY <2>4, <2>5
      <3> QED BY <1>4, <2>3, <3>2, <3>3
    <2> QED BY <1>3, <2>4, <2>6
  <1> QED BY <1>5, <1>6

(* Numbers below B have no more than k digits.                             *)
AtMost(f, S, M, B, k) == \A i \in S : M[i] < B => Len(f[i]) <= k

(* One digit more for those below b times as much.                         *)
LEMMA AtMostOneMore ==
    ASSUME NEW S, NEW f, NEW H, NEW M, NEW b, IsDigits(f, S, H, M, b),
           NEW B \in Nat, NEW k \in Nat, k >= 1
    PROVE  AtMost(f, S, M, B, k) => AtMost(f, S, M, B * b, k + 1)
  <1> SUFFICES ASSUME AtMost(f, S, M, B, k), NEW i \in S, M[i] < B * b
               PROVE  Len(f[i]) <= k + 1
    BY DEF AtMost
  <1>a. PICK d, q, n, r : FirstDigit(f, S, H, M, b, i, d, q, n, r)
    BY DigitsSplit, Zenon
  <1>1. /\ n = M[i] /\ n \in Nat /\ d \in Nat /\ q \in Nat /\ n = q * b + d /\ d < b
        /\ d = n % b /\ q = n \div b /\ H[i] \in S /\ M[H[i]] = q
        /\ r \in Seq(Nat) /\ f[i] = <<d>> \o r /\ f[i] \in Seq(Nat)
        /\ Len(f[i]) = 1 + Len(r) /\ Len(r) \in Nat
        /\ q = 0 => r = <<>>
        /\ q # 0 => r = f[H[i]]
        /\ (q = 0 <=> n < b) /\ (q # 0 => q < n)
    BY <1>a DEF FirstDigit
  <1>2. b \in Nat
    BY DEF IsDigits
  <1>3. q < B
    <2> SUFFICES ASSUME ~(q < B) PROVE FALSE
      OBVIOUS
    <2>1. q \in Nat /\ d \in Nat /\ n = q * b + d /\ n < B * b
      BY <1>1
    <2>2. B <= q /\ B \in Int /\ q \in Int
      BY <2>1
    <2>3. B * b <= q * b
      BY <1>2, <2>2, TimesMonotonic
    <2>4. PICK x, y : x = B * b /\ y = q * b
      OBVIOUS
    <2>5. x \in Int /\ y \in Int
      BY <1>2, <2>2, <2>4
    <2>6. x <= y /\ n = y + d /\ n < x
      BY <2>1, <2>3, <2>4
    <2> QED BY <2>1, <2>5, <2>6
  <1>4. Len(r) <= k
    <2>1. CASE q = 0
      <3>1. r = <<>>
        BY <1>1, <2>1
      <3> QED BY <3>1
    <2>2. CASE q # 0
      <3>1. r = f[H[i]] /\ H[i] \in S /\ M[H[i]] = q
        BY <1>1, <2>2
      <3> QED BY <1>3, <3>1 DEF AtMost
    <2> QED BY <2>1, <2>2
  <1> QED BY <1>1, <1>4

(* One digit for those below b.                                            *)
LEMMA AtMostOne ==
    ASSUME NEW S, NEW f, NEW H, NEW M, NEW b, IsDigits(f, S, H, M, b)
    PROVE  AtMost(f, S, M, b, 1)
  <1> SUFFICES ASSUME NEW i \in S, M[i] < b PROVE Len(f[i]) <= 1
    BY DEF AtMost
  <1>a. PICK d, q, n, r : FirstDigit(f, S, H, M, b, i, d, q, n, r)
    BY DigitsSplit, Zenon
  <1>1. /\ n = M[i] /\ n \in Nat /\ Len(f[i]) = 1 + Len(r)
        /\ q = 0 => r = <<>>
        /\ q = 0 <=> n < b
    BY <1>a DEF FirstDigit
  <1>2. r = <<>>
    BY <1>1
  <1> QED BY <1>1, <1>2

(* The size of an integer, and what is left of one when its last digit is  *)
(* taken.                                                                  *)
SizeOf == [i \in Int |-> IF i < 0 THEN -i ELSE i]
TenthOf == [i \in Int |-> Half(i, 10)]

(* The table has the digits on both sides of zero.                         *)
LEMMA zeroIs ==
    ASSUME NEW d \in -9 .. 9
    PROVE  zero(d) = IF d < 0 THEN -d ELSE d
  <1>1. \/ d = -9
        \/ d = -8
        \/ d = -7
        \/ d = -6
        \/ d = -5
        \/ d = -4
        \/ d = -3
        \/ d = -2
        \/ d = -1
        \/ d = 0
        \/ d = 1
        \/ d = 2
        \/ d = 3
        \/ d = 4
        \/ d = 5
        \/ d = 6
        \/ d = 7
        \/ d = 8
        \/ d = 9
    OBVIOUS
  <1> QED BY <1>1 DEF zero, digits

(* The last digit of an integer is that of its size.                       *)
LEMMA LastDigitIs ==
    ASSUME NEW i \in Int
    PROVE  /\ Half(i, 10) \in Int /\ SizeOf[i] \in Nat
           /\ SizeOf[Half(i, 10)] = SizeOf[i] \div 10
           /\ zero(LastDigit(i, 10)) = SizeOf[i] % 10
           /\ Half(i, 10) = 0 <=> SizeOf[i] \div 10 = 0
  <1>1. PICK n : n = IF i < 0 THEN -i ELSE i
    OBVIOUS
  <1>2. n \in Nat /\ SizeOf[i] = n
    BY <1>1 DEF SizeOf
  <1>3. PICK q, d : q = n \div 10 /\ d = n % 10
    OBVIOUS
  <1>4. q \in Nat /\ d \in 0 .. 9 /\ n = q * 10 + d
    BY <1>2, <1>3
  <1>5. PICK h, l : h = Half(i, 10) /\ l = LastDigit(i, 10)
    OBVIOUS
  <1>6. h = IF i >= 0 THEN q ELSE -q
    <2>1. h = IF i >= 0 THEN i \div 10 ELSE -((-i) \div 10)
      BY <1>5 DEF Half
    <2>2. CASE i >= 0
      BY <1>1, <1>3, <2>1, <2>2
    <2>3. CASE ~(i >= 0)
      <3>1. n = -i
        BY <1>1, <2>3
      <3> QED BY <1>3, <2>1, <2>3, <3>1
    <2> QED BY <2>2, <2>3
  <1>7. l = i - 10 * h
    BY <1>5 DEF LastDigit
  <1>8. l = (IF i >= 0 THEN d ELSE -d) /\ h \in Int
    BY <1>1, <1>4, <1>6, <1>7
  <1>9. zero(l) = d
    <2>1. l \in -9 .. 9
      BY <1>4, <1>8
    <2>2. zero(l) = IF l < 0 THEN -l ELSE l
      BY <2>1, zeroIs
    <2> QED BY <1>4, <1>8, <2>2
  <1>10. SizeOf[h] = q
    <2>1. SizeOf[h] = IF h < 0 THEN -h ELSE h
      BY <1>8 DEF SizeOf
    <2> QED BY <1>4, <1>6, <2>1
  <1>11. h = 0 <=> q = 0
    BY <1>4, <1>6
  <1> QED BY <1>2, <1>3, <1>5, <1>8, <1>9, <1>10, <1>11

(* LowToHigh gives the decimal digits of integers.                         *)
LEMMA LowToHighIs == IsDigits(LowToHigh, Int, TenthOf, SizeOf, 10)
  <1> DEFINE Z == [i \in Int |-> SizeOf[i] % 10]
             stop == {i \in Int : SizeOf[i] \div 10 = 0}
             U(f) == f = [i \in Int |-> <<zero(LastDigit(i, 10))>>
                            \o (IF Half(i, 10) = 0 THEN <<>> ELSE f[Half(i, 10)])]
             u == CHOOSE f : U(f)
  <1>1. LowToHigh = u
    BY DEF LowToHigh
  <1>2. /\ TenthOf \in [Int -> Int] /\ SizeOf \in [Int -> Nat] /\ Z \in [Int -> Nat]
        /\ \A i \in Int : TenthOf[i] = Half(i, 10) /\ SizeOf[TenthOf[i]] = SizeOf[i] \div 10
    <2>1. \A i \in Int : Half(i, 10) \in Int /\ SizeOf[i] \in Nat
                         /\ SizeOf[Half(i, 10)] = SizeOf[i] \div 10
      BY LastDigitIs
    <2>2. SizeOf \in [Int -> Nat]
      BY <2>1 DEF SizeOf
    <2>3. TenthOf \in [Int -> Int] /\ \A i \in Int : TenthOf[i] = Half(i, 10)
      BY <2>1 DEF TenthOf
    <2>4. Z \in [Int -> Nat]
      <3>1. \A i \in Int : SizeOf[i] % 10 \in Nat
        BY <2>1
      <3> QED BY <3>1
    <2> QED BY <2>1, <2>2, <2>3, <2>4
  <1>3. ASSUME NEW i \in Int, i \notin stop PROVE SizeOf[TenthOf[i]] < SizeOf[i]
    <2>1. PICK n : n = SizeOf[i]
      OBVIOUS
    <2>2. n \in Nat /\ n \div 10 # 0
      BY <1>2, <1>3, <2>1
    <2>3. n \div 10 < n
      BY <2>2
    <2> QED BY <1>2, <2>1, <2>3
  <1>4. \E f \in [Int -> Seq(Nat)] : \A i \in Int :
            f[i] = <<Z[i]>> \o (IF i \in stop THEN <<>> ELSE f[TenthOf[i]])
    <2> HIDE DEF Z, stop
    <2>1. Lessens(Int, TenthOf, SizeOf, stop)
      BY <1>2, <1>3 DEF Lessens
    <2>2. Z \in [Int -> Nat]
      BY <1>2
    <2>3. PICK f : DigitsOfAll(f, Int, Nat, TenthOf, Z, stop)
      BY <2>1, <2>2, DigitsExist, Zenon
    <2> QED BY <2>3, Zenon DEF DigitsOfAll
  <1>p. PICK f \in [Int -> Seq(Nat)] : \A i \in Int :
            f[i] = <<Z[i]>> \o (IF i \in stop THEN <<>> ELSE f[TenthOf[i]])
    BY <1>4
  <1>5. \A i \in Int : /\ Z[i] = SizeOf[i] % 10
                       /\ i \in stop <=> SizeOf[i] \div 10 = 0
    OBVIOUS
  <1> HIDE DEF Z, stop
  <1>6. U(f)
    <2> DEFINE R == [i \in Int |-> <<zero(LastDigit(i, 10))>>
                            \o (IF Half(i, 10) = 0 THEN <<>> ELSE f[Half(i, 10)])]
    <2>1. ASSUME NEW i \in Int PROVE f[i] = R[i]
      <3>1. R[i] = <<zero(LastDigit(i, 10))>>
                      \o (IF Half(i, 10) = 0 THEN <<>> ELSE f[Half(i, 10)])
        OBVIOUS
      <3> HIDE DEF R
      <3>2. Z[i] = zero(LastDigit(i, 10)) /\ (i \in stop <=> Half(i, 10) = 0)
        BY <1>5, LastDigitIs
      <3> QED BY <1>2, <1>p, <3>1, <3>2
    <2>2. DOMAIN R = Int /\ R = [i \in Int |-> R[i]]
      OBVIOUS
    <2> HIDE DEF R
    <2>3. f = [i \in Int |-> f[i]]
      OBVIOUS
    <2>4. f = R
      BY <2>1, <2>2, <2>3
    <2> QED BY <2>4 DEF R
  <1>7. U(u)
    <2> HIDE DEF U
    <2> QED BY <1>6 DEF u
  <1> HIDE DEF u
  <1>8. ASSUME NEW i \in Int
        PROVE  u[i] = <<SizeOf[i] % 10>>
                        \o (IF SizeOf[i] \div 10 = 0 THEN <<>> ELSE u[TenthOf[i]])
    <2>1. u[i] = <<zero(LastDigit(i, 10))>>
                    \o (IF Half(i, 10) = 0 THEN <<>> ELSE u[Half(i, 10)])
      BY <1>7
    <2> HIDE DEF U
    <2> QED BY <1>2, <2>1, LastDigitIs
  <1>9. u \in [Int -> Seq(Nat)]
    <2>1. Lessens(Int, TenthOf, SizeOf, stop) /\ Z \in [Int -> Nat]
      BY <1>2, <1>3 DEF Lessens
    <2>2. FunctionOn(u, Int)
      BY <1>7 DEF FunctionOn
    <2>3. ASSUME NEW i \in Int
          PROVE  u[i] = <<Z[i]>> \o (IF i \in stop THEN <<>> ELSE u[TenthOf[i]])
      BY <1>5, <1>8
    <2> HIDE DEF U
    <2>4. DigitsOfAll(u, Int, Nat, TenthOf, Z, stop)
      BY <2>1, <2>2, <2>3, DigitsTyped, Zenon
    <2> QED BY <2>4 DEF DigitsOfAll
  <1> HIDE DEF U
  <1>10. IsDigits(u, Int, TenthOf, SizeOf, 10)
    <2>1. ASSUME NEW i \in Int
          PROVE  /\ SizeOf[TenthOf[i]] = SizeOf[i] \div 10
                 /\ u[i] = <<SizeOf[i] % 10>>
                            \o (IF SizeOf[i] \div 10 = 0 THEN <<>> ELSE u[TenthOf[i]])
      BY <1>2, <1>8
    <2>2. 10 \in Nat /\ 10 > 1
      OBVIOUS
    <2>3. TenthOf \in [Int -> Int] /\ SizeOf \in [Int -> Nat]
      BY <1>2
    <2> QED BY <1>9, <2>1, <2>2, <2>3, Zenon DEF IsDigits
  <1> QED BY <1>1, <1>10

(* What is left of a number when its last hexadecimal digit is taken.      *)
SixteenthOf == [i \in Nat |-> i \div 16]
ItsSize == [i \in Nat |-> i]

(* HexLowToHigh gives the hexadecimal digits of numbers.                   *)
LEMMA HexLowToHighIs == IsDigits(HexLowToHigh, Nat, SixteenthOf, ItsSize, 16)
  <1> DEFINE Z == [i \in Nat |-> i % 16]
             stop == {i \in Nat : i \div 16 = 0}
             U(f) == f = [i \in Nat |-> <<i % 16>>
                            \o (IF i \div 16 = 0 THEN <<>> ELSE f[i \div 16])]
             u == CHOOSE f : U(f)
  <1>1. HexLowToHigh = u
    BY DEF HexLowToHigh
  <1>2. /\ SixteenthOf \in [Nat -> Nat] /\ ItsSize \in [Nat -> Nat] /\ Z \in [Nat -> Nat]
        /\ \A i \in Nat : SixteenthOf[i] = i \div 16 /\ ItsSize[i] = i
    <2>1. \A i \in Nat : i \div 16 \in Nat /\ i % 16 \in Nat
      OBVIOUS
    <2> QED BY <2>1 DEF SixteenthOf, ItsSize
  <1>3. ASSUME NEW i \in Nat, i \notin stop PROVE ItsSize[SixteenthOf[i]] < ItsSize[i]
    <2>1. i \div 16 # 0
      BY <1>3
    <2>2. i \div 16 < i /\ i \div 16 \in Nat
      BY <2>1
    <2> QED BY <1>2, <2>2
  <1>4. Lessens(Nat, SixteenthOf, ItsSize, stop) /\ Z \in [Nat -> Nat]
    <2> HIDE DEF Z, stop
    <2> QED BY <1>2, <1>3 DEF Lessens
  <1>5. \A i \in Nat : /\ Z[i] = i % 16
                       /\ i \in stop <=> i \div 16 = 0
    OBVIOUS
  <1> HIDE DEF Z, stop
  <1>6. PICK f : DigitsOfAll(f, Nat, Nat, SixteenthOf, Z, stop)
    BY <1>4, DigitsExist, Zenon
  <1>7. U(f)
    <2> DEFINE R == [i \in Nat |-> <<i % 16>>
                            \o (IF i \div 16 = 0 THEN <<>> ELSE f[i \div 16])]
    <2>1. ASSUME NEW i \in Nat PROVE f[i] = R[i]
      <3>1. R[i] = <<i % 16>> \o (IF i \div 16 = 0 THEN <<>> ELSE f[i \div 16])
        OBVIOUS
      <3> HIDE DEF R
      <3>2. f[i] = <<Z[i]>> \o (IF i \in stop THEN <<>> ELSE f[SixteenthOf[i]])
        BY <1>6 DEF DigitsOfAll
      <3> QED BY <1>2, <1>5, <3>1, <3>2
    <2>2. DOMAIN R = Nat /\ R = [i \in Nat |-> R[i]]
      OBVIOUS
    <2> HIDE DEF R
    <2>3. f = [i \in Nat |-> f[i]]
      BY <1>6 DEF DigitsOfAll
    <2>4. f = R
      BY <2>1, <2>2, <2>3
    <2> QED BY <2>4 DEF R
  <1>8. U(u)
    <2> HIDE DEF U
    <2> QED BY <1>7 DEF u
  <1> HIDE DEF u
  <1>9. ASSUME NEW i \in Nat
        PROVE  u[i] = <<i % 16>> \o (IF i \div 16 = 0 THEN <<>> ELSE u[SixteenthOf[i]])
    <2>1. u[i] = <<i % 16>> \o (IF i \div 16 = 0 THEN <<>> ELSE u[i \div 16])
      BY <1>8
    <2> HIDE DEF U
    <2> QED BY <1>2, <2>1
  <1>10. u \in [Nat -> Seq(Nat)]
    <2>1. FunctionOn(u, Nat)
      BY <1>8 DEF FunctionOn
    <2>2. ASSUME NEW i \in Nat
          PROVE  u[i] = <<Z[i]>> \o (IF i \in stop THEN <<>> ELSE u[SixteenthOf[i]])
      BY <1>5, <1>9
    <2> HIDE DEF U
    <2>3. DigitsOfAll(u, Nat, Nat, SixteenthOf, Z, stop)
      BY <1>4, <2>1, <2>2, DigitsTyped, Zenon
    <2> QED BY <2>3 DEF DigitsOfAll
  <1> HIDE DEF U
  <1>11. IsDigits(u, Nat, SixteenthOf, ItsSize, 16)
    <2>1. ASSUME NEW i \in Nat
          PROVE  /\ ItsSize[SixteenthOf[i]] = ItsSize[i] \div 16
                 /\ u[i] = <<ItsSize[i] % 16>>
                            \o (IF ItsSize[i] \div 16 = 0 THEN <<>> ELSE u[SixteenthOf[i]])
      BY <1>2, <1>9
    <2>2. 16 \in Nat /\ 16 > 1
      OBVIOUS
    <2>3. SixteenthOf \in [Nat -> Nat] /\ ItsSize \in [Nat -> Nat]
      BY <1>2
    <2> QED BY <1>10, <2>1, <2>2, <2>3, Zenon DEF IsDigits
  <1> QED BY <1>1, <1>11

(* The digits are the text of an integer, the highest first after a sign.  *)
LEMMA TextIs ==
    ASSUME NEW n \in Int
    PROVE  /\ LowToHigh[n] \in Seq(Nat) /\ Len(LowToHigh[n]) \in Nat /\ Len(LowToHigh[n]) >= 1
           /\ Reverse(LowToHigh[n]) \in Seq(Nat) /\ Reverse(LowToHigh[n]) \in Seq(Int)
           /\ Len(Reverse(LowToHigh[n])) = Len(LowToHigh[n])
           /\ n < 0 => convert(n) = <<Minus>> \o Reverse(LowToHigh[n])
           /\ n >= 0 => convert(n) = Reverse(LowToHigh[n])
  <1>1. PICK s, w : s = LowToHigh[n] /\ w = Len(s)
    OBVIOUS
  <1>2. PICK d, q, m, r : FirstDigit(LowToHigh, Int, TenthOf, SizeOf, 10, n, d, q, m, r)
    BY LowToHighIs, DigitsSplit, Zenon
  <1>3. s \in Seq(Nat) /\ w = 1 + Len(r) /\ Len(r) \in Nat
    BY <1>1, <1>2 DEF FirstDigit
  <1>4. w \in Nat /\ w >= 1
    BY <1>3
  <1>5. Minus \in Int
    BY DEF Minus
  <1>6. s \in Seq(Int)
    <2>1. s \in [1 .. w -> Nat]
      BY <1>1, <1>3, LenProperties
    <2>2. s \in [1 .. w -> Int]
      BY <2>1
    <2> QED BY <1>4, <2>2
  <1>7. Reverse(s) \in Seq(Nat) /\ Len(Reverse(s)) = w
    <2>1. 0 \in Nat
      OBVIOUS
    <2> QED BY <1>1, <1>3, <2>1, ReverseIs
  <1>8. Reverse(s \o <<Minus>>) = <<Minus>> \o Reverse(s) /\ Reverse(s) \in Seq(Int)
    BY <1>5, <1>6, ReverseIs
  <1>9. s \o <<>> = s
    BY <1>6, ConcatEmptySeq
  <1>10. convert(n) = Reverse(s \o (IF n < 0 THEN <<Minus>> ELSE <<>>))
    BY <1>1 DEF convert, Digits
  <1>11. n < 0 => convert(n) = <<Minus>> \o Reverse(s)
    BY <1>8, <1>10
  <1>12. n >= 0 => convert(n) = Reverse(s)
    <2> SUFFICES ASSUME n >= 0 PROVE convert(n) = Reverse(s)
      OBVIOUS
    <2>1. ~(n < 0)
      OBVIOUS
    <2>2. convert(n) = Reverse(s \o <<>>)
      BY <1>10, <2>1, Zenon
    <2> QED BY <1>9, <2>2, Zenon
  <1>13. /\ s \in Seq(Nat) /\ Len(s) \in Nat /\ Len(s) >= 1
         /\ Reverse(s) \in Seq(Nat) /\ Reverse(s) \in Seq(Int) /\ Len(Reverse(s)) = Len(s)
    BY <1>1, <1>3, <1>4, <1>7, <1>8
  <1> QED BY <1>1, <1>11, <1>12, <1>13, Zenon

(* Of digits, the first one of the text is zero for zero only.             *)
LEMMA FirstNotZero ==
    ASSUME NEW S, NEW f, NEW H, NEW M, NEW b, IsDigits(f, S, H, M, b), NEW n \in S,
           NEW r, r = Reverse(f[n])
    PROVE  /\ r \in Seq(Nat) /\ r # <<>> /\ Head(r) \in Nat /\ Len(r) = Len(f[n])
           /\ Len(r) \in Nat /\ Len(r) >= 1
           /\ Head(r) = 0 => Len(r) = 1
  <1>1. PICK s, w : s = f[n] /\ w = Len(s)
    OBVIOUS
  <1>2. PICK d, q, m, t : FirstDigit(f, S, H, M, b, n, d, q, m, t)
    BY DigitsSplit, Zenon
  <1>3. s \in Seq(Nat) /\ w = 1 + Len(t) /\ Len(t) \in Nat
    BY <1>1, <1>2 DEF FirstDigit
  <1>4. w \in Nat /\ w >= 1 /\ w \in 1 .. w
    BY <1>3
  <1>5. r \in Seq(Nat) /\ Len(r) = w
    <2>1. 0 \in Nat
      OBVIOUS
    <2> QED BY <1>1, <1>3, <2>1, ReverseIs
  <1>6. r = [i \in 1 .. w |-> s[(w - i) + 1]]
    BY <1>1 DEF Reverse
  <1>7. Head(r) = s[w] /\ s[w] \in Nat
    <2>1. 1 \in 1 .. w /\ (w - 1) + 1 = w
      BY <1>4
    <2>2. Head(r) = r[1]
      BY <1>4, <1>5
    <2>3. s[w] \in Nat
      BY <1>1, <1>3, <1>4, ElementOfSeq
    <2> QED BY <1>6, <2>1, <2>2, <2>3
  <1>8. r # <<>>
    BY <1>4, <1>5
  <1>9. ASSUME s[w] = 0 PROVE w = 1
    <2>1. M[n] = 0
      BY <1>1, <1>9, DigitsEnd
    <2>2. M[n] < b
      BY <2>1 DEF IsDigits
    <2>3. AtMost(f, S, M, b, 1)
      BY AtMostOne, Zenon
    <2>4. w <= 1
      BY <1>1, <2>2, <2>3 DEF AtMost
    <2> QED BY <1>4, <2>4
  <1> QED BY <1>1, <1>4, <1>5, <1>7, <1>8, <1>9

(* The text of an integer stands for it and has no zeros in front.         *)
LEMMA convertIs ==
    ASSUME NEW n \in Int
    PROVE  /\ convert(n) # <<>> /\ ValueOf(convert(n), 10) = n
           /\ Head(convert(n)) = 0 => Len(convert(n)) = 1
           /\ Len(convert(n)) = Len(LowToHigh[n]) + (IF n < 0 THEN 1 ELSE 0)
  <1>1. PICK r, t, w : r = Reverse(LowToHigh[n]) /\ t = convert(n) /\ w = Len(r)
    OBVIOUS
  <1>2. /\ r \in Seq(Nat) /\ r \in Seq(Int) /\ Len(LowToHigh[n]) = w /\ w \in Nat
        /\ n < 0 => t = <<Minus>> \o r
        /\ n >= 0 => t = r
    BY <1>1, TextIs
  <1>3. /\ r # <<>> /\ Head(r) \in Nat /\ w >= 1
        /\ Head(r) = 0 => w = 1
    BY <1>1, LowToHighIs, FirstNotZero
  <1>4. Stands(r, 10) = IF n < 0 THEN -n ELSE n
    <2>1. Stands(r, 10) = SizeOf[n]
      BY <1>1, LowToHighIs, DigitsStand
    <2> QED BY <2>1 DEF SizeOf
  <1>5. CASE n < 0
    <2>1. t = <<Minus>> \o r /\ Minus \in Int /\ Minus = -1
      BY <1>2, <1>5 DEF Minus
    <2>2. Head(t) = Minus /\ Tail(t) = r /\ Len(t) = w + 1 /\ t # <<>>
      BY <1>1, <1>2, <2>1
    <2>3. ValueOf(t, 10) = -Stands(r, 10)
      BY <2>2 DEF ValueOf
    <2>4. ValueOf(t, 10) = n
      BY <1>4, <1>5, <2>3
    <2> QED BY <1>1, <1>2, <1>5, <2>1, <2>2, <2>4
  <1>6. CASE ~(n < 0)
    <2>1. t = r
      BY <1>2, <1>6
    <2>2. Head(t) # Minus
      BY <1>3, <2>1 DEF Minus
    <2>3. ValueOf(t, 10) = Stands(r, 10)
      BY <2>1, <2>2 DEF ValueOf
    <2>4. ValueOf(t, 10) = n
      BY <1>4, <1>6, <2>3
    <2> QED BY <1>1, <1>2, <1>3, <1>6, <2>1, <2>4
  <1> QED BY <1>5, <1>6

(* So has the hexadecimal text of a number.                                *)
LEMMA convertHexIs ==
    ASSUME NEW n \in Nat
    PROVE  /\ ValueOf(convertHex(n), 16) = n
           /\ Len(convertHex(n)) = Len(HexLowToHigh[n]) /\ Len(convertHex(n)) \in Nat
  <1>1. PICK r : r = Reverse(HexLowToHigh[n])
    OBVIOUS
  <1>2. convertHex(n) = r
    BY <1>1 DEF convertHex
  <1>3. Head(r) \in Nat /\ Len(r) \in Nat /\ Len(r) = Len(HexLowToHigh[n])
    BY <1>1, HexLowToHighIs, FirstNotZero
  <1>4. Stands(r, 16) = n
    <2>1. Stands(r, 16) = ItsSize[n]
      BY <1>1, HexLowToHighIs, DigitsStand
    <2> QED BY <2>1 DEF ItsSize
  <1>5. Head(r) # Minus
    BY <1>3 DEF Minus
  <1>6. ValueOf(r, 16) = Stands(r, 16)
    BY <1>5 DEF ValueOf
  <1> QED BY <1>2, <1>3, <1>4, <1>6

(* Numbers of so many digits to base 10.                                   *)
LEMMA DecimalAtMost ==
    /\ \E B \in Nat : B >= 1000000000000000000 /\ AtMost(LowToHigh, Int, SizeOf, B * 10, 19)
    /\ AtMost(LowToHigh, Int, SizeOf, 10, 1)
    /\ AtMost(LowToHigh, Int, SizeOf, 100, 2)
    /\ AtMost(LowToHigh, Int, SizeOf, 1000, 3)
    /\ AtMost(LowToHigh, Int, SizeOf, 10000, 4)
  <1> DEFINE L(B, k) == AtMost(LowToHigh, Int, SizeOf, B, k)
             TenTo18 == 1000000000000000000
  <1>0. ASSUME NEW B \in Nat, NEW k \in Nat, k >= 1, L(B, k),
               NEW C, C = B * 10, NEW l, l = k + 1
        PROVE  L(C, l)
    BY <1>0, LowToHighIs, AtMostOneMore
  <1>1. L(10, 1)
    BY LowToHighIs, AtMostOne, SMT
  <1> HIDE DEF L, TenTo18
  <1>2. L(100, 2)
    <2>1. 10 \in Nat /\ 1 \in Nat /\ 1 >= 1
          /\ 100 = 10 * 10 /\ 2 = 1 + 1
      BY SMT
    <2> QED BY <1>0, <1>1, <2>1, SMT
  <1>3. L(1000, 3)
    <2>1. 100 \in Nat /\ 2 \in Nat /\ 2 >= 1
          /\ 1000 = 100 * 10 /\ 3 = 2 + 1
      BY SMT
    <2> QED BY <1>0, <1>2, <2>1, SMT
  <1>4. L(10000, 4)
    <2>1. 1000 \in Nat /\ 3 \in Nat /\ 3 >= 1
          /\ 10000 = 1000 * 10 /\ 4 = 3 + 1
      BY SMT
    <2> QED BY <1>0, <1>3, <2>1, SMT
  <1>5. L(100000, 5)
    <2>1. 10000 \in Nat /\ 4 \in Nat /\ 4 >= 1
          /\ 100000 = 10000 * 10 /\ 5 = 4 + 1
      BY SMT
    <2> QED BY <1>0, <1>4, <2>1, SMT
  <1>6. L(1000000, 6)
    <2>1. 100000 \in Nat /\ 5 \in Nat /\ 5 >= 1
          /\ 1000000 = 100000 * 10 /\ 6 = 5 + 1
      BY SMT
    <2> QED BY <1>0, <1>5, <2>1, SMT
  <1>7. L(10000000, 7)
    <2>1. 1000000 \in Nat /\ 6 \in Nat /\ 6 >= 1
          /\ 10000000 = 1000000 * 10 /\ 7 = 6 + 1
      BY SMT
    <2> QED BY <1>0, <1>6, <2>1, SMT
  <1>8. L(100000000, 8)
    <2>1. 10000000 \in Nat /\ 7 \in Nat /\ 7 >= 1
          /\ 100000000 = 10000000 * 10 /\ 8 = 7 + 1
      BY SMT
    <2> QED BY <1>0, <1>7, <2>1, SMT
  <1>9. L(1000000000, 9)
    <2>1. 100000000 \in Nat /\ 8 \in Nat /\ 8 >= 1
          /\ 1000000000 = 100000000 * 10 /\ 9 = 8 + 1
      BY SMT
    <2> QED BY <1>0, <1>8, <2>1, SMT
  <1>10. L(10000000000, 10)
    <2>1. 1000000000 \in Nat /\ 9 \in Nat /\ 9 >= 1
          /\ 10000000000 = 1000000000 * 10 /\ 10 = 9 + 1
      BY SMT
    <2> QED BY <1>0, <1>9, <2>1, SMT
  <1>11. L(100000000000, 11)
    <2>1. 10000000000 \in Nat /\ 10 \in Nat /\ 10 >= 1
          /\ 100000000000 = 10000000000 * 10 /\ 11 = 10 + 1
      BY SMT
    <2> QED BY <1>0, <1>10, <2>1, SMT
  <1>12. L(1000000000000, 12)
    <2>1. 100000000000 \in Nat /\ 11 \in Nat /\ 11 >= 1
          /\ 1000000000000 = 100000000000 * 10 /\ 12 = 11 + 1
      BY SMT
    <2> QED BY <1>0, <1>11, <2>1, SMT
  <1>13. L(10000000000000, 13)
    <2>1. 1000000000000 \in Nat /\ 12 \in Nat /\ 12 >= 1
          /\ 10000000000000 = 1000000000000 * 10 /\ 13 = 12 + 1
      BY SMT
    <2> QED BY <1>0, <1>12, <2>1, SMT
  <1>14. L(100000000000000, 14)
    <2>1. 10000000000000 \in Nat /\ 13 \in Nat /\ 13 >= 1
          /\ 100000000000000 = 10000000000000 * 10 /\ 14 = 13 + 1
      BY SMT
    <2> QED BY <1>0, <1>13, <2>1, SMT
  <1>15. L(1000000000000000, 15)
    <2>1. 100000000000000 \in Nat /\ 14 \in Nat /\ 14 >= 1
          /\ 1000000000000000 = 100000000000000 * 10 /\ 15 = 14 + 1
      BY SMT
    <2> QED BY <1>0, <1>14, <2>1, SMT
  <1>16. L(10000000000000000, 16)
    <2>1. 1000000000000000 \in Nat /\ 15 \in Nat /\ 15 >= 1
          /\ 10000000000000000 = 1000000000000000 * 10 /\ 16 = 15 + 1
      BY SMT
    <2> QED BY <1>0, <1>15, <2>1, SMT
  <1>17. L(100000000000000000, 17)
    <2>1. 10000000000000000 \in Nat /\ 16 \in Nat /\ 16 >= 1
          /\ 100000000000000000 = 10000000000000000 * 10 /\ 17 = 16 + 1
      BY SMT
    <2> QED BY <1>0, <1>16, <2>1, SMT
  <1>18. L(1000000000000000000, 18)
    <2>1. 100000000000000000 \in Nat /\ 17 \in Nat /\ 17 >= 1
          /\ 1000000000000000000 = 100000000000000000 * 10 /\ 18 = 17 + 1
      BY SMT
    <2> QED BY <1>0, <1>17, <2>1, SMT
  <1>19. L(TenTo18 * 10, 19)
    <2>1. TenTo18 \in Nat /\ 18 \in Nat /\ 18 >= 1 /\ 19 = 18 + 1
      BY SMT DEF TenTo18
    <2>2. L(TenTo18, 18)
      BY <1>18, SMT DEF TenTo18
    <2> QED BY <1>0, <2>1, <2>2, SMT
  <1>20. \E B \in Nat : B >= 1000000000000000000 /\ L(B * 10, 19)
    <2>1. TenTo18 \in Nat /\ TenTo18 >= 1000000000000000000
      BY SMT DEF TenTo18
    <2> QED BY <1>19, <2>1, SMT
  <1> QED BY <1>1, <1>2, <1>3, <1>4, <1>20, SMT DEF L

(* Numbers of so many digits to base 16.                                   *)
LEMMA HexAtMost ==
    /\ \E B \in Nat : B >= 1152921504606846976 /\ AtMost(HexLowToHigh, Nat, ItsSize, B * 16, 16)
  <1> DEFINE L(B, k) == AtMost(HexLowToHigh, Nat, ItsSize, B, k)
             TwoTo60 == 1152921504606846976
  <1>0. ASSUME NEW B \in Nat, NEW k \in Nat, k >= 1, L(B, k),
               NEW C, C = B * 16, NEW l, l = k + 1
        PROVE  L(C, l)
    BY <1>0, HexLowToHighIs, AtMostOneMore
  <1>1. L(16, 1)
    BY HexLowToHighIs, AtMostOne, SMT
  <1> HIDE DEF L, TwoTo60
  <1>2. L(256, 2)
    <2>1. 16 \in Nat /\ 1 \in Nat /\ 1 >= 1
          /\ 256 = 16 * 16 /\ 2 = 1 + 1
      BY SMT
    <2> QED BY <1>0, <1>1, <2>1, SMT
  <1>3. L(4096, 3)
    <2>1. 256 \in Nat /\ 2 \in Nat /\ 2 >= 1
          /\ 4096 = 256 * 16 /\ 3 = 2 + 1
      BY SMT
    <2> QED BY <1>0, <1>2, <2>1, SMT
  <1>4. L(65536, 4)
    <2>1. 4096 \in Nat /\ 3 \in Nat /\ 3 >= 1
          /\ 65536 = 4096 * 16 /\ 4 = 3 + 1
      BY SMT
    <2> QED BY <1>0, <1>3, <2>1, SMT
  <1>5. L(1048576, 5)
    <2>1. 65536 \in Nat /\ 4 \in Nat /\ 4 >= 1
          /\ 1048576 = 65536 * 16 /\ 5 = 4 + 1
      BY SMT
    <2> QED BY <1>0, <1>4, <2>1, SMT
  <1>6. L(16777216, 6)
    <2>1. 1048576 \in Nat /\ 5 \in Nat /\ 5 >= 1
          /\ 16777216 = 1048576 * 16 /\ 6 = 5 + 1
      BY SMT
    <2> QED BY <1>0, <1>5, <2>1, SMT
  <1>7. L(268435456, 7)
    <2>1. 16777216 \in Nat /\ 6 \in Nat /\ 6 >= 1
          /\ 268435456 = 16777216 * 16 /\ 7 = 6 + 1
      BY SMT
    <2> QED BY <1>0, <1>6, <2>1, SMT
  <1>8. L(4294967296, 8)
    <2>1. 268435456 \in Nat /\ 7 \in Nat /\ 7 >= 1
          /\ 4294967296 = 268435456 * 16 /\ 8 = 7 + 1
      BY SMT
    <2> QED BY <1>0, <1>7, <2>1, SMT
  <1>9. L(68719476736, 9)
    <2>1. 4294967296 \in Nat /\ 8 \in Nat /\ 8 >= 1
          /\ 68719476736 = 4294967296 * 16 /\ 9 = 8 + 1
      BY SMT
    <2> QED BY <1>0, <1>8, <2>1, SMT
  <1>10. L(1099511627776, 10)
    <2>1. 68719476736 \in Nat /\ 9 \in Nat /\ 9 >= 1
          /\ 1099511627776 = 68719476736 * 16 /\ 10 = 9 + 1
      BY SMT
    <2> QED BY <1>0, <1>9, <2>1, SMT
  <1>11. L(17592186044416, 11)
    <2>1. 1099511627776 \in Nat /\ 10 \in Nat /\ 10 >= 1
          /\ 17592186044416 = 1099511627776 * 16 /\ 11 = 10 + 1
      BY SMT
    <2> QED BY <1>0, <1>10, <2>1, SMT
  <1>12. L(281474976710656, 12)
    <2>1. 17592186044416 \in Nat /\ 11 \in Nat /\ 11 >= 1
          /\ 281474976710656 = 17592186044416 * 16 /\ 12 = 11 + 1
      BY SMT
    <2> QED BY <1>0, <1>11, <2>1, SMT
  <1>13. L(4503599627370496, 13)
    <2>1. 281474976710656 \in Nat /\ 12 \in Nat /\ 12 >= 1
          /\ 4503599627370496 = 281474976710656 * 16 /\ 13 = 12 + 1
      BY SMT
    <2> QED BY <1>0, <1>12, <2>1, SMT
  <1>14. L(72057594037927936, 14)
    <2>1. 4503599627370496 \in Nat /\ 13 \in Nat /\ 13 >= 1
          /\ 72057594037927936 = 4503599627370496 * 16 /\ 14 = 13 + 1
      BY SMT
    <2> QED BY <1>0, <1>13, <2>1, SMT
  <1>15. L(1152921504606846976, 15)
    <2>1. 72057594037927936 \in Nat /\ 14 \in Nat /\ 14 >= 1
          /\ 1152921504606846976 = 72057594037927936 * 16 /\ 15 = 14 + 1
      BY SMT
    <2> QED BY <1>0, <1>14, <2>1, SMT
  <1>16. L(TwoTo60 * 16, 16)
    <2>1. TwoTo60 \in Nat /\ 15 \in Nat /\ 15 >= 1 /\ 16 = 15 + 1
      BY SMT DEF TwoTo60
    <2>2. L(TwoTo60, 15)
      BY <1>15, SMT DEF TwoTo60
    <2> QED BY <1>0, <2>1, <2>2, SMT
  <1>17. \E B \in Nat : B >= 1152921504606846976 /\ L(B * 16, 16)
    <2>1. TwoTo60 \in Nat /\ TwoTo60 >= 1152921504606846976
      BY SMT DEF TwoTo60
    <2> QED BY <1>16, <2>1, SMT
  <1> QED BY <1>17, SMT DEF L

(* Numbers of 64 bits have up to 19 digits, or up to 16 hexadecimal ones.  *)
LEMMA DigitsOfInt64 ==
    ASSUME NEW n \in Int, InInt64(n)
    PROVE  /\ Len(LowToHigh[n]) <= 19
           /\ n >= 0 => Len(HexLowToHigh[n]) <= 16
  <1>1. PICK m : m = IF n < 0 THEN -(n + 1) ELSE n
    BY SMT
  <1>2. m \in Nat /\ (m \div 1073741824) \div 1073741824 < 8
    BY <1>1, SMT DEF InInt64
  <1>3. PICK x, y, a, c : /\ x = m \div 1073741824 /\ a = m % 1073741824
                          /\ y = x \div 1073741824 /\ c = x % 1073741824
    BY SMT
  <1>4. /\ x \in Int /\ a \in Int /\ a < 1073741824 /\ m = x * 1073741824 + a
        /\ y \in Int /\ c \in Int /\ c < 1073741824 /\ x = y * 1073741824 + c
    BY <1>2, <1>3, SMT
  <1>5. y <= 7
    BY <1>2, <1>3, <1>4, SMT
  <1>6. x <= 8589934591
    BY <1>4, <1>5, SMT
  <1>7. m <= x * 1073741824 + 1073741823
    BY <1>4, SMT
  <1>8. PICK B \in Nat : /\ B >= 1000000000000000000
                         /\ AtMost(LowToHigh, Int, SizeOf, B * 10, 19)
    BY DecimalAtMost, SMT
  <1>9. PICK C \in Nat : /\ C >= 1152921504606846976
                         /\ AtMost(HexLowToHigh, Nat, ItsSize, C * 16, 16)
    BY HexAtMost, SMT
  <1>10. m + 1 < B * 10 /\ m < C * 16
    BY <1>2, <1>4, <1>6, <1>7, <1>8, <1>9, SMT
  <1>11. Len(LowToHigh[n]) <= 19
    <2>1. SizeOf[n] <= m + 1 /\ SizeOf[n] \in Int
      BY <1>1, <1>2, SMT DEF SizeOf
    <2>2. SizeOf[n] < B * 10
      BY <1>2, <1>8, <1>10, <2>1, SMT
    <2> QED BY <1>8, <2>2, SMT DEF AtMost
  <1>12. ASSUME n >= 0 PROVE Len(HexLowToHigh[n]) <= 16
    <2>1. n \in Nat /\ ItsSize[n] = m
      BY <1>1, <1>12, SMT DEF ItsSize
    <2>2. ItsSize[n] < C * 16
      BY <1>10, <2>1, SMT
    <2> QED BY <1>9, <2>1, <2>2, SMT DEF AtMost
  <1> QED BY <1>11, <1>12, SMT

(* Numbers from B on have no less than k digits.                           *)
AtLeast(f, S, M, B, k) == \A i \in S : M[i] >= B => Len(f[i]) >= k

(* One digit more for those from b times as much on.                       *)
LEMMA AtLeastOneMore ==
    ASSUME NEW S, NEW f, NEW H, NEW M, NEW b, IsDigits(f, S, H, M, b),
           NEW B \in Nat, NEW k \in Nat, B >= 1
    PROVE  AtLeast(f, S, M, B, k) => AtLeast(f, S, M, B * b, k + 1)
  <1> SUFFICES ASSUME AtLeast(f, S, M, B, k), NEW i \in S, M[i] >= B * b
               PROVE  Len(f[i]) >= k + 1
    BY DEF AtLeast
  <1>a. PICK d, q, n, r : FirstDigit(f, S, H, M, b, i, d, q, n, r)
    BY DigitsSplit, Zenon
  <1>1. /\ n = M[i] /\ n \in Nat /\ d \in Nat /\ q \in Nat /\ n = q * b + d /\ d < b
        /\ H[i] \in S /\ M[H[i]] = q /\ Len(f[i]) = 1 + Len(r) /\ Len(r) \in Nat
        /\ q # 0 => r = f[H[i]]
    BY <1>a DEF FirstDigit
  <1>2. b \in Nat
    BY DEF IsDigits
  <1>3. q >= B
    <2> SUFFICES ASSUME q < B PROVE FALSE
      BY <1>1
    <2>1. q * b + b <= B * b
      BY <1>1, <1>2, TimesOneMore
    <2>2. PICK x, y : x = B * b /\ y = q * b
      OBVIOUS
    <2>3. x \in Int /\ y \in Int
      BY <1>1, <1>2, <2>2
    <2>4. y + b <= x /\ n = y + d /\ n >= x /\ d < b
      BY <1>1, <2>1, <2>2
    <2> QED BY <1>1, <1>2, <2>3, <2>4
  <1>4. r = f[H[i]] /\ M[H[i]] >= B
    BY <1>1, <1>3
  <1>5. Len(r) >= k
    BY <1>1, <1>4 DEF AtLeast
  <1> QED BY <1>1, <1>5

(* How many digits a number of up to four has.                             *)
LEMMA DigitsOfIs ==
    ASSUME NEW q \in Nat
    PROVE  /\ DigitsOf(q) \in Nat
           /\ q < 1000 => DigitsOf(q) <= 3
           /\ q < 10000 => DigitsOf(q) <= 4
           /\ q >= 100 => DigitsOf(q) >= 3
  <1>1. PICK s : s = LowToHigh[q]
    OBVIOUS
  <1>2. DigitsOf(q) = Len(s) /\ Len(s) \in Nat /\ Len(s) >= 1
    <2>1. q \in Int /\ ~(q < 0)
      OBVIOUS
    <2>2. Len(convert(q)) = Len(s) + 0
      BY <1>1, <2>1, convertIs, Zenon
    <2>3. Len(s) \in Nat /\ Len(s) >= 1
      BY <1>1, <2>1, TextIs
    <2> QED BY <2>2, <2>3 DEF DigitsOf
  <1>3. SizeOf[q] = q /\ q \in Int
    BY DEF SizeOf
  <1>4. (q < 1000 => Len(s) <= 3) /\ (q < 10000 => Len(s) <= 4)
    BY <1>1, <1>3, DecimalAtMost, SMT DEF AtMost
  <1>5. q >= 100 => Len(s) >= 3
    <2> DEFINE L(B, k) == AtLeast(LowToHigh, Int, SizeOf, B, k)
    <2>1. ASSUME NEW B \in Nat, NEW k \in Nat, B >= 1, L(B, k)
          PROVE  L(B * 10, k + 1)
      BY <2>1, LowToHighIs, AtLeastOneMore
    <2>2. L(1, 1)
      <3>1. \A i \in Int : Len(LowToHigh[i]) >= 1
        BY TextIs
      <3> QED BY <3>1 DEF AtLeast
    <2> HIDE DEF L
    <2>3. L(1 * 10, 1 + 1)
      BY <2>1, <2>2
    <2>4. L(10, 2)
      BY <2>3
    <2>5. L(10 * 10, 2 + 1)
      BY <2>1, <2>4
    <2>6. L(100, 3)
      BY <2>5
    <2> QED BY <1>1, <1>3, <2>6 DEF L, AtLeast
  <1> QED BY <1>2, <1>4, <1>5

(* The recursion of Power.                                                 *)
PowerTo(V, b, w) == /\ V \in [0 .. w -> Nat] /\ V[0] = 1
                    /\ \A i \in 1 .. w : V[i] = b * V[i - 1]

(* Power() is what its definition says.                                    *)
LEMMA PowerIs ==
    ASSUME NEW b \in Nat, NEW w \in Nat
    PROVE  \E V : PowerTo(V, b, w) /\ Power(b, w) = V[w]
  <1> DEFINE U(f) == f = [k \in 0 .. w |-> IF k = 0 THEN 1 ELSE b * f[k - 1]]
             u == CHOOSE f : U(f)
             F == [i \in 1 .. w |-> [x \in Nat |-> b * x]]
  <1>1. Power(b, w) = u[w]
    BY DEF Power
  <1>2. F \in [1 .. w -> [Nat -> Nat]]
    <2>1. \A x \in Nat : b * x \in Nat
      OBVIOUS
    <2> QED BY <2>1
  <1>3. PICK V : Applies(V, Nat, 1, F, w)
    <2> HIDE DEF F
    <2> QED BY <1>2, ApplicationsExist
  <1>4. /\ V \in [0 .. w -> Nat] /\ V[0] = 1
        /\ \A i \in 1 .. w : V[i] = F[i][V[i - 1]]
    BY <1>3 DEF Applies
  <1>5. ASSUME NEW i \in 1 .. w PROVE V[i] = b * V[i - 1]
    <2>1. i - 1 \in 0 .. w
      OBVIOUS
    <2> QED BY <1>4, <2>1
  <1>6. U(V)
    <2> DEFINE R == [k \in 0 .. w |-> IF k = 0 THEN 1 ELSE b * V[k - 1]]
    <2>1. ASSUME NEW k \in 0 .. w PROVE V[k] = R[k]
      <3>1. k # 0 => k \in 1 .. w
        OBVIOUS
      <3> QED BY <1>4, <1>5, <3>1
    <2> HIDE DEF R
    <2>2. DOMAIN R = 0 .. w /\ R = [k \in 0 .. w |-> R[k]]
      BY DEF R
    <2>3. V = [k \in 0 .. w |-> V[k]]
      BY <1>4
    <2>4. V = R
      BY <2>1, <2>2, <2>3
    <2> QED BY <2>4 DEF R
  <1>7. U(u)
    <2> HIDE DEF U
    <2> QED BY <1>6 DEF u
  <1> HIDE DEF u
  <1>8. ASSUME NEW k \in 0 .. w PROVE u[k] = IF k = 0 THEN 1 ELSE b * u[k - 1]
    BY <1>7
  <1> DEFINE Bad == {k \in 0 .. w : u[k] # V[k]}
  <1>9. Bad = {}
    <2> SUFFICES ASSUME Bad # {} PROVE FALSE
      OBVIOUS
    <2>1. Bad \subseteq Nat
      OBVIOUS
    <2>2. PICK k \in Bad : \A y \in Bad : ~(y < k)
      <3> HIDE DEF Bad
      <3> QED BY <2>1, LeastNumber
    <2>3. k \in 0 .. w /\ u[k] # V[k]
      BY <2>2
    <2>4. k # 0
      BY <1>4, <1>8, <2>3
    <2>5. k \in 1 .. w /\ k - 1 \in 0 .. w /\ k - 1 < k
      BY <2>3, <2>4
    <2>6. u[k - 1] = V[k - 1]
      BY <2>2, <2>5
    <2> HIDE DEF Bad
    <2> QED BY <1>5, <1>8, <2>3, <2>4, <2>5, <2>6
  <1>10. u[w] = V[w]
    BY <1>9
  <1>11. PowerTo(V, b, w)
    BY <1>4, <1>5 DEF PowerTo
  <1> QED BY <1>1, <1>10, <1>11

(* One factor more.                                                        *)
LEMMA PowerNext ==
    ASSUME NEW b \in Nat, NEW w \in Nat
    PROVE  /\ Power(b, w) \in Nat /\ Power(b, w + 1) = b * Power(b, w)
           /\ Power(b, 0) = 1
  <1>1. PICK V : PowerTo(V, b, w) /\ Power(b, w) = V[w]
    BY PowerIs
  <1>2. PICK X : PowerTo(X, b, w + 1) /\ Power(b, w + 1) = X[w + 1]
    BY PowerIs
  <1>3. /\ V \in [0 .. w -> Nat] /\ V[0] = 1
        /\ \A i \in 1 .. w : V[i] = b * V[i - 1]
    BY <1>1 DEF PowerTo
  <1>4. /\ X[0] = 1
        /\ \A i \in 1 .. w + 1 : X[i] = b * X[i - 1]
    BY <1>2 DEF PowerTo
  <1> DEFINE Bad == {k \in 0 .. w : X[k] # V[k]}
  <1>5. Bad = {}
    <2> SUFFICES ASSUME Bad # {} PROVE FALSE
      OBVIOUS
    <2>1. Bad \subseteq Nat
      OBVIOUS
    <2>2. PICK k \in Bad : \A y \in Bad : ~(y < k)
      <3> HIDE DEF Bad
      <3> QED BY <2>1, LeastNumber
    <2>3. k \in 0 .. w /\ X[k] # V[k]
      BY <2>2
    <2>4. k # 0
      BY <1>3, <1>4, <2>3
    <2>5. k \in 1 .. w /\ k \in 1 .. w + 1 /\ k - 1 \in 0 .. w /\ k - 1 < k
      BY <2>3, <2>4
    <2>6. X[k - 1] = V[k - 1]
      BY <2>2, <2>5
    <2> HIDE DEF Bad
    <2> QED BY <1>3, <1>4, <2>3, <2>5, <2>6
  <1>6. w \in 0 .. w /\ w + 1 \in 1 .. w + 1 /\ w + 1 - 1 = w
    OBVIOUS
  <1>7. X[w] = V[w] /\ V[w] \in Nat
    BY <1>3, <1>5, <1>6
  <1>8. X[w + 1] = b * X[w + 1 - 1]
    BY <1>4, <1>6
  <1>9. Power(b, 0) = 1
    <2>1. PICK W : PowerTo(W, b, 0) /\ Power(b, 0) = W[0]
      BY PowerIs
    <2> QED BY <2>1 DEF PowerTo
  <1> QED BY <1>1, <1>2, <1>6, <1>7, <1>8, <1>9

(* t is w whole units and x of their 2U parts; q is one of the numbers     *)
(* that it is shown as, in units of the last of the digits, s to a unit.   *)
Shows(t, U, places, s, w, x, q) ==
    /\ t \in Nat /\ U \in Nat /\ U > 0 /\ w \in Nat /\ x \in Nat /\ x < 2 * U
    /\ t = w * (2 * U) + x
    /\ s = Power(10, places) /\ s \in Nat /\ s >= 1
    /\ q \in Nearest(t, U, places)

(* How close q is to w whole units and x parts.                            *)
ShownWithin(U, s, w, x, q) ==
    \E e, f, g : /\ e = x * s /\ f = 2 * U * s /\ g = w * s
                 /\ e \in Nat /\ f \in Nat /\ g \in Nat /\ q \in Nat
                 /\ g <= q /\ q <= g + s
                 /\ e + U < f => q < g + s
                 /\ e + U > f => q >= g + s

(* Whatever way it is rounded, q is not further off than that; up to half  *)
(* of the last digit's unit below the next whole one it is below that, and *)
(* above, it is that one.                                                  *)
LEMMA NearestBounds ==
    ASSUME NEW t, NEW U, NEW places, NEW s, NEW w, NEW x, NEW q, Shows(t, U, places, s, w, x, q)
    PROVE  ShownWithin(U, s, w, x, q)
  <1>1. /\ t \in Nat /\ U \in Nat /\ U > 0 /\ w \in Nat /\ x \in Nat /\ x < 2 * U
        /\ t = w * (2 * U) + x
        /\ s = Power(10, places) /\ s \in Nat /\ s >= 1
        /\ q \in Nearest(t, U, places)
    BY DEF Shows
  <1>2. PICK D : D = 2 * U
    OBVIOUS
  <1>3. D \in Nat /\ D > 0 /\ x < D /\ t = w * D + x /\ D = U + U
    BY <1>1, <1>2
  <1>4. t \div D = w /\ t % D = x
    <2>1. PICK y : y = w * D
      OBVIOUS
    <2>2. y \in Nat /\ y <= t /\ t < y + D
      BY <1>1, <1>3, <2>1
    <2>3. t \div D = w
      BY <1>1, <1>3, <2>1, <2>2, QuotientUnique
    <2>4. t = (t \div D) * D + (t % D) /\ t % D \in 0 .. D - 1
      BY <1>1, <1>3, Quotient
    <2>5. t = y + (t % D)
      BY <2>1, <2>3, <2>4
    <2> QED BY <1>1, <1>3, <2>1, <2>2, <2>3, <2>4, <2>5
  <1>5. PICK e, g, f : e = x * s /\ g = w * s /\ f = D * s
    OBVIOUS
  <1>6. e \in Nat /\ g \in Nat /\ f \in Nat
    BY <1>1, <1>3, <1>5
  <1>7. PICK low, over : low = e \div D /\ over = e % D
    OBVIOUS
  <1>8. PICK p : p = low * D
    OBVIOUS
  <1>9. low \in Nat /\ over \in Nat /\ over < D /\ e = p + over /\ p \in Nat
    <2>1. low \in Int /\ over \in 0 .. D - 1 /\ e = low * D + over
      <3>1. e \in Int
        BY <1>6
      <3>2. e \div D \in Int /\ e % D \in 0 .. D - 1 /\ e = (e \div D) * D + (e % D)
        BY <1>3, <3>1, Quotient
      <3> QED BY <1>7, <3>2, Zenon
    <2>2. low >= 0
      <3> SUFFICES ASSUME low < 0 PROVE FALSE
        BY <2>1
      <3>1. low * D + D <= 0 * D
        BY <1>3, <2>1, TimesOneMore
      <3>2. 0 * D = 0 /\ low * D \in Int
        BY <1>3, <2>1
      <3> QED BY <1>3, <1>6, <1>8, <2>1, <3>1, <3>2
    <2>3. low \in Nat
      BY <2>1, <2>2
    <2>4. p \in Nat
      BY <1>3, <1>8, <2>3
    <2> QED BY <1>3, <1>8, <2>1, <2>3, <2>4
  <1>10. /\ q = g + low \/ q = g + low + 1
         /\ q = g + low => over <= U
         /\ q = g + low + 1 => over >= U
    <2>1. t \div (2 * U) = w /\ (t % (2 * U)) * s = e
      BY <1>2, <1>4, <1>5
    <2>2. PICK i \in {low, low + 1} : /\ q = w * s + i
                                      /\ IF i = low THEN over <= U ELSE over >= U
      <3> DEFINE z == Power(10, places)
                 r == (t % (2 * U)) * z
                 l == r \div (2 * U)
                 o == r % (2 * U)
                 ShownAs(i) == IF i = l THEN o <= U ELSE o >= U
      <3>1. l = low /\ o = over /\ z = s
        BY <1>1, <1>2, <1>7, <2>1, Zenon
      <3>2. Nearest(t, U, places) =
                {(t \div (2 * U)) * z + i : i \in {i \in {l, l + 1} : ShownAs(i)}}
        BY Zenon DEF Nearest
      <3> HIDE DEF l, o, z, r
      <3>3. PICK i \in {i \in {l, l + 1} : ShownAs(i)} : q = (t \div (2 * U)) * z + i
        <4> HIDE DEF ShownAs
        <4> QED BY <1>1, <3>2, Zenon
      <3>4. i \in {low, low + 1} /\ (IF i = low THEN over <= U ELSE over >= U)
        BY <3>1, <3>3, Zenon
      <3> QED BY <2>1, <3>1, <3>3, <3>4, Zenon
    <2>3. q = g + i
      BY <1>5, <2>2
    <2>4. low + 1 # low
      BY <1>9
    <2>5. CASE i = low
      BY <1>6, <1>9, <2>2, <2>3, <2>5
    <2>6. CASE i = low + 1
      BY <1>6, <1>9, <2>2, <2>3, <2>4, <2>6
    <2> QED BY <2>2, <2>5, <2>6
  <1>11. e < f
    <2>1. x + 1 <= D /\ x + 1 \in Int /\ D \in Int
      BY <1>1, <1>3
    <2>2. (x + 1) * s <= D * s
      BY <1>1, <2>1, TimesMonotonic
    <2>3. (x + 1) * s = x * s + s
      BY <1>1
    <2> QED BY <1>1, <1>5, <1>6, <2>2, <2>3
  <1>12. low < s
    <2> SUFFICES ASSUME ~(low < s) PROVE FALSE
      OBVIOUS
    <2>1. s <= low
      BY <1>1, <1>9
    <2>2. s * D <= low * D
      BY <1>1, <1>3, <1>9, <2>1, TimesMonotonic
    <2>3. s * D = f
      BY <1>1, <1>3, <1>5
    <2> QED BY <1>6, <1>8, <1>9, <1>11, <2>2, <2>3
  <1>13. low # s - 1 => low + 1 < s /\ p + D + D <= f
    <2> SUFFICES ASSUME low # s - 1 PROVE low + 1 < s /\ p + D + D <= f
      OBVIOUS
    <2>1. low + 1 < s /\ low + 1 \in Int /\ s \in Int
      BY <1>1, <1>9, <1>12
    <2>2. (low + 1) * D + D <= s * D
      BY <1>3, <2>1, TimesOneMore
    <2>3. (low + 1) * D = p + D /\ s * D = f
      BY <1>1, <1>3, <1>5, <1>8, <1>9
    <2> QED BY <2>1, <2>2, <2>3
  <1>14. low = s - 1 => p + D = f
    <2> SUFFICES ASSUME low = s - 1 PROVE p + D = f
      OBVIOUS
    <2>1. s = low + 1
      BY <1>1, <1>9
    <2>2. (low + 1) * D = p + D /\ s * D = f
      BY <1>1, <1>3, <1>5, <1>8, <1>9
    <2> QED BY <2>1, <2>2
  <1>15. q \in Nat /\ g <= q /\ q <= g + s
    BY <1>1, <1>6, <1>9, <1>10, <1>12
  <1>16. ASSUME e + U < f PROVE q < g + s
    <2>1. CASE low = s - 1
      <3>1. over < U
        BY <1>1, <1>3, <1>6, <1>9, <1>14, <1>16, <2>1
      <3> QED BY <1>1, <1>6, <1>9, <1>10, <1>12, <3>1
    <2>2. CASE low # s - 1
      BY <1>1, <1>6, <1>9, <1>10, <1>13, <2>2
    <2> QED BY <2>1, <2>2
  <1>17. ASSUME e + U > f PROVE q >= g + s
    <2>1. CASE low = s - 1
      <3>1. over > U
        BY <1>1, <1>3, <1>6, <1>9, <1>14, <1>17, <2>1
      <3> QED BY <1>1, <1>6, <1>9, <1>10, <2>1, <3>1
    <2>2. CASE low # s - 1
      BY <1>1, <1>3, <1>6, <1>9, <1>13, <1>17, <2>2
    <2> QED BY <2>1, <2>2
  <1>18. f = 2 * U * s
    BY <1>1, <1>2, <1>5
  <1> QED BY <1>5, <1>6, <1>15, <1>16, <1>17, <1>18 DEF ShownWithin

(* What the limits say of n, of which w are whole units.                   *)
LEMMA LimitsAre ==
    ASSUME NEW n \in Nat, NEW U \in Nat, U > 0
    PROVE  \E w, r : /\ w \in Nat /\ r \in Nat /\ r < U /\ n = w * U + r
                     /\ \A whole, num, den :
                            Below(n, U, whole, num, den)
                            <=> (w < whole \/ (w = whole /\ r * den < num * U))
  <1>1. PICK w, r : w = n \div U /\ r = n % U
    OBVIOUS
  <1>2. w \in Int /\ r \in 0 .. U - 1 /\ n = w * U + r
    <2>1. n \in Int
      OBVIOUS
    <2>2. n \div U \in Int /\ n % U \in 0 .. U - 1 /\ n = (n \div U) * U + (n % U)
      BY <2>1, Quotient
    <2> QED BY <1>1, <2>2, Zenon
  <1>3. w >= 0
    <2> SUFFICES ASSUME w < 0 PROVE FALSE
      BY <1>2
    <2>1. w * U + U <= 0 * U
      BY <1>2, TimesOneMore
    <2>2. PICK y : y = w * U
      OBVIOUS
    <2>3. y \in Int /\ 0 * U = 0
      BY <1>2, <2>2
    <2>4. y + U <= 0 /\ n = y + r
      BY <1>2, <2>1, <2>2, <2>3
    <2> QED BY <1>2, <2>3, <2>4
  <1>4. r \in Nat /\ r < U /\ w \in Nat
    BY <1>2, <1>3
  <1>5. ASSUME NEW whole, NEW num, NEW den
        PROVE  Below(n, U, whole, num, den)
               <=> (w < whole \/ (w = whole /\ r * den < num * U))
    BY <1>1, Zenon DEF Below
  <1> QED BY <1>2, <1>4, <1>5

(* What rounds to a thousand units, or to 1024, is that much.              *)
LEMMA PastIs ==
    ASSUME NEW n \in Nat, NEW V \in Nat, V > 0
    PROVE  /\ PastUnit(n, V) => 2 * n >= 1999 * V
           /\ ~BelowNext(n, V) => 2 * n >= 2047 * V
  <1>1. PICK w, r : /\ w \in Nat /\ r \in Nat /\ r < V /\ n = w * V + r
                    /\ \A whole, num, den :
                            Below(n, V, whole, num, den)
                            <=> (w < whole \/ (w = whole /\ r * den < num * V))
    BY LimitsAre
  <1>2. PICK y : y = w * V
    OBVIOUS
  <1>3. y \in Nat /\ n = y + r
    BY <1>1, <1>2
  <1>4. \A m \in Nat : (w >= m => y >= m * V) /\ (w = m => y = m * V)
    <2> SUFFICES ASSUME NEW m \in Nat PROVE (w >= m => y >= m * V) /\ (w = m => y = m * V)
      OBVIOUS
    <2>1. ASSUME w >= m PROVE y >= m * V
      <3>1. m * V <= w * V
        BY <1>1, <2>1, TimesMonotonic
      <3> QED BY <1>1, <1>2, <3>1
    <2> QED BY <1>2, <2>1
  <1>5. ASSUME PastUnit(n, V) PROVE 2 * n >= 1999 * V
    <2>1. w > 999 \/ (w = 999 /\ r * 1000 >= 500 * V)
      <3>1. ~(w < 999 \/ (w = 999 /\ r * 1000 < 500 * V))
        BY <1>1, <1>5 DEF PastUnit
      <3> QED BY <1>1, <3>1
    <2>2. CASE w > 999
      <3>1. y >= 1000 * V
        BY <1>1, <1>4, <2>2
      <3> QED BY <1>1, <1>3, <3>1
    <2>3. CASE w = 999 /\ r * 1000 >= 500 * V
      <3>1. y = 999 * V
        BY <1>4, <2>3
      <3> QED BY <1>1, <1>3, <2>3, <3>1
    <2> QED BY <2>1, <2>2, <2>3
  <1>6. ASSUME ~BelowNext(n, V) PROVE 2 * n >= 2047 * V
    <2>1. w > 1023 \/ (w = 1023 /\ r * 2 >= 1 * V)
      <3>1. ~(w < 1023 \/ (w = 1023 /\ r * 2 < 1 * V))
        BY <1>1, <1>6 DEF BelowNext
      <3> QED BY <1>1, <3>1
    <2>2. CASE w > 1023
      <3>1. y >= 1024 * V
        BY <1>1, <1>4, <2>2
      <3> QED BY <1>1, <1>3, <3>1
    <2>3. CASE w = 1023 /\ r * 2 >= 1 * V
      <3>1. y = 1023 * V
        BY <1>4, <2>3
      <3> QED BY <1>1, <1>3, <2>3, <3>1
    <2> QED BY <2>1, <2>2, <2>3
  <1> QED BY <1>5, <1>6

(* The powers of ten that the places ask for.                              *)
LEMMA PlacesAre == Power(10, 0) = 1 /\ Power(10, 1) = 10 /\ Power(10, 2) = 100
  <1>1. 10 \in Nat /\ 0 \in Nat /\ 1 \in Nat
    OBVIOUS
  <1>2. Power(10, 0) = 1 /\ Power(10, 0 + 1) = 10 * Power(10, 0)
    BY <1>1, PowerNext
  <1>3. Power(10, 1 + 1) = 10 * Power(10, 1)
    BY <1>1, PowerNext
  <1> QED BY <1>2, <1>3

(* A quantity in the unit that is its own is shown with three digits.      *)
LEMMA SIShows ==
    ASSUME NEW n \in Nat, NEW V \in Nat, V > 0, NEW U, U = 1000 * V,
           2 * n >= 1999 * V, ~PastUnit(n, U),
           NEW q \in Nearest(2 * n + 1, U, SIPlaces(n, U))
    PROVE  q \in Nat /\ 100 <= q /\ q <= 999
  <1>1. U \in Nat /\ U > 0
    OBVIOUS
  <1>2. PICK w, r : /\ w \in Nat /\ r \in Nat /\ r < U /\ n = w * U + r
                    /\ \A whole, num, den :
                            Below(n, U, whole, num, den)
                            <=> (w < whole \/ (w = whole /\ r * den < num * U))
    BY <1>1, LimitsAre
  <1>3. PICK x, t : x = 2 * r + 1 /\ t = 2 * n + 1
    OBVIOUS
  <1>4. /\ x \in Nat /\ x < 2 * U /\ t \in Nat /\ t = w * (2 * U) + x
        /\ w = 0 => 2 * r >= 1999 * V
    <2>1. PICK y : y = w * U
      OBVIOUS
    <2>2. y \in Nat /\ n = y + r /\ w * (2 * U) = 2 * y
      BY <1>1, <1>2, <2>1
    <2>3. w = 0 => y = 0
      BY <1>1, <2>1
    <2> QED BY <1>1, <1>2, <1>3, <2>2, <2>3
  <1>5. ASSUME NEW p, NEW s, s = Power(10, p), s \in Nat, s >= 1, q \in Nearest(t, U, p)
        PROVE  ShownWithin(U, s, w, x, q)
    <2>1. Shows(t, U, p, s, w, x, q)
      BY <1>1, <1>2, <1>4, <1>5 DEF Shows
    <2> QED BY <2>1, NearestBounds
  <1>6. w < 999 \/ (w = 999 /\ r < 500 * V)
    <2>1. w < 999 \/ (w = 999 /\ r * 1000 < 500 * U)
      BY <1>2 DEF PastUnit
    <2> QED BY <1>1, <1>2, <2>1
  <1>7. /\ Below(n, U, 9, 995, 1000) <=> (w < 9 \/ (w = 9 /\ r < 995 * V))
        /\ Below(n, U, 99, 950, 1000) <=> (w < 99 \/ (w = 99 /\ r < 950 * V))
    <2>1. /\ r * 1000 < 995 * U <=> r < 995 * V
          /\ r * 1000 < 950 * U <=> r < 950 * V
      BY <1>1, <1>2
    <2> QED BY <1>2, <2>1
  <1>8. q \in Nearest(t, U, SIPlaces(n, U))
    BY <1>3
  <1>9. CASE w < 9 \/ (w = 9 /\ r < 995 * V)
    <2>1. SIPlaces(n, U) = 2
      BY <1>7, <1>9 DEF SIPlaces
    <2>2. PICK e, f, g : /\ e = x * 100 /\ f = 2 * U * 100 /\ g = w * 100
                         /\ e \in Nat /\ f \in Nat /\ g \in Nat /\ q \in Nat
                         /\ g <= q /\ q <= g + 100
                         /\ e + U < f => q < g + 100
                         /\ e + U > f => q >= g + 100
      <3>1. 100 = Power(10, 2) /\ 100 \in Nat /\ 100 >= 1 /\ q \in Nearest(t, U, 2)
        BY <1>8, <2>1, PlacesAre
      <3> QED BY <1>5, <3>1 DEF ShownWithin
    <2>3. w = 9 => e + U < f
      BY <1>2, <1>3, <1>9, <2>2
    <2>4. w = 0 => e + U > f
      BY <1>2, <1>3, <1>4, <2>2
    <2> QED BY <1>2, <1>9, <2>2, <2>3, <2>4
  <1>10. CASE /\ ~(w < 9 \/ (w = 9 /\ r < 995 * V))
              /\ w < 99 \/ (w = 99 /\ r < 950 * V)
    <2>1. SIPlaces(n, U) = 1
      BY <1>7, <1>10 DEF SIPlaces
    <2>2. PICK e, f, g : /\ e = x * 10 /\ f = 2 * U * 10 /\ g = w * 10
                         /\ e \in Nat /\ f \in Nat /\ g \in Nat /\ q \in Nat
                         /\ g <= q /\ q <= g + 10
                         /\ e + U < f => q < g + 10
                         /\ e + U > f => q >= g + 10
      <3>1. 10 = Power(10, 1) /\ 10 \in Nat /\ 10 >= 1 /\ q \in Nearest(t, U, 1)
        BY <1>8, <2>1, PlacesAre
      <3> QED BY <1>5, <3>1 DEF ShownWithin
    <2>3. w = 99 => e + U < f
      BY <1>2, <1>3, <1>10, <2>2
    <2>4. w = 9 => e + U > f
      BY <1>2, <1>3, <1>10, <2>2
    <2> QED BY <1>2, <1>10, <2>2, <2>3, <2>4
  <1>11. CASE ~(w < 99 \/ (w = 99 /\ r < 950 * V))
    <2>1. SIPlaces(n, U) = 0
      <3>1. ~(w < 9 \/ (w = 9 /\ r < 995 * V))
        BY <1>2, <1>11
      <3> QED BY <1>7, <1>11, <3>1 DEF SIPlaces
    <2>2. PICK e, f, g : /\ e = x * 1 /\ f = 2 * U * 1 /\ g = w * 1
                         /\ e \in Nat /\ f \in Nat /\ g \in Nat /\ q \in Nat
                         /\ g <= q /\ q <= g + 1
                         /\ e + U < f => q < g + 1
                         /\ e + U > f => q >= g + 1
      <3>1. 1 = Power(10, 0) /\ 1 \in Nat /\ 1 >= 1 /\ q \in Nearest(t, U, 0)
        BY <1>8, <2>1, PlacesAre
      <3> QED BY <1>5, <3>1 DEF ShownWithin
    <2>3. w = 999 => e + U < f
      BY <1>2, <1>3, <1>6, <2>2
    <2>4. w = 99 => e + U > f
      BY <1>2, <1>3, <1>11, <2>2
    <2> QED BY <1>2, <1>6, <1>11, <2>2, <2>3, <2>4
  <1> QED BY <1>9, <1>10, <1>11

(* One in units of 1024 is shown with three digits, or four without a      *)
(* point.                                                                  *)
LEMMA IECShows ==
    ASSUME NEW n \in Nat, NEW V \in Nat, V > 0, NEW U, U = 1024 * V,
           2 * n >= 2047 * V, BelowNext(n, U),
           NEW q \in Nearest(2 * n, U, IECPlaces(n, U))
    PROVE  /\ q \in Nat /\ 100 <= q /\ q <= 1023
           /\ IECPlaces(n, U) \in Nat
           /\ IECPlaces(n, U) > 0 => q <= 999
  <1>1. U \in Nat /\ U > 0
    OBVIOUS
  <1>2. PICK w, r : /\ w \in Nat /\ r \in Nat /\ r < U /\ n = w * U + r
                    /\ \A whole, num, den :
                            Below(n, U, whole, num, den)
                            <=> (w < whole \/ (w = whole /\ r * den < num * U))
    BY <1>1, LimitsAre
  <1>3. PICK x, t : x = 2 * r /\ t = 2 * n
    OBVIOUS
  <1>4. /\ x \in Nat /\ x < 2 * U /\ t \in Nat /\ t = w * (2 * U) + x
        /\ w = 0 => 2 * r >= 2047 * V
    <2>1. PICK y : y = w * U
      OBVIOUS
    <2>2. y \in Nat /\ n = y + r /\ w * (2 * U) = 2 * y
      BY <1>1, <1>2, <2>1
    <2>3. w = 0 => y = 0
      BY <1>1, <2>1
    <2> QED BY <1>1, <1>2, <1>3, <2>2, <2>3
  <1>5. ASSUME NEW p, NEW s, s = Power(10, p), s \in Nat, s >= 1, q \in Nearest(t, U, p)
        PROVE  ShownWithin(U, s, w, x, q)
    <2>1. Shows(t, U, p, s, w, x, q)
      BY <1>1, <1>2, <1>4, <1>5 DEF Shows
    <2> QED BY <2>1, NearestBounds
  <1>6. w < 1023 \/ (w = 1023 /\ r * 2 < U)
    <2>1. w < 1023 \/ (w = 1023 /\ r * 2 < 1 * U)
      BY <1>2 DEF BelowNext
    <2> QED BY <1>1, <1>2, <2>1
  <1>7. /\ Below(n, U, 9, 995, 1000) <=> (w < 9 \/ (w = 9 /\ r * 1000 < 995 * U))
        /\ Below(n, U, 99, 95, 100) <=> (w < 99 \/ (w = 99 /\ r * 100 < 95 * U))
    BY <1>2
  <1>8. q \in Nearest(t, U, IECPlaces(n, U))
    BY <1>3
  <1>9. CASE w < 9 \/ (w = 9 /\ r * 1000 < 995 * U)
    <2>1. IECPlaces(n, U) = 2
      BY <1>7, <1>9 DEF IECPlaces
    <2>2. PICK e, f, g : /\ e = x * 100 /\ f = 2 * U * 100 /\ g = w * 100
                         /\ e \in Nat /\ f \in Nat /\ g \in Nat /\ q \in Nat
                         /\ g <= q /\ q <= g + 100
                         /\ e + U < f => q < g + 100
                         /\ e + U > f => q >= g + 100
      <3>1. 100 = Power(10, 2) /\ 100 \in Nat /\ 100 >= 1 /\ q \in Nearest(t, U, 2)
        BY <1>8, <2>1, PlacesAre
      <3> QED BY <1>5, <3>1 DEF ShownWithin
    <2>3. w = 9 => e + U < f
      BY <1>1, <1>2, <1>3, <1>9, <2>2
    <2>4. w = 0 => e + U > f
      BY <1>2, <1>3, <1>4, <2>2
    <2> QED BY <1>2, <1>9, <2>1, <2>2, <2>3, <2>4
  <1>10. CASE /\ ~(w < 9 \/ (w = 9 /\ r * 1000 < 995 * U))
              /\ w < 99 \/ (w = 99 /\ r * 100 < 95 * U)
    <2>1. IECPlaces(n, U) = 1
      BY <1>7, <1>10 DEF IECPlaces
    <2>2. PICK e, f, g : /\ e = x * 10 /\ f = 2 * U * 10 /\ g = w * 10
                         /\ e \in Nat /\ f \in Nat /\ g \in Nat /\ q \in Nat
                         /\ g <= q /\ q <= g + 10
                         /\ e + U < f => q < g + 10
                         /\ e + U > f => q >= g + 10
      <3>1. 10 = Power(10, 1) /\ 10 \in Nat /\ 10 >= 1 /\ q \in Nearest(t, U, 1)
        BY <1>8, <2>1, PlacesAre
      <3> QED BY <1>5, <3>1 DEF ShownWithin
    <2>3. w = 99 => e + U < f
      BY <1>1, <1>2, <1>3, <1>10, <2>2
    <2>4. w = 9 => e + U > f
      BY <1>1, <1>2, <1>3, <1>10, <2>2
    <2> QED BY <1>2, <1>10, <2>1, <2>2, <2>3, <2>4
  <1>11. CASE ~(w < 99 \/ (w = 99 /\ r * 100 < 95 * U))
    <2>1. IECPlaces(n, U) = 0
      <3>1. ~(w < 9 \/ (w = 9 /\ r * 1000 < 995 * U))
        BY <1>2, <1>11
      <3> QED BY <1>7, <1>11, <3>1 DEF IECPlaces
    <2>2. PICK e, f, g : /\ e = x * 1 /\ f = 2 * U * 1 /\ g = w * 1
                         /\ e \in Nat /\ f \in Nat /\ g \in Nat /\ q \in Nat
                         /\ g <= q /\ q <= g + 1
                         /\ e + U < f => q < g + 1
                         /\ e + U > f => q >= g + 1
      <3>1. 1 = Power(10, 0) /\ 1 \in Nat /\ 1 >= 1 /\ q \in Nearest(t, U, 0)
        BY <1>8, <2>1, PlacesAre
      <3> QED BY <1>5, <3>1 DEF ShownWithin
    <2>3. w = 1023 => e + U < f
      BY <1>1, <1>2, <1>3, <1>6, <2>2
    <2>4. w = 99 => e + U > f
      BY <1>1, <1>2, <1>3, <1>11, <2>2
    <2> QED BY <1>2, <1>6, <1>11, <2>1, <2>2, <2>3, <2>4
  <1> QED BY <1>9, <1>10, <1>11

(* The first five powers.                                                  *)
LEMMA PowersAre ==
    ASSUME NEW b \in Nat, b > 0
    PROVE  \A k \in 1 .. 5 : /\ Power(b, k - 1) \in Nat /\ Power(b, k - 1) > 0
                             /\ Power(b, k) = b * Power(b, k - 1)
  <1> DEFINE P(k) == Power(b, k)
  <1>1. ASSUME NEW k \in Nat, P(k) \in Nat, P(k) > 0
        PROVE  P(k + 1) = b * P(k) /\ P(k + 1) \in Nat /\ P(k + 1) > 0
    <2>1. P(k + 1) = b * P(k)
      BY PowerNext
    <2> HIDE DEF P
    <2>2. PICK y, z : y = P(k) /\ z = b * y
      OBVIOUS
    <2>3. z \in Nat /\ z >= b
      <3>1. 1 \in Int /\ y \in Int /\ 1 <= y
        BY <1>1, <2>2
      <3>2. 1 * b <= y * b
        BY <3>1, TimesMonotonic
      <3>3. y * b = z /\ 1 * b = b /\ z \in Nat
        BY <2>2, <3>1, <1>1
      <3> QED BY <3>2, <3>3
    <2> QED BY <2>1, <2>2, <2>3
  <1>2. P(0) = 1
    <2>1. 0 \in Nat
      OBVIOUS
    <2> QED BY <2>1, PowerNext
  <1> HIDE DEF P
  <1>3. P(0) \in Nat /\ P(0) > 0
    BY <1>2
  <1>4. P(1) = b * P(0) /\ P(1) \in Nat /\ P(1) > 0
    <2>1. P(0 + 1) = b * P(0) /\ P(0 + 1) \in Nat /\ P(0 + 1) > 0
      BY <1>1, <1>3
    <2> QED BY <2>1
  <1>5. P(2) = b * P(1) /\ P(2) \in Nat /\ P(2) > 0
    <2>1. P(1 + 1) = b * P(1) /\ P(1 + 1) \in Nat /\ P(1 + 1) > 0
      BY <1>1, <1>4
    <2> QED BY <2>1
  <1>6. P(3) = b * P(2) /\ P(3) \in Nat /\ P(3) > 0
    <2>1. P(2 + 1) = b * P(2) /\ P(2 + 1) \in Nat /\ P(2 + 1) > 0
      BY <1>1, <1>5
    <2> QED BY <2>1
  <1>7. P(4) = b * P(3) /\ P(4) \in Nat /\ P(4) > 0
    <2>1. P(3 + 1) = b * P(3) /\ P(3 + 1) \in Nat /\ P(3 + 1) > 0
      BY <1>1, <1>6
    <2> QED BY <2>1
  <1>8. P(5) = b * P(4)
    <2>1. P(4 + 1) = b * P(4)
      BY <1>1, <1>7
    <2> QED BY <2>1
  <1>9. ASSUME NEW k \in 1 .. 5
        PROVE  P(k - 1) \in Nat /\ P(k - 1) > 0 /\ P(k) = b * P(k - 1)
    <2>1. \/ k = 1 /\ k - 1 = 0
          \/ k = 2 /\ k - 1 = 1
          \/ k = 3 /\ k - 1 = 2
          \/ k = 4 /\ k - 1 = 3
          \/ k = 5 /\ k - 1 = 4
      OBVIOUS
    <2> QED BY <1>3, <1>4, <1>5, <1>6, <1>7, <1>8, <2>1
  <1> QED BY <1>9 DEF P

(* The fifth is beyond what a double holds.                                *)
LEMMA FifthIs ==
    ASSUME NEW n \in Nat, InDouble(n)
    PROVE  ~PastUnit(n, Power(1000, 5)) /\ BelowNext(n, Power(1024, 5))
  <1>1. n < 4503599627370496
    <2>1. PICK x, a : x = n \div 1073741824 /\ a = n % 1073741824
      BY SMT
    <2>2. x \in Int /\ a \in Int /\ a < 1073741824 /\ n = x * 1073741824 + a
      BY <2>1, SMT
    <2>3. x <= 4194303
      BY <2>1, <2>2, SMT DEF InDouble
    <2> QED BY <2>2, <2>3, SMT
  <1>2. ASSUME NEW b, b \in {1000, 1024}
        PROVE  Power(b, 5) \in Nat /\ Power(b, 5) >= 1000000000000000
    <2>1. b \in Nat /\ b > 0 /\ b >= 1000
      BY <1>2, SMT
    <2>2. \A k \in 1 .. 5 : /\ Power(b, k - 1) \in Nat /\ Power(b, k - 1) > 0
                            /\ Power(b, k) = b * Power(b, k - 1)
      BY <2>1, PowersAre
    <2>3. /\ Power(b, 1) = b * Power(b, 0) /\ Power(b, 2) = b * Power(b, 1)
          /\ Power(b, 3) = b * Power(b, 2) /\ Power(b, 4) = b * Power(b, 3)
          /\ Power(b, 5) = b * Power(b, 4)
      <3>1. /\ 1 \in 1 .. 5 /\ 2 \in 1 .. 5 /\ 3 \in 1 .. 5 /\ 4 \in 1 .. 5 /\ 5 \in 1 .. 5
            /\ 1 - 1 = 0 /\ 2 - 1 = 1 /\ 3 - 1 = 2 /\ 4 - 1 = 3 /\ 5 - 1 = 4
        BY SMT
      <3> QED BY <2>2, <3>1, SMT
    <2>4. Power(b, 0) = 1
      <3>1. 0 \in Nat
        BY SMT
      <3> QED BY <2>1, <3>1, PowerNext
    <2>5. PICK p1, p2, p3, p4, p5 : /\ p1 = Power(b, 1) /\ p2 = Power(b, 2) /\ p3 = Power(b, 3)
                                    /\ p4 = Power(b, 4) /\ p5 = Power(b, 5)
      BY SMT
    <2>6. /\ p1 = b * 1 /\ p2 = b * p1 /\ p3 = b * p2 /\ p4 = b * p3 /\ p5 = b * p4
      BY <2>3, <2>4, <2>5, SMT
    <2>7. CASE b = 1000
      <3>1. p1 = 1000
        BY <2>6, <2>7, SMT
      <3>2. p2 = 1000000
        BY <2>6, <2>7, <3>1, SMT
      <3>3. p3 = 1000000000
        BY <2>6, <2>7, <3>2, SMT
      <3>4. p4 = 1000000000000
        BY <2>6, <2>7, <3>3, SMT
      <3>5. p5 = 1000000000000000
        BY <2>6, <2>7, <3>4, SMT
      <3> QED BY <2>5, <3>5, SMT
    <2>8. CASE b = 1024
      <3>1. p1 = 1024
        BY <2>6, <2>8, SMT
      <3>2. p2 = 1048576
        BY <2>6, <2>8, <3>1, SMT
      <3>3. p3 = 1073741824
        BY <2>6, <2>8, <3>2, SMT
      <3>4. p4 = 1099511627776
        BY <2>6, <2>8, <3>3, SMT
      <3>5. p5 = 1125899906842624
        BY <2>6, <2>8, <3>4, SMT
      <3> QED BY <2>5, <3>5, SMT
    <2> QED BY <1>2, <2>7, <2>8, SMT
  <1>3. ~PastUnit(n, Power(1000, 5))
    <2> SUFFICES ASSUME PastUnit(n, Power(1000, 5)) PROVE FALSE
      BY SMT
    <2>1. PICK P : P = Power(1000, 5)
      BY SMT
    <2>2. P \in Nat /\ P >= 1000000000000000 /\ P > 0
      BY <1>2, <2>1, SMT
    <2>3. 2 * n >= 1999 * P
      BY <2>1, <2>2, PastIs, SMT
    <2> QED BY <1>1, <2>2, <2>3, SMT
  <1>4. BelowNext(n, Power(1024, 5))
    <2> SUFFICES ASSUME ~BelowNext(n, Power(1024, 5)) PROVE FALSE
      BY SMT
    <2>1. PICK P : P = Power(1024, 5)
      BY SMT
    <2>2. P \in Nat /\ P >= 1000000000000000 /\ P > 0
      BY <1>2, <2>1, SMT
    <2>3. 2 * n >= 2047 * P
      BY <2>1, <2>2, PastIs, SMT
    <2> QED BY <1>1, <2>2, <2>3, SMT
  <1> QED BY <1>3, <1>4, SMT

(* Of units of which the fifth is large enough, the first is chosen.        *)
LEMMA SIUnitIs ==
    ASSUME NEW n \in Nat, InDouble(n)
    PROVE  \E k : /\ k = SIUnit(n) /\ k \in 1 .. 5 /\ ~PastUnit(n, Power(1000, k))
                  /\ k # 1 => PastUnit(n, Power(1000, k - 1))
  <1> DEFINE Enough(k) == ~PastUnit(n, Power(1000, k))
             Is(k) == /\ k = 6 \/ Enough(k)
                      /\ \A j \in 1 .. k - 1 : ~Enough(j)
             K == CHOOSE k \in 1 .. 6 : Is(k)
  <1>0. Enough(5)
    BY FifthIs
  <1>1. SIUnit(n) = K
    BY DEF SIUnit
  <1> HIDE DEF Enough
  <1>2. PICK l \in 1 .. 5 : Enough(l) /\ \A y \in 1 .. 5 : y < l => ~Enough(y)
    <2> DEFINE S == {k \in 1 .. 5 : Enough(k)}
    <2>1. S \subseteq Nat /\ S # {}
      BY <1>0
    <2>2. \A y \in 1 .. 5 : y \in S <=> Enough(y)
      OBVIOUS
    <2>3. S \subseteq 1 .. 5
      OBVIOUS
    <2> HIDE DEF S
    <2>4. PICK l \in S : \A y \in S : ~(y < l)
      BY <2>1, LeastNumber
    <2> QED BY <2>2, <2>3, <2>4
  <1>3. l \in 1 .. 6 /\ Is(l)
    BY <1>2
  <1>4. K \in 1 .. 6 /\ Is(K)
    <2> HIDE DEF Is
    <2> QED BY <1>3
  <1> HIDE DEF K
  <1>5. K # 6
    <2> SUFFICES ASSUME K = 6 PROVE FALSE
      OBVIOUS
    <2>1. 5 \in 1 .. K - 1
      OBVIOUS
    <2> QED BY <1>0, <1>4, <2>1
  <1>6. K \in 1 .. 5 /\ Enough(K)
    BY <1>4, <1>5
  <1>7. K # 1 => ~Enough(K - 1)
    BY <1>4, <1>6
  <1> QED BY <1>1, <1>6, <1>7 DEF Enough

(* So it is of the units of 1024.                                           *)
LEMMA IECUnitIs ==
    ASSUME NEW n \in Nat, InDouble(n)
    PROVE  \E k : /\ k = IECUnit(n) /\ k \in 1 .. 5 /\ BelowNext(n, Power(1024, k))
                  /\ k # 1 => ~BelowNext(n, Power(1024, k - 1))
  <1> DEFINE Enough(k) == BelowNext(n, Power(1024, k))
             Is(k) == /\ k = 6 \/ Enough(k)
                      /\ \A j \in 1 .. k - 1 : ~Enough(j)
             K == CHOOSE k \in 1 .. 6 : Is(k)
  <1>0. Enough(5)
    BY FifthIs
  <1>1. IECUnit(n) = K
    BY DEF IECUnit
  <1> HIDE DEF Enough
  <1>2. PICK l \in 1 .. 5 : Enough(l) /\ \A y \in 1 .. 5 : y < l => ~Enough(y)
    <2> DEFINE S == {k \in 1 .. 5 : Enough(k)}
    <2>1. S \subseteq Nat /\ S # {}
      BY <1>0
    <2>2. \A y \in 1 .. 5 : y \in S <=> Enough(y)
      OBVIOUS
    <2>3. S \subseteq 1 .. 5
      OBVIOUS
    <2> HIDE DEF S
    <2>4. PICK l \in S : \A y \in S : ~(y < l)
      BY <2>1, LeastNumber
    <2> QED BY <2>2, <2>3, <2>4
  <1>3. l \in 1 .. 6 /\ Is(l)
    BY <1>2
  <1>4. K \in 1 .. 6 /\ Is(K)
    <2> HIDE DEF Is
    <2> QED BY <1>3
  <1> HIDE DEF K
  <1>5. K # 6
    <2> SUFFICES ASSUME K = 6 PROVE FALSE
      OBVIOUS
    <2>1. 5 \in 1 .. K - 1
      OBVIOUS
    <2> QED BY <1>0, <1>4, <2>1
  <1>6. K \in 1 .. 5 /\ Enough(K)
    BY <1>4, <1>5
  <1>7. K # 1 => ~Enough(K - 1)
    BY <1>4, <1>6
  <1> QED BY <1>1, <1>6, <1>7 DEF Enough

(* A quantity is short.                                                    *)
LEMMA SIRight ==
    ASSUME NEW n \in Nat, InDouble(n), NEW q \in formatSI(n).shown
    PROVE  Length(formatSI(n), q, 1) <= 5 /\ (n >= 1000 => DigitsOf(q) = 3)
  <1>1. CASE n < 1000
    <2>1. formatSI(n) = [unit |-> 0, places |-> 0, shown |-> {n}]
      BY <1>1 DEF formatSI
    <2>2. q = n
      BY <2>1
    <2>3. Length(formatSI(n), q, 1) = DigitsOf(q) + 0 + 0
      BY <2>1 DEF Length
    <2> QED BY <1>1, <2>2, <2>3, DigitsOfIs
  <1>2. CASE ~(n < 1000)
    <2>1. PICK k : /\ k = SIUnit(n) /\ k \in 1 .. 5 /\ ~PastUnit(n, Power(1000, k))
                   /\ k # 1 => PastUnit(n, Power(1000, k - 1))
      BY SIUnitIs
    <2>2. PICK U, V : U = Power(1000, k) /\ V = Power(1000, k - 1)
      OBVIOUS
    <2>3. U = 1000 * V /\ V \in Nat /\ V > 0
      <3>1. 1000 \in Nat /\ 1000 > 0
        OBVIOUS
      <3>2. \A j \in 1 .. 5 : /\ Power(1000, j - 1) \in Nat /\ Power(1000, j - 1) > 0
                              /\ Power(1000, j) = 1000 * Power(1000, j - 1)
        BY <3>1, PowersAre
      <3> QED BY <2>1, <2>2, <3>2
    <2>4. 2 * n >= 1999 * V
      <3>1. CASE k = 1
        <4>1. V = 1
          <5>1. 0 \in Nat /\ 1000 \in Nat /\ k - 1 = 0
            BY <3>1
          <5> QED BY <2>2, <5>1, PowerNext
        <4> QED BY <1>2, <4>1
      <3>2. CASE k # 1
        BY <2>1, <2>2, <2>3, <3>2, PastIs
      <3> QED BY <3>1, <3>2
    <2>5. PICK p : p = SIPlaces(n, U)
      OBVIOUS
    <2>6. formatSI(n) = [unit |-> k, places |-> p, shown |-> Nearest(2 * n + 1, U, p)]
      <3>1. k # 6
        BY <2>1
      <3> QED BY <1>2, <2>1, <2>2, <2>5, <3>1 DEF formatSI
    <2>7. q \in Nearest(2 * n + 1, U, SIPlaces(n, U))
      BY <2>5, <2>6
    <2>8. q \in Nat /\ 100 <= q /\ q <= 999
      BY <2>1, <2>2, <2>3, <2>4, <2>7, SIShows
    <2>9. DigitsOf(q) = 3
      BY <2>8, DigitsOfIs
    <2>10. Length(formatSI(n), q, 1)
             = DigitsOf(q) + (IF p > 0 THEN 1 ELSE 0) + (IF k > 0 THEN 1 ELSE 0)
      BY <2>6 DEF Length
    <2> QED BY <2>9, <2>10
  <1> QED BY <1>1, <1>2

(* So it is in units of 1024.                                              *)
LEMMA IECRight ==
    ASSUME NEW n \in Nat, InDouble(n), NEW q \in formatIEC(n).shown
    PROVE  Length(formatIEC(n), q, 2) <= 6 /\ (n >= 1024 => DigitsOf(q) \in {3, 4})
  <1>1. CASE n < 1024
    <2>1. formatIEC(n) = [unit |-> 0, places |-> 0, shown |-> {n}]
      BY <1>1 DEF formatIEC
    <2>2. q = n
      BY <2>1
    <2>3. Length(formatIEC(n), q, 2) = DigitsOf(q) + 0 + 0
      BY <2>1 DEF Length
    <2>4. DigitsOf(n) \in Nat /\ DigitsOf(n) <= 4
      BY <1>1, DigitsOfIs
    <2> QED BY <1>1, <2>2, <2>3, <2>4
  <1>2. CASE ~(n < 1024)
    <2>1. PICK k : /\ k = IECUnit(n) /\ k \in 1 .. 5 /\ BelowNext(n, Power(1024, k))
                   /\ k # 1 => ~BelowNext(n, Power(1024, k - 1))
      BY IECUnitIs
    <2>2. PICK U, V : U = Power(1024, k) /\ V = Power(1024, k - 1)
      OBVIOUS
    <2>3. U = 1024 * V /\ V \in Nat /\ V > 0
      <3>1. 1024 \in Nat /\ 1024 > 0
        OBVIOUS
      <3>2. \A j \in 1 .. 5 : /\ Power(1024, j - 1) \in Nat /\ Power(1024, j - 1) > 0
                              /\ Power(1024, j) = 1024 * Power(1024, j - 1)
        BY <3>1, PowersAre
      <3> QED BY <2>1, <2>2, <3>2
    <2>4. 2 * n >= 2047 * V
      <3>1. CASE k = 1
        <4>1. V = 1
          <5>1. 0 \in Nat /\ 1024 \in Nat /\ k - 1 = 0
            BY <3>1
          <5> QED BY <2>2, <5>1, PowerNext
        <4> QED BY <1>2, <4>1
      <3>2. CASE k # 1
        BY <2>1, <2>2, <2>3, <3>2, PastIs
      <3> QED BY <3>1, <3>2
    <2>5. PICK p : p = IECPlaces(n, U)
      OBVIOUS
    <2>6. formatIEC(n) = [unit |-> k, places |-> p, shown |-> Nearest(2 * n, U, p)]
      <3>1. k < 6
        BY <2>1
      <3> QED BY <1>2, <2>1, <2>2, <2>5, <3>1 DEF formatIEC
    <2>7. q \in Nearest(2 * n, U, IECPlaces(n, U))
      BY <2>5, <2>6
    <2>8. q \in Nat /\ 100 <= q /\ q <= 1023 /\ p \in Nat /\ (p > 0 => q <= 999)
      BY <2>1, <2>2, <2>3, <2>4, <2>5, <2>7, IECShows
    <2>9. /\ DigitsOf(q) \in Nat /\ DigitsOf(q) >= 3 /\ DigitsOf(q) <= 4
          /\ p > 0 => DigitsOf(q) <= 3
      BY <2>8, DigitsOfIs
    <2>10. Length(formatIEC(n), q, 2)
             = DigitsOf(q) + (IF p > 0 THEN 1 ELSE 0) + (IF k > 0 THEN 2 ELSE 0)
      BY <2>6 DEF Length
    <2> QED BY <2>1, <2>8, <2>9, <2>10
  <1> QED BY <1>1, <1>2

(* Of the number, it is known that it is one of those to be converted.     *)
NumInv == /\ number.value \in Int /\ InInt64(number.value)
          /\ number.quantity => number.value \in Nat /\ InDouble(number.value)

(* A quantity has 64 bits.                                                 *)
LEMMA DoubleInInt64 ==
    ASSUME NEW n \in Nat, InDouble(n)
    PROVE  InInt64(n)
  <1>1. PICK x : x = n \div 1073741824
    BY SMT
  <1>2. x \in Int /\ x < 4194304
    BY <1>1, SMT DEF InDouble
  <1>3. x \div 1073741824 < 8
    BY <1>2, SMT
  <1>4. ~(n < 0)
    BY SMT
  <1> QED BY <1>1, <1>3, <1>4, SMT DEF InInt64

(* It is one of them from the start.                                       *)
LEMMA NumbersBegin == FormattingInit => NumInv
  <1> SUFFICES ASSUME FormattingInit PROVE NumInv
    OBVIOUS
  <1>1. \/ number \in [value : Numbers, quantity : {FALSE}]
        \/ number \in [value : Quantities, quantity : {TRUE}]
    BY DEF FormattingInit
  <1>2. CASE number \in [value : Numbers, quantity : {FALSE}]
    <2>1. number.value \in Numbers /\ ~number.quantity
      BY <1>2
    <2>2. number.value \in Int /\ InInt64(number.value)
      BY <2>1, FormattingAssumption, Zenon
    <2> QED BY <2>1, <2>2 DEF NumInv
  <1>3. CASE number \in [value : Quantities, quantity : {TRUE}]
    <2>1. number.value \in Quantities
      BY <1>3
    <2>2. number.value \in Nat /\ InDouble(number.value)
      BY <2>1, FormattingAssumption, Zenon
    <2>3. InInt64(number.value) /\ number.value \in Int
      BY <2>2, DoubleInInt64, SMT
    <2> QED BY <2>2, <2>3 DEF NumInv
  <1> QED BY <1>1, <1>2, <1>3

(* It is not changed.                                                      *)
LEMMA NumbersKept == NumInv /\ UNCHANGED number => NumInv'
  BY Zenon DEF NumInv

(* An integer of 64 bits fits the room for it with its end.                *)
LEMMA ConvertFits ==
    ASSUME NEW n \in Int, InInt64(n)
    PROVE  Len(convert(n)) \in 1 .. kMaxNumericSize - 1
  <1>1. kMaxNumericSize \in Nat /\ kMaxNumericSize > 20
    BY FormattingAssumption, Zenon
  <1>2. PICK w, l : w = Len(LowToHigh[n]) /\ l = Len(convert(n))
    OBVIOUS
  <1>3. l = w + (IF n < 0 THEN 1 ELSE 0)
    BY <1>2, convertIs, Zenon
  <1>4. w \in Nat /\ w >= 1 /\ w <= 19
    BY <1>2, TextIs, DigitsOfInt64
  <1>5. l \in 1 .. kMaxNumericSize - 1
    <2>1. l = w \/ l = w + 1
      BY <1>3, <1>4
    <2> QED BY <1>1, <1>4, <2>1
  <1> QED BY <1>2, <1>5

(* Its texts are right.                                                    *)
LEMMA NumbersHold == NumInv => NumbersRight
  <1> SUFFICES ASSUME NumInv PROVE NumbersRight
    OBVIOUS
  <1>1. PICK n : n = number.value
    OBVIOUS
  <1>2. /\ n \in Int /\ InInt64(n)
        /\ number.quantity => n \in Nat /\ InDouble(n)
    BY <1>1, Zenon DEF NumInv
  <1>3. kMaxNumericSize \in Nat /\ kMaxNumericSize > 20
    BY FormattingAssumption, Zenon
  <1>4. PICK w, l : w = Len(LowToHigh[n]) /\ l = Len(convert(n))
    OBVIOUS
  <1>5. /\ convert(n) # <<>> /\ ValueOf(convert(n), 10) = n
        /\ Head(convert(n)) = 0 => l = 1
        /\ l = w + (IF n < 0 THEN 1 ELSE 0)
    BY <1>2, <1>4, convertIs, Zenon
  <1>6. l < kMaxNumericSize
    <2>1. Len(convert(n)) \in 1 .. kMaxNumericSize - 1
      BY <1>2, ConvertFits
    <2> QED BY <1>3, <1>4, <2>1
  <1>7. ASSUME n >= 0
        PROVE  ValueOf(convertHex(n), 16) = n /\ Len(convertHex(n)) + 2 < kMaxNumericSize
    <2>1. n \in Nat
      BY <1>2, <1>7
    <2>2. PICK h : h = Len(convertHex(n))
      OBVIOUS
    <2>3. ValueOf(convertHex(n), 16) = n /\ h = Len(HexLowToHigh[n]) /\ h \in Nat
      BY <2>1, <2>2, convertHexIs, Zenon
    <2>4. h <= 16
      BY <1>2, <1>7, <2>3, DigitsOfInt64
    <2> QED BY <1>3, <2>2, <2>3, <2>4
  <1>8. ASSUME number.quantity
        PROVE  /\ \A q \in formatSI(n).shown :
                    /\ Length(formatSI(n), q, 1) <= 5
                    /\ n >= 1000 => DigitsOf(q) = 3
               /\ \A q \in formatIEC(n).shown :
                    /\ Length(formatIEC(n), q, 2) <= 6
                    /\ n >= 1024 => DigitsOf(q) \in {3, 4}
    <2>1. n \in Nat /\ InDouble(n)
      BY <1>2, <1>8, Zenon
    <2>2. ASSUME NEW q \in formatSI(n).shown
          PROVE  Length(formatSI(n), q, 1) <= 5 /\ (n >= 1000 => DigitsOf(q) = 3)
      BY <2>1, SIRight
    <2>3. ASSUME NEW q \in formatIEC(n).shown
          PROVE  Length(formatIEC(n), q, 2) <= 6 /\ (n >= 1024 => DigitsOf(q) \in {3, 4})
      BY <2>1, IECRight
    <2> QED BY <2>2, <2>3
  <1>9. NumbersRight <=>
            /\ convert(n) # <<>> /\ ValueOf(convert(n), 10) = n
            /\ Head(convert(n)) = 0 => Len(convert(n)) = 1
            /\ Len(convert(n)) < kMaxNumericSize
            /\ n >= 0 => ValueOf(convertHex(n), 16) = n
                          /\ Len(convertHex(n)) + 2 < kMaxNumericSize
            /\ number.quantity =>
                /\ \A q \in formatSI(n).shown :
                    /\ Length(formatSI(n), q, 1) <= 5
                    /\ n >= 1000 => DigitsOf(q) = 3
                /\ \A q \in formatIEC(n).shown :
                    /\ Length(formatIEC(n), q, 2) <= 6
                    /\ n >= 1024 => DigitsOf(q) \in {3, 4}
    BY <1>1 DEF NumbersRight
  <1> QED BY <1>4, <1>5, <1>6, <1>7, <1>8, <1>9

----------------------------------------------------------------------------
(* Dates.                                                                  *)

(* Days of a March year before a month, months from March on.              *)
Before(m) == (153 * m + 2) \div 5

(* What they are.                                                          *)
LEMMA BeforeIs ==
    /\ Before(0) = 0 /\ Before(1) = 31 /\ Before(2) = 61 /\ Before(3) = 92
    /\ Before(4) = 122 /\ Before(5) = 153 /\ Before(6) = 184 /\ Before(7) = 214
    /\ Before(8) = 245 /\ Before(9) = 275 /\ Before(10) = 306 /\ Before(11) = 337
    /\ Before(12) = 367
  BY DEF Before

(* The parts of a day's number: its March year, the centuries and what is  *)
(* left of it, its month from March on and its day from the first of March.*)
MarchYear(y, m) == IF m <= 2 THEN y + 4799 ELSE y + 4800
MarchMonth(m) == IF m <= 2 THEN m + 9 ELSE m - 3

(* The number of a day of a month of a March year.                         *)
NumberOf(d, x, w) ==
    d + Before(x) + w * 365 + w \div 4 - w \div 100 + w \div 400 - 32045

(* A March year begins after its February.                                 *)
LEMMA NumberIs ==
    ASSUME NEW y \in Nat, NEW m \in 1 .. 12, NEW d \in Nat
    PROVE  /\ getJulianDayNumber(y, m, d) = NumberOf(d, MarchMonth(m), MarchYear(y, m))
           /\ MarchYear(y, m) \in Nat /\ MarchMonth(m) \in 0 .. 11
  <1>1. (14 - m) \div 12 = IF m <= 2 THEN 1 ELSE 0
    OBVIOUS
  <1>2. y + 4800 - (14 - m) \div 12 = MarchYear(y, m)
    BY <1>1 DEF MarchYear
  <1>3. m + 12 * ((14 - m) \div 12) - 3 = MarchMonth(m)
    BY <1>1 DEF MarchMonth
  <1>4. getJulianDayNumber(y, m, d) =
            d + (153 * (m + 12 * ((14 - m) \div 12) - 3) + 2) \div 5
              + (y + 4800 - (14 - m) \div 12) * 365 + (y + 4800 - (14 - m) \div 12) \div 4
              - (y + 4800 - (14 - m) \div 12) \div 100
              + (y + 4800 - (14 - m) \div 12) \div 400 - 32045
    BY DEF getJulianDayNumber
  <1>5. MarchYear(y, m) \in Nat /\ MarchMonth(m) \in 0 .. 11
    BY DEF MarchYear, MarchMonth
  <1> QED BY <1>2, <1>3, <1>4, <1>5 DEF Before, NumberOf

(* A year is r of a century c, which are q and p times four and a rest.    *)
Split(w, c, r, q, s, p, t) ==
    /\ w \in Nat /\ c \in Nat /\ r \in 0 .. 99 /\ q \in Nat /\ s \in 0 .. 3
    /\ p \in Nat /\ t \in 0 .. 3 /\ w = 100 * c + r /\ c = 4 * q + s /\ r = 4 * p + t

(* It can be said so.                                                      *)
LEMMA CanSplit ==
    ASSUME NEW w \in Nat
    PROVE  \E c, r, q, s, p, t : Split(w, c, r, q, s, p, t)
  <1>1. PICK c \in Nat, r \in 0 .. 99 : w = 100 * c + r
    <2>1. w \div 100 \in Int /\ w % 100 \in 0 .. 100 - 1
          /\ w = (w \div 100) * 100 + (w % 100)
      BY Quotient
    <2>2. w \div 100 \in Nat /\ w % 100 \in 0 .. 99
      BY <2>1
    <2> QED BY <2>1, <2>2
  <1>2. PICK q \in Nat, s \in 0 .. 3 : c = 4 * q + s
    <2>1. c \div 4 \in Int /\ c % 4 \in 0 .. 4 - 1
          /\ c = (c \div 4) * 4 + (c % 4)
      BY <1>1, Quotient
    <2>2. c \div 4 \in Nat /\ c % 4 \in 0 .. 3
      BY <1>1, <2>1
    <2> QED BY <2>1, <2>2
  <1>3. PICK p \in Nat, t \in 0 .. 3 : r = 4 * p + t
    <2>1. r \div 4 \in Int /\ r % 4 \in 0 .. 4 - 1
          /\ r = (r \div 4) * 4 + (r % 4)
      BY <1>1, Quotient
    <2>2. r \div 4 \in Nat /\ r % 4 \in 0 .. 3
      BY <1>1, <2>1
    <2> QED BY <2>1, <2>2
  <1>4. Split(w, c, r, q, s, p, t)
    BY <1>1, <1>2, <1>3 DEF Split
  <1> QED BY <1>4

(* Leap years up to it.                                                    *)
LEMMA Centuries ==
    ASSUME NEW y, NEW c, NEW r, NEW q, NEW s, NEW p, NEW t, Split(y, c, r, q, s, p, t)
    PROVE  y \div 4 = 25 * c + p /\ y \div 100 = c /\ y \div 400 = q
  <1>1. /\ y \in Nat /\ c \in Nat /\ r \in 0 .. 99 /\ q \in Nat /\ s \in 0 .. 3
        /\ p \in Nat /\ t \in 0 .. 3 /\ y = 100 * c + r /\ c = 4 * q + s /\ r = 4 * p + t
    BY DEF Split
  <1>4. y \div 100 = c
    <2>1. c * 100 <= y /\ y < c * 100 + 100
      BY <1>1
    <2> QED BY <1>1, <2>1, QuotientUnique
  <1>5. y \div 4 = 25 * c + p
    <2>1. (25 * c + p) * 4 <= y /\ y < (25 * c + p) * 4 + 4 /\ 25 * c + p \in Int
      BY <1>1
    <2> QED BY <1>1, <2>1, QuotientUnique
  <1>6. y \div 400 = q
    <2>1. q * 400 <= y /\ y < q * 400 + 400
      BY <1>1
    <2> QED BY <1>1, <2>1, QuotientUnique
  <1> QED BY <1>4, <1>5, <1>6

(* The days before a day, which is n days after the first of March.        *)
DaysBefore(a, c, r, q, p, n) == a = 36524 * c + q + 365 * r + p + n

(* Only a leap year has a last of 366 days.                                *)
DayOfYear(n, r, s, t) == n \in 0 .. 365 /\ (n = 365 => t = 3 /\ (r = 99 => s = 3))

(* How they are taken apart.                                               *)
Parted(a, c, r, p, n) ==
    /\ (4 * a + 3) \div 146097 = c
    /\ a - (c * 146097) \div 4 = 365 * r + p + n
    /\ (4 * (365 * r + p + n) + 3) \div 1461 = r
    /\ (365 * r + p + n) - (1461 * r) \div 4 = n

(* They are taken apart again.                                             *)
LEMMA TakenApart ==
    ASSUME NEW y, NEW c, NEW r, NEW q, NEW s, NEW p, NEW t, Split(y, c, r, q, s, p, t),
           NEW n, DayOfYear(n, r, s, t), NEW a \in Nat, DaysBefore(a, c, r, q, p, n)
    PROVE  Parted(a, c, r, p, n)
  <1>n. n \in 0 .. 365 /\ (n = 365 => t = 3 /\ (r = 99 => s = 3))
    BY DEF DayOfYear
  <1>0. /\ c \in Nat /\ r \in 0 .. 99 /\ q \in Nat /\ s \in 0 .. 3
        /\ p \in Nat /\ t \in 0 .. 3 /\ c = 4 * q + s /\ r = 4 * p + t
        /\ a = 36524 * c + q + 365 * r + p + n
    BY DEF Split, DaysBefore
  <1>1. (4 * a + 3) \div 146097 = c
    <2>1. c * 146097 <= 4 * a + 3 /\ 4 * a + 3 < c * 146097 + 146097
      BY <1>n, <1>0
    <2> QED BY <1>n, <1>0, <2>1, QuotientUnique
  <1>2. (c * 146097) \div 4 = 36524 * c + q
    <2>1. /\ 36524 * c + q \in Int /\ (36524 * c + q) * 4 <= c * 146097
          /\ c * 146097 < (36524 * c + q) * 4 + 4
      BY <1>n, <1>0
    <2> QED BY <1>n, <1>0, <2>1, QuotientUnique
  <1>3. (4 * (365 * r + p + n) + 3) \div 1461 = r
    <2>1. /\ r * 1461 <= 4 * (365 * r + p + n) + 3
          /\ 4 * (365 * r + p + n) + 3 < r * 1461 + 1461
      BY <1>n, <1>0
    <2> QED BY <1>n, <1>0, <2>1, QuotientUnique
  <1>4. (1461 * r) \div 4 = 365 * r + p
    <2>1. /\ 365 * r + p \in Int /\ (365 * r + p) * 4 <= 1461 * r
          /\ 1461 * r < (365 * r + p) * 4 + 4
      BY <1>n, <1>0
    <2> QED BY <1>n, <1>0, <2>1, QuotientUnique
  <1>5. a - (c * 146097) \div 4 = 365 * r + p + n
    BY <1>n, <1>0, <1>2
  <1>6. (365 * r + p + n) - (1461 * r) \div 4 = n
    BY <1>n, <1>0, <1>4
  <1> QED BY <1>1, <1>3, <1>5, <1>6 DEF Parted

(* A month has such a day, and how many days that is after the first of    *)
(* March; the month again.                                                 *)
MonthHas(x, d) == d >= 1 /\ d <= 31 /\ d <= Before(x + 1) - Before(x)
AfterMarch(x, d) == d + Before(x) - 1
MonthOf(n) == (5 * n + 2) \div 153

(* These days are taken apart into month and day.                          *)
LEMMA MonthIs ==
    ASSUME NEW m \in 0 .. 11, NEW d \in Nat, MonthHas(m, d)
    PROVE  MonthOf(AfterMarch(m, d)) = m /\ Before(m) \in Nat
  <1>0. d >= 1 /\ d <= 31 /\ d <= Before(m + 1) - Before(m)
    BY DEF MonthHas
  <1>1. m \in {0, 1, 2, 3, 4, 5, 6, 7, 8, 9, 10, 11}
    OBVIOUS
  <1>2. PICK b \in Nat, e \in Nat :
           /\ b = Before(m) /\ e = Before(m + 1)
           /\ \/ m = 0 /\ b = 0 /\ e = 31
              \/ m = 1 /\ b = 31 /\ e = 61
              \/ m = 2 /\ b = 61 /\ e = 92
              \/ m = 3 /\ b = 92 /\ e = 122
              \/ m = 4 /\ b = 122 /\ e = 153
              \/ m = 5 /\ b = 153 /\ e = 184
              \/ m = 6 /\ b = 184 /\ e = 214
              \/ m = 7 /\ b = 214 /\ e = 245
              \/ m = 8 /\ b = 245 /\ e = 275
              \/ m = 9 /\ b = 275 /\ e = 306
              \/ m = 10 /\ b = 306 /\ e = 337
              \/ m = 11 /\ b = 337 /\ e = 367
    <2>1. m + 1 \in {1, 2, 3, 4, 5, 6, 7, 8, 9, 10, 11, 12}
      BY <1>1
    <2> QED BY <1>1, <2>1, BeforeIs
  <1>3. m * 153 <= 5 * (d + b - 1) + 2 /\ 5 * (d + b - 1) + 2 < m * 153 + 153 /\ b <= 337
    BY <1>0, <1>2
  <1>4. 5 * (d + b - 1) + 2 \in Int
    BY <1>2
  <1>5. (5 * (d + b - 1) + 2) \div 153 = m
    BY <1>3, <1>4, QuotientUnique
  <1> QED BY <1>2, <1>3, <1>5 DEF MonthOf, AfterMarch

(* The year, the month and the day are those of the March year and month.  *)
LEMMA FieldsBack ==
    ASSUME NEW y \in Nat, NEW m \in 1 .. 12
    PROVE  /\ MarchMonth(m) + 3 - 12 * (MarchMonth(m) \div 10) = m
           /\ MarchYear(y, m) - 4800 + MarchMonth(m) \div 10 = y
  <1>1. PICK k \in 0 .. 11 : k = MarchMonth(m) /\ k = IF m <= 2 THEN m + 9 ELSE m - 3
    BY DEF MarchMonth
  <1>2. k \div 10 = IF m <= 2 THEN 1 ELSE 0
    <2>1. CASE m <= 2
      <3>1. 1 * 10 <= k /\ k < 1 * 10 + 10
        BY <1>1, <2>1
      <3>2. k \div 10 = 1
        BY <3>1, QuotientUnique
      <3> QED BY <2>1, <3>2
    <2>2. CASE ~(m <= 2)
      <3>1. 0 * 10 <= k /\ k < 0 * 10 + 10
        BY <1>1, <2>2
      <3>2. k \div 10 = 0
        BY <3>1, QuotientUnique
      <3> QED BY <2>2, <3>2
    <2> QED BY <2>1, <2>2
  <1> QED BY <1>1, <1>2 DEF MarchYear

(* A February has a 29th just when its March year ends with one.           *)
LEMMA LeapsAre ==
    ASSUME NEW y \in Nat, NEW w, NEW c, NEW r, NEW q, NEW s, NEW p, NEW t,
           Split(w, c, r, q, s, p, t), w = y + 4799
    PROVE  LeapYear(y) <=> t = 3 /\ (r = 99 => s = 3)
  <1>0. /\ c \in Nat /\ r \in 0 .. 99 /\ q \in Nat /\ s \in 0 .. 3
        /\ p \in Nat /\ t \in 0 .. 3 /\ c = 4 * q + s /\ r = 4 * p + t
        /\ y + 4799 = 100 * c + r
    BY DEF Split
  <1>1. y % 4 = 0 <=> t = 3
    <2>1. CASE t = 3
      <3>1. y = 4 * (25 * c + p - 1199)
        BY <1>0, <2>1
      <3> QED BY <1>0, <2>1, <3>1
    <2>2. CASE t # 3
      <3>1. y = 4 * (25 * c + p - 1200) + (t + 1) /\ t + 1 \in 1 .. 3
        BY <1>0, <2>2
      <3> QED BY <1>0, <2>2, <3>1
    <2> QED BY <2>1, <2>2
  <1>2. y % 100 = 0 <=> r = 99
    <2>1. CASE r = 99
      <3>1. y = 100 * (c - 47)
        BY <1>0, <2>1
      <3> QED BY <1>0, <2>1, <3>1
    <2>2. CASE r # 99
      <3>1. y = 100 * (c - 48) + (r + 1) /\ r + 1 \in 1 .. 99
        BY <1>0, <2>2
      <3> QED BY <1>0, <2>2, <3>1
    <2> QED BY <2>1, <2>2
  <1>3. y % 400 = 0 <=> r = 99 /\ s = 3
    <2>1. CASE r = 99 /\ s = 3
      <3>1. y = 400 * (q - 11)
        BY <1>0, <2>1
      <3> QED BY <1>0, <2>1, <3>1
    <2>2. CASE ~(r = 99 /\ s = 3)
      <3>1. y = 400 * (q - 12) + (100 * s + r + 1) /\ 100 * s + r + 1 \in 1 .. 399
        BY <1>0, <2>2
      <3> QED BY <1>0, <2>2, <3>1
    <2> QED BY <2>1, <2>2
  <1>4. r = 99 => t = 3
    BY <1>0
  <1> QED BY <1>1, <1>2, <1>3, <1>4 DEF LeapYear

(* A month has a day.                                                      *)
DayOfMonth(y, m, d) == 1 <= d /\ d <= DaysIn(y, m)

(* A day that only a leap year has.                                        *)
LeapDay(y, m, n) == n = 365 => m = 2 /\ LeapYear(y)

(* The days of a month are as many as up to the next one; only the 29th of *)
(* February is the last of 366.                                            *)
LEMMA DaysFit ==
    ASSUME NEW y \in Nat, NEW m \in 1 .. 12, NEW d \in Nat, DayOfMonth(y, m, d)
    PROVE  /\ MonthHas(MarchMonth(m), d) /\ AfterMarch(MarchMonth(m), d) \in 0 .. 365
           /\ LeapDay(y, m, AfterMarch(MarchMonth(m), d))
  <1>0. m \in {1, 2, 3, 4, 5, 6, 7, 8, 9, 10, 11, 12}
    OBVIOUS
  <1>1. PICK k \in 0 .. 11 : k = MarchMonth(m) /\ k = IF m <= 2 THEN m + 9 ELSE m - 3
    BY DEF MarchMonth
  <1>b. PICK b, e : b = Before(k) /\ e = Before(k + 1)
    OBVIOUS
  <1>2. /\ b \in Nat /\ e \in Nat
        /\ \/ m = 1 /\ k = 10 /\ b = 306 /\ e = 337
           \/ m = 2 /\ k = 11 /\ b = 337 /\ e = 367
           \/ m = 3 /\ k = 0 /\ b = 0 /\ e = 31
           \/ m = 4 /\ k = 1 /\ b = 31 /\ e = 61
           \/ m = 5 /\ k = 2 /\ b = 61 /\ e = 92
           \/ m = 6 /\ k = 3 /\ b = 92 /\ e = 122
           \/ m = 7 /\ k = 4 /\ b = 122 /\ e = 153
           \/ m = 8 /\ k = 5 /\ b = 153 /\ e = 184
           \/ m = 9 /\ k = 6 /\ b = 184 /\ e = 214
           \/ m = 10 /\ k = 7 /\ b = 214 /\ e = 245
           \/ m = 11 /\ k = 8 /\ b = 245 /\ e = 275
           \/ m = 12 /\ k = 9 /\ b = 275 /\ e = 306
    <2>1. \/ m = 1 /\ k = 10 /\ k + 1 = 11
          \/ m = 2 /\ k = 11 /\ k + 1 = 12
          \/ m = 3 /\ k = 0 /\ k + 1 = 1
          \/ m = 4 /\ k = 1 /\ k + 1 = 2
          \/ m = 5 /\ k = 2 /\ k + 1 = 3
          \/ m = 6 /\ k = 3 /\ k + 1 = 4
          \/ m = 7 /\ k = 4 /\ k + 1 = 5
          \/ m = 8 /\ k = 5 /\ k + 1 = 6
          \/ m = 9 /\ k = 6 /\ k + 1 = 7
          \/ m = 10 /\ k = 7 /\ k + 1 = 8
          \/ m = 11 /\ k = 8 /\ k + 1 = 9
          \/ m = 12 /\ k = 9 /\ k + 1 = 10
      BY <1>0, <1>1
    <2>3. \/ m = 1 /\ k = 10 /\ b = 306 /\ e = 337
          \/ m = 2 /\ k = 11 /\ b = 337 /\ e = 367
          \/ m = 3 /\ k = 0 /\ b = 0 /\ e = 31
          \/ m = 4 /\ k = 1 /\ b = 31 /\ e = 61
          \/ m = 5 /\ k = 2 /\ b = 61 /\ e = 92
          \/ m = 6 /\ k = 3 /\ b = 92 /\ e = 122
          \/ m = 7 /\ k = 4 /\ b = 122 /\ e = 153
          \/ m = 8 /\ k = 5 /\ b = 153 /\ e = 184
          \/ m = 9 /\ k = 6 /\ b = 184 /\ e = 214
          \/ m = 10 /\ k = 7 /\ b = 214 /\ e = 245
          \/ m = 11 /\ k = 8 /\ b = 245 /\ e = 275
          \/ m = 12 /\ k = 9 /\ b = 275 /\ e = 306
      BY <1>b, <2>1, BeforeIs
    <2> QED BY <2>3
  <1>3. PICK l \in {28, 29, 30, 31} :
          /\ l = DaysIn(y, m)
          /\ m = 2 => l = (IF LeapYear(y) THEN 29 ELSE 28)
          /\ m \in {4, 6, 9, 11} => l = 30
    BY DEF DaysIn
  <1>4. d <= l /\ 1 <= d
    BY <1>3 DEF DayOfMonth
  <1>5. m # 2 => d <= e - b
    BY <1>2, <1>3, <1>4
  <1>6. m = 2 => d <= 29 /\ b = 337 /\ e = 367 /\ (d = 29 => LeapYear(y))
    BY <1>2, <1>3, <1>4
  <1>7. 1 <= d /\ d <= 31 /\ d <= e - b
    BY <1>3, <1>4, <1>5, <1>6
  <1>8. m # 2 => d + b - 1 \in 0 .. 364
    BY <1>2, <1>7
  <1>9. m = 2 => d + b - 1 \in 0 .. 365 /\ (d + b - 1 = 365 => d = 29)
    BY <1>6
  <1>10. d + b - 1 \in 0 .. 365 /\ (d + b - 1 = 365 => m = 2 /\ LeapYear(y))
    <2>1. CASE m = 2
      BY <1>6, <1>9, <2>1
    <2>2. CASE m # 2
      BY <1>8, <2>2
    <2> QED BY <2>1, <2>2
  <1>11. MonthHas(k, d) /\ AfterMarch(k, d) = d + b - 1
    <2>1. b \in Nat /\ e \in Nat
      BY <1>2
    <2>2. d <= Before(k + 1) - Before(k) /\ d + Before(k) - 1 = d + b - 1
      BY <1>b, <1>7, <2>1
    <2> QED BY <1>7, <2>2 DEF MonthHas, AfterMarch
  <1>12. LeapDay(y, m, AfterMarch(k, d))
    BY <1>10, <1>11 DEF LeapDay
  <1> QED BY <1>1, <1>10, <1>11, <1>12

(* The number of a day gives it back.                                      *)
LEMMA DayBack ==
    ASSUME NEW y \in Nat, NEW m \in 1 .. 12, NEW k \in Nat, DayOfMonth(y, m, k)
    PROVE  /\ getJulianDayNumber(y, m, k) \in Int
           /\ getYearMonthDay(getJulianDayNumber(y, m, k)) = [year |-> y, month |-> m, day |-> k]
  <1> DEFINE j == getJulianDayNumber(y, m, k)
             w == MarchYear(y, m)
             x == MarchMonth(m)
             n == AfterMarch(x, k)
             a == j + 32044
  <1>3. j = NumberOf(k, x, w) /\ w \in Nat /\ x \in 0 .. 11
    BY NumberIs
  <1>4. /\ MonthHas(x, k) /\ n \in 0 .. 365
        /\ n = 365 => m = 2 /\ LeapYear(y)
    <2>1. MonthHas(MarchMonth(m), k) /\ AfterMarch(MarchMonth(m), k) \in 0 .. 365
      BY DaysFit
    <2>2. LeapDay(y, m, AfterMarch(MarchMonth(m), k))
      BY DaysFit
    <2> QED BY <2>1, <2>2 DEF LeapDay
  <1>5. x + 3 - 12 * (x \div 10) = m /\ w - 4800 + x \div 10 = y
    BY FieldsBack
  <1>6. m = 2 => w = y + 4799
    BY DEF MarchYear
  <1> HIDE DEF j, w, x
  <1>7. MonthOf(n) = x /\ Before(x) \in Nat
    BY <1>3, <1>4, MonthIs
  <1>8. PICK c, r, q, s, p, t : Split(w, c, r, q, s, p, t)
    BY <1>3, CanSplit
  <1>11. /\ r \in 0 .. 99 /\ s \in 0 .. 3 /\ t \in 0 .. 3 /\ c \in Nat /\ q \in Nat /\ p \in Nat
         /\ w = 100 * c + r
    BY <1>8 DEF Split
  <1>12. w \div 4 = 25 * c + p /\ w \div 100 = c /\ w \div 400 = q
    BY <1>8, Centuries
  <1>13. a = 36524 * c + q + 365 * r + p + n /\ j \in Int
    <2>1. j = k + Before(x) + w * 365 + w \div 4 - w \div 100 + w \div 400 - 32045
      BY <1>3 DEF NumberOf
    <2>2. n = k + Before(x) - 1
      BY DEF AfterMarch
    <2>3. j = k + Before(x) + w * 365 + (25 * c + p) - c + q - 32045
      BY <1>12, <2>1
    <2>4. j \in Int
      BY <1>3, <1>7, <1>11, <2>3
    <2> QED BY <1>3, <1>7, <1>11, <2>2, <2>3, <2>4
  <1>14. n = 365 => t = 3 /\ (r = 99 => s = 3)
    <2>1. CASE n = 365
      <3>1. w = y + 4799 /\ LeapYear(y)
        BY <1>4, <1>6, <2>1
      <3> QED BY <1>8, <3>1, LeapsAre
    <2> QED BY <2>1
  <1> HIDE DEF n
  <1>15. a \in Nat /\ j \in Int
    BY <1>4, <1>11, <1>13 DEF a
  <1> HIDE DEF a
  <1>16. /\ (4 * a + 3) \div 146097 = c
         /\ a - (c * 146097) \div 4 = 365 * r + p + n
         /\ (4 * (365 * r + p + n) + 3) \div 1461 = r
         /\ (365 * r + p + n) - (1461 * r) \div 4 = n
    <2>1. DaysBefore(a, c, r, q, p, n)
      BY <1>13 DEF DaysBefore
    <2>3. DayOfYear(n, r, s, t)
      BY <1>4, <1>14 DEF DayOfYear
    <2>2. Parted(a, c, r, p, n)
      BY <1>8, <1>15, <2>1, <2>3, TakenApart
    <2> QED BY <2>2 DEF Parted
  <1>17. getYearMonthDay(j) = [day |-> n - Before(x) + 1,
                               month |-> x + 3 - 12 * (x \div 10),
                               year |-> c * 100 + r - 4800 + x \div 10]
    BY <1>7, <1>16 DEF getYearMonthDay, a, Before, MonthOf
  <1>18. n - Before(x) + 1 = k
    BY <1>7 DEF n, AfterMarch
  <1>19. c * 100 + r - 4800 + x \div 10 = y
    BY <1>5, <1>11
  <1>20. getYearMonthDay(j) = [year |-> y, month |-> m, day |-> k]
    BY <1>5, <1>17, <1>18, <1>19
  <1> QED BY <1>15, <1>20 DEF j

(* The walk is at a day, whose number is the one counted.                  *)
CalInv ==
    /\ \E y \in Nat, m \in 1 .. 12, k \in Nat :
          today = [year |-> y, month |-> m, day |-> k] /\ DayOfMonth(y, m, k)
    /\ jdn = getJulianDayNumber(today.year, today.month, today.day)

(* Leap years up to a March year and the next.                             *)
LeapsUpTo(w) == w \div 4 - w \div 100 + w \div 400

(* The next one is a leap year more just when it ends a leap February.     *)
LEMMA LeapAdded ==
    ASSUME NEW y \in Nat
    PROVE  /\ LeapsUpTo(y + 4799) \in Int
           /\ LeapsUpTo(y + 4800) = LeapsUpTo(y + 4799) + (IF LeapYear(y) THEN 1 ELSE 0)
  <1> DEFINE w == y + 4799
  <1>0. w \in Nat /\ w + 1 \in Int /\ w + 1 = y + 4800
    OBVIOUS
  <1>1. PICK c, r, q, s, p, t : Split(w, c, r, q, s, p, t)
    BY <1>0, CanSplit
  <1>2. /\ w \div 4 = 25 * c + p /\ w \div 100 = c /\ w \div 400 = q
    BY <1>1, Centuries
  <1>3. LeapYear(y) <=> t = 3 /\ (r = 99 => s = 3)
    BY <1>1, LeapsAre
  <1>4. /\ c \in Nat /\ r \in 0 .. 99 /\ q \in Nat /\ s \in 0 .. 3
        /\ p \in Nat /\ t \in 0 .. 3 /\ w = 100 * c + r /\ c = 4 * q + s /\ r = 4 * p + t
    BY <1>1 DEF Split
  <1> HIDE DEF w
  <1>5. (w + 1) \div 4 = 25 * c + p + (IF t = 3 THEN 1 ELSE 0)
    <2>1. PICK u \in Int : u = 25 * c + p + (IF t = 3 THEN 1 ELSE 0)
      BY <1>4
    <2>2. u * 4 <= w + 1 /\ w + 1 < u * 4 + 4
      BY <1>4, <2>1
    <2> QED BY <1>0, <2>1, <2>2, QuotientUnique
  <1>6. (w + 1) \div 100 = c + (IF r = 99 THEN 1 ELSE 0)
    <2>1. PICK u \in Int : u = c + (IF r = 99 THEN 1 ELSE 0)
      BY <1>4
    <2>2. u * 100 <= w + 1 /\ w + 1 < u * 100 + 100
      BY <1>4, <2>1
    <2> QED BY <1>0, <2>1, <2>2, QuotientUnique
  <1>7. (w + 1) \div 400 = q + (IF r = 99 /\ s = 3 THEN 1 ELSE 0)
    <2>1. PICK u \in Int : u = q + (IF r = 99 /\ s = 3 THEN 1 ELSE 0)
      BY <1>4
    <2>2. u * 400 <= w + 1 /\ w + 1 < u * 400 + 400
      BY <1>4, <2>1
    <2> QED BY <1>0, <2>1, <2>2, QuotientUnique
  <1>8. LeapsUpTo(w) = 25 * c + p - c + q
    BY <1>2, <1>4 DEF LeapsUpTo
  <1>9. r = 99 => t = 3
    BY <1>4
  <1>10. PICK l \in {0, 1} : l = IF t = 3 /\ (r = 99 => s = 3) THEN 1 ELSE 0
    OBVIOUS
  <1>11. LeapsUpTo(w + 1) = LeapsUpTo(w) + l
    <2>1. LeapsUpTo(w + 1) = 25 * c + p + (IF t = 3 THEN 1 ELSE 0)
             - (c + (IF r = 99 THEN 1 ELSE 0)) + (q + (IF r = 99 /\ s = 3 THEN 1 ELSE 0))
      BY <1>4, <1>5, <1>6, <1>7 DEF LeapsUpTo
    <2>2. CASE t = 3
      BY <1>4, <1>8, <1>10, <2>1, <2>2
    <2>3. CASE t # 3
      BY <1>4, <1>8, <1>9, <1>10, <2>1, <2>3
    <2> QED BY <2>2, <2>3
  <1>12. l = IF LeapYear(y) THEN 1 ELSE 0
    BY <1>3, <1>10
  <1>13. LeapsUpTo(w) \in Int
    BY <1>4, <1>8
  <1>14. w + 1 = y + 4800
    BY <1>0
  <1> QED BY <1>11, <1>12, <1>13, <1>14 DEF w

(* What a March year adds to a number.                                     *)
YearPart(w) == w * 365 + LeapsUpTo(w) - 32045

(* A number in these terms.                                                *)
LEMMA NumberBy ==
    ASSUME NEW d \in Nat, NEW x \in 0 .. 12, NEW w \in Nat
    PROVE  /\ NumberOf(d, x, w) = d + Before(x) + YearPart(w) /\ YearPart(w) \in Int
           /\ Before(x) \in Nat /\ LeapsUpTo(w) \in Int /\ NumberOf(d, x, w) \in Int
  <1>1. Before(x) \in Nat
    <2>1. x \in {0, 1, 2, 3, 4, 5, 6, 7, 8, 9, 10, 11, 12}
      OBVIOUS
    <2> QED BY <2>1, BeforeIs
  <1>2. PICK e \in Int, f \in Int, g \in Int : e = w \div 4 /\ f = w \div 100 /\ g = w \div 400
    <2>1. w \div 4 \in Int /\ w \div 100 \in Int /\ w \div 400 \in Int
      OBVIOUS
    <2> QED BY <2>1
  <1>3. LeapsUpTo(w) = e - f + g
    BY <1>2 DEF LeapsUpTo
  <1>4. NumberOf(d, x, w) = d + Before(x) + w * 365 + e - f + g - 32045
    BY <1>2 DEF NumberOf
  <1>5. YearPart(w) = w * 365 + (e - f + g) - 32045
    BY <1>3 DEF YearPart
  <1> QED BY <1>1, <1>2, <1>3, <1>4, <1>5

(* A month's days are all up to the next one, but for a February's, which  *)
(* has 28 or 29 of 30.                                                     *)
LEMMA DaysAre ==
    ASSUME NEW y \in Nat, NEW m \in 1 .. 12
    PROVE  /\ m # 2 => DaysIn(y, m) = Before(MarchMonth(m) + 1) - Before(MarchMonth(m))
           /\ m = 2 => DaysIn(y, m) = (IF LeapYear(y) THEN 29 ELSE 28)
           /\ DaysIn(y, m) \in 28 .. 31
  <1>1. m = 2 => DaysIn(y, m) = (IF LeapYear(y) THEN 29 ELSE 28)
    BY DEF DaysIn
  <1>2. DaysIn(y, m) \in 28 .. 31
    BY DEF DaysIn
  <1>3. ASSUME m # 2
        PROVE  DaysIn(y, m) = Before(MarchMonth(m) + 1) - Before(MarchMonth(m))
    <2>1. PICK k : k = MarchMonth(m) /\ k = IF m <= 2 THEN m + 9 ELSE m - 3
      BY DEF MarchMonth
    <2>2. PICK l : l = DaysIn(y, m) /\ l = IF m \in {4, 6, 9, 11} THEN 30 ELSE 31
      BY <1>3 DEF DaysIn
    <2>3. \/ m = 1 /\ k = 10 /\ k + 1 = 11 /\ l = 31
          \/ m = 3 /\ k = 0 /\ k + 1 = 1 /\ l = 31
          \/ m = 4 /\ k = 1 /\ k + 1 = 2 /\ l = 30
          \/ m = 5 /\ k = 2 /\ k + 1 = 3 /\ l = 31
          \/ m = 6 /\ k = 3 /\ k + 1 = 4 /\ l = 30
          \/ m = 7 /\ k = 4 /\ k + 1 = 5 /\ l = 31
          \/ m = 8 /\ k = 5 /\ k + 1 = 6 /\ l = 31
          \/ m = 9 /\ k = 6 /\ k + 1 = 7 /\ l = 30
          \/ m = 10 /\ k = 7 /\ k + 1 = 8 /\ l = 31
          \/ m = 11 /\ k = 8 /\ k + 1 = 9 /\ l = 30
          \/ m = 12 /\ k = 9 /\ k + 1 = 10 /\ l = 31
      BY <1>3, <2>1, <2>2
    <2>4. PICK b, e : b = Before(k) /\ e = Before(k + 1)
      OBVIOUS
    <2>5. l = e - b
      BY <2>3, <2>4, BeforeIs
    <2> QED BY <2>1, <2>2, <2>4, <2>5
  <1> QED BY <1>1, <1>2, <1>3

(* The day after has the next number.                                      *)
LEMMA NextDay ==
    ASSUME NEW y \in Nat, NEW m \in 1 .. 12, NEW k \in Nat, DayOfMonth(y, m, k)
    PROVE  LET d == DayAfter([year |-> y, month |-> m, day |-> k])
           IN  /\ getJulianDayNumber(d.year, d.month, d.day) = getJulianDayNumber(y, m, k) + 1
               /\ \E i \in y .. y + 1, n \in 1 .. 12, l \in Nat :
                     d = [year |-> i, month |-> n, day |-> l] /\ DayOfMonth(i, n, l)
  <1> DEFINE d == DayAfter([year |-> y, month |-> m, day |-> k])
             x == MarchMonth(m)
             w == MarchYear(y, m)
             j == getJulianDayNumber(y, m, k)
  <1>1. /\ j = NumberOf(k, x, w) /\ w \in Nat /\ x \in 0 .. 11
    BY NumberIs
  <1>2. /\ j = k + Before(x) + YearPart(w)
        /\ Before(x) \in Nat /\ YearPart(w) \in Int /\ LeapsUpTo(w) \in Int /\ j \in Int
    <2> HIDE DEF j, x, w
    <2>1. x \in 0 .. 12
      BY <1>1
    <2> QED BY <1>1, <2>1, NumberBy
  <1>3. 1 <= k /\ k <= DaysIn(y, m) /\ DaysIn(y, m) \in 28 .. 31
    BY DaysAre DEF DayOfMonth
  <1>4. CASE k < DaysIn(y, m)
    <2>1. d = [year |-> y, month |-> m, day |-> k + 1]
      BY <1>4 DEF DayAfter
    <2>2. getJulianDayNumber(y, m, k + 1) = NumberOf(k + 1, x, w)
      <3>1. k + 1 \in Nat
        OBVIOUS
      <3> QED BY <3>1, NumberIs
    <2>3. NumberOf(k + 1, x, w) = k + 1 + Before(x) + YearPart(w)
      <3>1. k + 1 \in Nat /\ x \in 0 .. 12
        BY <1>1
      <3> HIDE DEF x, w
      <3> QED BY <1>1, <3>1, NumberBy
    <2>4. DayOfMonth(y, m, k + 1)
      BY <1>3, <1>4 DEF DayOfMonth
    <2>5. d.year = y /\ d.month = m /\ d.day = k + 1
      BY <2>1
    <2>6. getJulianDayNumber(d.year, d.month, d.day) = j + 1
      <3> HIDE DEF d, x, w, j
      <3> QED BY <1>1, <1>2, <2>2, <2>3, <2>5
    <2>7. y \in y .. y + 1 /\ k + 1 \in Nat
      OBVIOUS
    <2> HIDE DEF j
    <2> QED BY <2>1, <2>4, <2>6, <2>7 DEF j
  <1>5. CASE ~(k < DaysIn(y, m))
    <2>0. k = DaysIn(y, m)
      BY <1>3, <1>5
    <2> DEFINE i == IF m < 12 THEN y ELSE y + 1
               n == IF m < 12 THEN m + 1 ELSE 1
    <2>1. d = [year |-> i, month |-> n, day |-> 1]
      BY <1>5 DEF DayAfter
    <2>2. /\ i \in y .. y + 1 /\ i \in Nat /\ n \in 1 .. 12
      OBVIOUS
    <2>3. /\ MarchYear(i, n) = IF m = 2 THEN w + 1 ELSE w
          /\ MarchMonth(n) = IF m = 2 THEN 0 ELSE x + 1
          /\ m = 2 => x = 11 /\ w = y + 4799
      BY DEF MarchYear, MarchMonth
    <2> HIDE DEF i, n, d
    <2>4. DayOfMonth(i, n, 1)
      <3>1. DaysIn(i, n) \in 28 .. 31
        BY <2>2, DaysAre
      <3> QED BY <3>1 DEF DayOfMonth
    <2>5. getJulianDayNumber(i, n, 1) = NumberOf(1, MarchMonth(n), MarchYear(i, n))
      BY <2>2, NumberIs
    <2>6. getJulianDayNumber(i, n, 1) = j + 1
      <3>1. CASE m = 2
        <4>1. MarchYear(i, n) = w + 1 /\ MarchMonth(n) = 0 /\ x = 11
          BY <2>3, <3>1
        <4>2. w = y + 4799 /\ k = IF LeapYear(y) THEN 29 ELSE 28
          BY <2>0, <2>3, <3>1, DaysAre
        <4>3. LeapsUpTo(w + 1) = LeapsUpTo(w) + (IF LeapYear(y) THEN 1 ELSE 0)
          <5>1. w + 1 = y + 4800
            BY <4>2
          <5> HIDE DEF w
          <5> QED BY <4>2, <5>1, LeapAdded
        <4> HIDE DEF x, w, j
        <4>4. NumberOf(1, 0, w + 1) = 1 + Before(0) + YearPart(w + 1)
          <5>1. w + 1 \in Nat /\ 1 \in Nat /\ 0 \in 0 .. 12
            BY <1>1
          <5> QED BY <5>1, NumberBy
        <4>5. Before(0) = 0 /\ Before(x) = 337
          BY <4>1, BeforeIs
        <4>6. PICK l \in {0, 1} : l = (IF LeapYear(y) THEN 1 ELSE 0) /\ k = 28 + l
          BY <4>2
        <4>7. NumberOf(1, 0, w + 1) = 1 + (w + 1) * 365 + (LeapsUpTo(w) + l) - 32045
          BY <1>1, <1>2, <4>3, <4>4, <4>5, <4>6 DEF YearPart
        <4>8. j = 28 + l + 337 + (w * 365 + LeapsUpTo(w) - 32045)
          BY <1>1, <1>2, <4>5, <4>6 DEF YearPart
        <4>9. NumberOf(1, 0, w + 1) = j + 1
          BY <1>1, <1>2, <4>6, <4>7, <4>8
        <4> QED BY <2>5, <4>1, <4>9
      <3>2. CASE m # 2
        <4>1. MarchYear(i, n) = w /\ MarchMonth(n) = x + 1
          BY <2>3, <3>2
        <4>2. k = Before(x + 1) - Before(x)
          BY <2>0, <3>2, DaysAre
        <4> HIDE DEF x, w, j
        <4>3. NumberOf(1, x + 1, w) = 1 + Before(x + 1) + YearPart(w)
              /\ Before(x + 1) \in Nat
          <5>1. x + 1 \in 0 .. 12 /\ 1 \in Nat
            BY <1>1
          <5> QED BY <1>1, <5>1, NumberBy
        <4>4. NumberOf(1, x + 1, w) = j + 1
          BY <1>1, <1>2, <4>2, <4>3
        <4> QED BY <2>5, <4>1, <4>4
      <3> QED BY <3>1, <3>2
    <2>7. d.year = i /\ d.month = n /\ d.day = 1
      BY <2>1
    <2>8. 1 \in Nat
      OBVIOUS
    <2> QED BY <2>1, <2>2, <2>4, <2>6, <2>7, <2>8 DEF d
  <1> QED BY <1>4, <1>5

(* The walk begins with the first of a year.                               *)
LEMMA CalendarBegins == CalendarInit => CalInv
  <1> SUFFICES ASSUME CalendarInit PROVE CalInv
    OBVIOUS
  <1>1. PICK y \in Years : today = [year |-> y, month |-> 1, day |-> 1]
    BY SMT DEF CalendarInit
  <1>2. jdn = getJulianDayNumber(today.year, 1, 1)
    BY SMT DEF CalendarInit
  <1>3. today.month = 1 /\ today.day = 1
    BY <1>1, SMT
  <1>4. y \in Nat
    BY <1>1, CalendarAssumption, SMT
  <1>5. 1 \in 1 .. 12 /\ 1 \in Nat
    BY SMT
  <1>6. DayOfMonth(y, 1, 1)
    <2>1. DaysIn(y, 1) \in 28 .. 31
      BY <1>4, <1>5, DaysAre
    <2> QED BY <2>1, SMT DEF DayOfMonth
  <1>7. \E i \in Nat, m \in 1 .. 12, k \in Nat :
            today = [year |-> i, month |-> m, day |-> k] /\ DayOfMonth(i, m, k)
    BY <1>1, <1>4, <1>5, <1>6, Zenon
  <1> QED BY <1>2, <1>3, <1>7, SMT DEF CalInv

(* It goes from a day to the day after.                                    *)
LEMMA CalendarKept == CalInv /\ (CalendarNext \/ UNCHANGED calendarVars) => CalInv'
  <1> SUFFICES ASSUME CalInv, CalendarNext \/ UNCHANGED calendarVars PROVE CalInv'
    OBVIOUS
  <1>1. CASE UNCHANGED calendarVars
    BY <1>1 DEF calendarVars, CalInv
  <1>2. CASE CalendarNext
    <2>1. PICK y \in Nat, m \in 1 .. 12, k \in Nat :
              today = [year |-> y, month |-> m, day |-> k] /\ DayOfMonth(y, m, k)
      BY DEF CalInv
    <2>2. today.year = y /\ today.month = m /\ today.day = k
      BY <2>1
    <2>3. today' = DayAfter([year |-> y, month |-> m, day |-> k]) /\ jdn' = jdn + 1
      BY <1>2, <2>1 DEF CalendarNext
    <2>4. /\ getJulianDayNumber(today'.year, today'.month, today'.day)
                = getJulianDayNumber(y, m, k) + 1
          /\ \E i \in y .. y + 1, n \in 1 .. 12, l \in Nat :
                     today' = [year |-> i, month |-> n, day |-> l] /\ DayOfMonth(i, n, l)
      BY <2>1, <2>3, NextDay
    <2>5. jdn = getJulianDayNumber(y, m, k)
      BY <2>2 DEF CalInv
    <2>6. jdn' = getJulianDayNumber(today'.year, today'.month, today'.day)
      BY <2>3, <2>4, <2>5
    <2>7. PICK i \in y .. y + 1, n \in 1 .. 12, l \in Nat :
              today' = [year |-> i, month |-> n, day |-> l] /\ DayOfMonth(i, n, l)
      BY <2>4
    <2>8. i \in Nat
      BY <2>1, <2>7, SMT
    <2>9. \E a \in Nat, b \in 1 .. 12, c \in Nat :
              today' = [year |-> a, month |-> b, day |-> c] /\ DayOfMonth(a, b, c)
      BY <2>7, <2>8, Zenon
    <2> QED BY <2>6, <2>9 DEF CalInv, DayOfMonth, DaysIn, LeapYear
  <1> QED BY <1>1, <1>2

(* A day of 86400 seconds and a second of it.                              *)
SecondOfDay(s) == s \in Nat /\ s < 86400
At(t, n, s) == n \in Int /\ SecondOfDay(s) /\ t = n * 86400 + s

(* A time is broken into its day and its second, before 1970 too.          *)
LEMMA DaysAndSecondsAre ==
    ASSUME NEW t, NEW n, NEW s, At(t, n, s)
    PROVE  DaysAndSeconds(t) = [days |-> n, seconds |-> s]
  <1>a. n \in Int
    BY SMT DEF At
  <1>b. s \in Nat /\ s < 86400
    BY SMT DEF At, SecondOfDay
  <1>c. t = n * 86400 + s
    BY SMT DEF At
  <1>d. t \in Int
    BY <1>a, <1>b, <1>c, SMT
  <1>e. -t \in Int
    BY <1>d, SMT
  <1>1. n \in Int /\ s \in Nat /\ s < 86400 /\ t = n * 86400 + s /\ t \in Int /\ -t \in Int
    BY <1>a, <1>b, <1>c, <1>d, <1>e, SMT
  <1>2. kSecondsPerDay = 86400
    BY SMT DEF kSecondsPerDay
  <1> DEFINE q == Quot(t, 86400)
             r == Rem(t, 86400)
  <1>3. q = IF t >= 0 THEN t \div 86400 ELSE -((-t) \div 86400)
    BY SMT DEF Quot
  <1>4. r = t - 86400 * q
    BY SMT DEF Rem
  <1>5. DaysAndSeconds(t) = IF r < 0 THEN [days |-> q - 1, seconds |-> r + 86400]
                            ELSE [days |-> q, seconds |-> r]
    BY <1>2, SMT DEF DaysAndSeconds
  <1> HIDE DEF q, r
  <1>6. CASE t >= 0
    <2>1. n * 86400 <= t /\ t < n * 86400 + 86400
      BY <1>1, SMT
    <2>2. t \div 86400 = n
      BY <1>1, <2>1, QuotientUnique, SMT
    <2>3. q = n /\ r = s
      BY <1>1, <1>3, <1>4, <1>6, <2>2, SMT
    <2> QED BY <1>1, <1>5, <2>3, SMT
  <1>7. CASE ~(t >= 0) /\ s = 0
    <2>1. (-n) * 86400 <= -t /\ -t < (-n) * 86400 + 86400 /\ -n \in Int
      BY <1>1, <1>7, SMT
    <2>2. (-t) \div 86400 = -n
      BY <1>1, <2>1, QuotientUnique, SMT
    <2>3. q = n /\ r = s
      BY <1>1, <1>3, <1>4, <1>7, <2>2, SMT
    <2> QED BY <1>1, <1>5, <2>3, SMT
  <1>8. CASE ~(t >= 0) /\ s # 0
    <2>1. (-n - 1) * 86400 <= -t /\ -t < (-n - 1) * 86400 + 86400 /\ -n - 1 \in Int
      BY <1>1, <1>8, SMT
    <2>2. (-t) \div 86400 = -n - 1
      BY <1>1, <2>1, QuotientUnique, SMT
    <2>3. q = n + 1 /\ r = s - 86400
      BY <1>1, <1>3, <1>4, <1>8, <2>2, SMT
    <2>4. r < 0 /\ q - 1 = n /\ r + 86400 = s
      BY <1>1, <2>3, SMT
    <2> QED BY <1>5, <2>4, SMT
  <1> QED BY <1>6, <1>7, <1>8, SMT

(* What a clock shows at a second of a day.                                *)
Clock(s, h, u, b) == /\ h \in 0 .. 23 /\ u \in 0 .. 59 /\ b \in 0 .. 59
                     /\ h * 3600 + u * 60 + b = s

(* A second of a day is one of a minute of an hour.                        *)
LEMMA HMSIs ==
    ASSUME NEW s, SecondOfDay(s)
    PROVE  \E h, m, b : /\ fillHMS(s) = [second |-> b, minute |-> m, hour |-> h]
                          /\ Clock(s, h, m, b)
  <1>0. s \in Nat /\ s < 86400
    BY SMT DEF SecondOfDay
  <1>1. PICK a, b : a = s \div 60 /\ b = s % 60
    OBVIOUS
  <1>2. a \in Int /\ b \in 0 .. 60 - 1 /\ s = a * 60 + b
    BY <1>0, <1>1, Quotient, SMT
  <1>3. PICK h, m : h = a \div 60 /\ m = a % 60
    OBVIOUS
  <1>4. h \in Int /\ m \in 0 .. 60 - 1 /\ a = h * 60 + m
    BY <1>2, <1>3, Quotient, SMT
  <1>5. fillHMS(s) = [second |-> b, minute |-> m, hour |-> h]
    BY <1>1, <1>3 DEF fillHMS
  <1>6. h \in 0 .. 23 /\ m \in 0 .. 59 /\ b \in 0 .. 59 /\ h * 3600 + m * 60 + b = s
    BY <1>0, <1>2, <1>4, SMT
  <1>7. Clock(s, h, m, b)
    BY <1>6, SMT DEF Clock
  <1> QED BY <1>5, <1>7, Zenon

(* The number of the day the epoch began on, a Thursday.                   *)
LEMMA EpochIs == kJulianDayOf1970_01_01 = 2440588 /\ weekDay(2440588) = 4
  <1>1. (14 - 1) \div 12 = 1
    OBVIOUS
  <1>2. getJulianDayNumber(1970, 1, 1) =
            1 + (153 * (1 + 12 * 1 - 3) + 2) \div 5 + (1970 + 4800 - 1) * 365
              + (1970 + 4800 - 1) \div 4 - (1970 + 4800 - 1) \div 100
              + (1970 + 4800 - 1) \div 400 - 32045
    BY <1>1 DEF getJulianDayNumber
  <1>3. /\ (153 * (1 + 12 * 1 - 3) + 2) \div 5 = 306 /\ 1970 + 4800 - 1 = 6769
        /\ 6769 \div 4 = 1692 /\ 6769 \div 100 = 67 /\ 6769 \div 400 = 16
    OBVIOUS
  <1>4. getJulianDayNumber(1970, 1, 1) = 2440588
    BY <1>2, <1>3
  <1>5. weekDay(2440588) = 4
    BY DEF weekDay
  <1> QED BY <1>4, <1>5 DEF kJulianDayOf1970_01_01

(* Dates and times are there and back the same.                            *)
LEMMA CalendarHolds == CalInv => DatesRight
  <1> SUFFICES ASSUME CalInv PROVE DatesRight
    OBVIOUS
  <1>1. PICK y \in Nat, m \in 1 .. 12, k \in Nat :
            today = [year |-> y, month |-> m, day |-> k] /\ DayOfMonth(y, m, k)
    BY DEF CalInv
  <1>2. /\ today.year = y /\ today.month = m /\ today.day = k /\ y \in Nat
        /\ m \in 1 .. 12 /\ k \in Nat
    BY <1>1
  <1>3. jdn = getJulianDayNumber(y, m, k)
    BY <1>2 DEF CalInv
  <1>4. jdn \in Int /\ getYearMonthDay(jdn) = today
    BY <1>1, <1>2, <1>3, DayBack
  <1>5. getJulianDayNumber(today.year, today.month, today.day) = jdn
    BY <1>2, <1>3
  <1>6. weekDay(jdn) = (weekDay(jdn - 1) + 1) % 7
    <2>1. weekDay(jdn) = (jdn + 1) % 7 /\ weekDay(jdn - 1) = (jdn - 1 + 1) % 7
      BY DEF weekDay
    <2> QED BY <1>4, <2>1
  <1>7. weekDay(kJulianDayOf1970_01_01) = 4
    BY EpochIs
  <1>8. ASSUME NEW s \in SecondsOfDay
        PROVE  LET t == (jdn - kJulianDayOf1970_01_01) * kSecondsPerDay + s
               IN  /\ toUtcTime(t).date = today
                   /\ toUtcTime(t).time \in [hour : 0 .. 23, minute : 0 .. 59, second : 0 .. 59]
                   /\ fromUtcTime(toUtcTime(t)) = t
    <2> DEFINE n == jdn - 2440588
               t == n * 86400 + s
    <2>0. SecondOfDay(s)
      BY CalendarAssumption, SMT DEF SecondOfDay
    <2>1. n \in Int /\ n + 2440588 = jdn
      BY <1>4, SMT
    <2>2. (jdn - kJulianDayOf1970_01_01) * kSecondsPerDay + s = t
      BY EpochIs, SMT DEF kSecondsPerDay
    <2>3. DaysAndSeconds(t) = [days |-> n, seconds |-> s]
      <3>1. At(t, n, s)
        BY <2>0, <2>1, SMT DEF At
      <3> HIDE DEF t, n
      <3> QED BY <3>1, DaysAndSecondsAre, SMT
    <2> HIDE DEF t, n
    <2>4. toUtcTime(t) = [date |-> getYearMonthDay(n + kJulianDayOf1970_01_01),
                          time |-> fillHMS(s)]
      BY <2>3, SMT DEF toUtcTime, BreakTime
    <2>5. toUtcTime(t) = [date |-> today, time |-> fillHMS(s)]
      BY <1>4, <2>1, <2>4, EpochIs, SMT
    <2>a. PICK h, u, b : /\ fillHMS(s) = [second |-> b, minute |-> u, hour |-> h]
                         /\ Clock(s, h, u, b)
      BY <2>0, HMSIs, Zenon
    <2>6. /\ h \in 0 .. 23 /\ u \in 0 .. 59 /\ b \in 0 .. 59 /\ h * 3600 + u * 60 + b = s
          /\ fillHMS(s) = [second |-> b, minute |-> u, hour |-> h]
      BY <2>a, SMT DEF Clock
    <2>7. toUtcTime(t).date = today /\ toUtcTime(t).time = fillHMS(s)
      BY <2>5, SMT
    <2>8. fromUtcTime(toUtcTime(t))
            = (jdn - 2440588) * 86400 + h * 3600 + u * 60 + b
      BY <1>2, <1>3, <2>6, <2>7, EpochIs, SMT DEF fromUtcTime, kSecondsPerDay
    <2>9. fromUtcTime(toUtcTime(t)) = t
      <3>1. s \in Nat
        BY <2>0, SMT DEF SecondOfDay
      <3> QED BY <1>4, <2>1, <2>6, <2>8, <3>1, SMT DEF t, n
    <2> QED BY <2>2, <2>6, <2>7, <2>9, SMT
  <1> QED BY <1>4, <1>5, <1>6, <1>7, <1>8 DEF DatesRight

----------------------------------------------------------------------------
(* Addresses.                                                              *)

(* A port comes back from its two bytes.                                   *)
LEMMA PortsComeBack ==
    ASSUME NEW port \in Port
    PROVE  networkToHost16(hostToNetwork16(port)) = port
  <1>1. Octets \in Nat /\ Octets > 0 /\ port \in Int
    BY AddressAssumption DEF Port
  <1>2. port = (port \div Octets) * Octets + (port % Octets)
    BY <1>1
  <1> QED BY <1>2 DEF networkToHost16, hostToNetwork16

IsAddress(a) ==
    a = [family |-> a.family, port |-> a.port, word4 |-> a.word4, ip6 |-> a.ip6,
         scope |-> a.scope]

(* The IP address of the structure that an address is.                     *)
IPOf(a) == IF a.family = "AF_INET6" THEN a.ip6 ELSE a.word4

(* Once there is a family, the memory has the port and the IP address that *)
(* it should, and only the other one may be left from before.              *)
AddrInv ==
    /\ IsAddress(address)
    /\ address.word4 \in IPs /\ address.ip6 \in IPs
    /\ address.family \in {"AF_UNSPEC", "AF_INET", "AF_INET6"}
    /\ meant = [family |-> address.family, ip |-> meant.ip, port |-> meant.port]
    /\ address.family # "AF_UNSPEC" =>
        /\ meant.port \in Port /\ address.port = hostToNetwork16(meant.port)
        /\ IPOf(address) = meant.ip

(* A new address is of no family.                                          *)
LEMMA AddressBegins == AddressInit => AddrInv
  <1> SUFFICES ASSUME AddressInit PROVE AddrInv
    OBVIOUS
  <1>1. /\ address = [family |-> "AF_UNSPEC", port |-> <<0, 0>>, word4 |-> "any",
                      ip6 |-> "any", scope |-> 0]
        /\ meant = [family |-> "AF_UNSPEC", ip |-> "", port |-> 0]
    BY DEF AddressInit, Zeros
  <1>2. IsAddress(address) /\ address.family = "AF_UNSPEC"
        /\ address.word4 = "any" /\ address.ip6 = "any"
    BY <1>1 DEF IsAddress
  <1>3. meant = [family |-> address.family, ip |-> meant.ip, port |-> meant.port]
    BY <1>1, <1>2
  <1> QED BY <1>2, <1>3 DEF AddrInv, IPs

(* Every step keeps the invariant of the address.                          *)
LEMMA AddressKept == AddrInv /\ (AddressNext \/ UNCHANGED addressVars) => AddrInv'
  <1> SUFFICES ASSUME AddrInv, AddressNext \/ UNCHANGED addressVars PROVE AddrInv'
    OBVIOUS
  <1>1. /\ IsAddress(address) /\ address.word4 \in IPs /\ address.ip6 \in IPs
    BY DEF AddrInv
  <1>2. ASSUME MakeOfPort PROVE AddrInv'
    <2>1. PICK port \in Port, loopbackOnly \in BOOLEAN, ipv6 \in BOOLEAN :
            /\ address' = OfPort(port, loopbackOnly, ipv6)
            /\ meant' = [family |-> IF ipv6 THEN "AF_INET6" ELSE "AF_INET",
                         ip |-> IF loopbackOnly THEN "loopback" ELSE "any", port |-> port]
      BY <1>2 DEF MakeOfPort
    <2>2. PICK ip : ip = IF loopbackOnly THEN "loopback" ELSE "any"
      OBVIOUS
    <2>3. ip \in IPs /\ "any" \in IPs
      BY <2>2 DEF IPs
    <2>4. PICK b : b = hostToNetwork16(port)
      OBVIOUS
    <2>5. CASE ipv6
      <3>1. address' = [family |-> "AF_INET6", port |-> b, word4 |-> "any", ip6 |-> ip,
                        scope |-> 0]
        BY <2>1, <2>2, <2>4, <2>5 DEF OfPort, Zeros
      <3>2. meant' = [family |-> "AF_INET6", ip |-> ip, port |-> port]
        BY <2>1, <2>2, <2>5
      <3> QED BY <2>3, <2>4, <3>1, <3>2 DEF AddrInv, IsAddress, IPOf
    <2>6. CASE ~ipv6
      <3>1. address' = [family |-> "AF_INET", port |-> b, word4 |-> ip, ip6 |-> address.ip6,
                        scope |-> address.scope]
        BY <2>1, <2>2, <2>4, <2>6 DEF OfPort, Zeros, Zeros4
      <3>2. meant' = [family |-> "AF_INET", ip |-> ip, port |-> port]
        BY <2>1, <2>2, <2>6
      <3> QED BY <1>1, <2>3, <2>4, <3>1, <3>2 DEF AddrInv, IsAddress, IPOf
    <2> QED BY <2>5, <2>6
  <1>3. ASSUME MakeOfText PROVE AddrInv'
    <2>1. PICK text \in IPText, port \in Port, ipv6 \in BOOLEAN :
            /\ address' = OfText(text, port, ipv6)
            /\ meant' = [family |-> IF ipv6 \/ text.ipv6 THEN "AF_INET6" ELSE "AF_INET",
                         port |-> port,
                         ip |-> IF inet_pton(IF ipv6 \/ text.ipv6 THEN "AF_INET6"
                                             ELSE "AF_INET", text)
                                THEN text.ip ELSE "any"]
      BY <1>3 DEF MakeOfText
    <2>3. /\ text.ip # "malformed" => text.ip \in IPs
          /\ "any" \in IPs
      BY DEF IPText, IPs
    <2>4. PICK b : b = hostToNetwork16(port)
      OBVIOUS
    <2>5. CASE ipv6 \/ text.ipv6
      <3>1. PICK ip : ip = IF inet_pton("AF_INET6", text) THEN text.ip ELSE "any"
        OBVIOUS
      <3>2. address' = [family |-> "AF_INET6", port |-> b, word4 |-> "any", ip6 |-> ip,
                        scope |-> 0]
        BY <2>1, <2>4, <2>5, <3>1 DEF OfText, fromIpPort6, Zeros
      <3>3. meant' = [family |-> "AF_INET6", ip |-> ip, port |-> port]
        BY <2>1, <2>5, <3>1
      <3>4. ip \in IPs
        BY <2>3, <3>1 DEF inet_pton
      <3> QED BY <2>3, <2>4, <3>2, <3>3, <3>4 DEF AddrInv, IsAddress, IPOf
    <2>6. CASE ~(ipv6 \/ text.ipv6)
      <3>1. PICK ip : ip = IF inet_pton("AF_INET", text) THEN text.ip ELSE "any"
        OBVIOUS
      <3>2. address' = [family |-> "AF_INET", port |-> b, word4 |-> ip, ip6 |-> address.ip6,
                        scope |-> address.scope]
        BY <2>1, <2>4, <2>6, <3>1 DEF OfText, fromIpPort4, Zeros, Zeros4
      <3>3. meant' = [family |-> "AF_INET", ip |-> ip, port |-> port]
        BY <2>1, <2>6, <3>1
      <3>4. ip \in IPs
        BY <2>3, <3>1 DEF inet_pton
      <3> QED BY <1>1, <2>4, <3>2, <3>3, <3>4 DEF AddrInv, IsAddress, IPOf
    <2> QED BY <2>5, <2>6
  <1>4. ASSUME Resolve PROVE AddrInv'
    <2>1. PICK ip \in Hosts :
            /\ address' = [address EXCEPT !.word4 = ip]
            /\ meant' = IF address.family = "AF_INET" THEN [meant EXCEPT !.ip = ip] ELSE meant
      BY <1>4 DEF Resolve
    <2>2. ip \in IPs
      BY DEF IPs
    <2>3. address' = [family |-> address.family, port |-> address.port, word4 |-> ip,
                      ip6 |-> address.ip6, scope |-> address.scope]
      BY <1>1, <2>1 DEF IsAddress
    <2>4. meant' = [family |-> address.family, port |-> meant.port,
                    ip |-> IF address.family = "AF_INET" THEN ip ELSE meant.ip]
      BY <2>1 DEF AddrInv
    <2> QED BY <1>1, <2>2, <2>3, <2>4 DEF AddrInv, IsAddress, IPOf
  <1>5. ASSUME setScopeId PROVE AddrInv'
    <2>1. address' = [family |-> address.family, port |-> address.port,
                      word4 |-> address.word4, ip6 |-> address.ip6, scope |-> 1]
          /\ meant' = meant
      BY <1>1, <1>5 DEF IsAddress, setScopeId
    <2> QED BY <1>1, <2>1 DEF AddrInv, IsAddress, IPOf
  <1>6. ASSUME UNCHANGED addressVars PROVE AddrInv'
    BY <1>6 DEF addressVars, AddrInv, IsAddress, IPOf
  <1> QED BY <1>2, <1>3, <1>4, <1>5, <1>6 DEF AddressNext

(* The text is that of the address meant, reads back as the same, and is   *)
(* the same for both ends just when the socket is connected to itself.     *)
LEMMA AddressHolds == AddrInv => AddressesRight
  <1> SUFFICES ASSUME AddrInv, meant.family # "AF_UNSPEC"
               PROVE  AddressesRight
    BY DEF AddressesRight
  <1>f. meant.family = address.family
    BY DEF AddrInv
  <1> DEFINE v6 == address.family = "AF_INET6"
             port == meant.port
             textOf(a) == [brackets |-> a.family = "AF_INET6", ip |-> toIp(a),
                           port |-> networkToHost16(a.port)]
  <1>1. /\ IsAddress(address) /\ address.word4 \in IPs /\ address.ip6 \in IPs
        /\ address.family \in {"AF_INET", "AF_INET6"} /\ meant.family = address.family
        /\ port \in Port /\ address.port = hostToNetwork16(port) /\ IPOf(address) = meant.ip
        /\ meant.ip \in IPs
    BY <1>f DEF AddrInv, IPOf
  <1>2. networkToHost16(address.port) = port
    BY <1>1, PortsComeBack
  <1>3. toIp(address) = [ipv6 |-> v6, ip |-> meant.ip]
    BY <1>1 DEF toIp, IPOf
  <1>4. toIpPort(address) = [brackets |-> meant.family = "AF_INET6", port |-> meant.port,
                             ip |-> [ipv6 |-> meant.family = "AF_INET6", ip |-> meant.ip]]
    BY <1>1, <1>2, <1>3 DEF toIpPort
  <1>5. ASSUME NEW again, again = OfText(toIp(address), networkToHost16(address.port), FALSE)
        PROVE  again.family = address.family /\ toIpPort(again) = toIpPort(address)
    <2>1. meant.ip # "malformed"
      BY <1>1, AddressAssumption DEF IPs
    <2>t. PICK t : t = toIp(address)
      OBVIOUS
    <2>r. t.ipv6 = v6 /\ t.ip = meant.ip
      BY <1>3, <2>t
    <2>a. again = OfText(t, port, FALSE)
      BY <1>2, <1>5, <2>t
    <2>2. CASE v6
      <3>1. again = [family |-> "AF_INET6", port |-> hostToNetwork16(port), word4 |-> "any",
                     ip6 |-> meant.ip, scope |-> 0]
        <4>1. inet_pton("AF_INET6", t)
          BY <2>1, <2>2, <2>r DEF inet_pton
        <4>2. again = fromIpPort6(t, port, Zeros)
          BY <2>2, <2>a, <2>r DEF OfText
        <4> QED BY <2>r, <4>1, <4>2 DEF fromIpPort6, Zeros
      <3>2. /\ again.family = "AF_INET6" /\ again.port = address.port
            /\ toIp(again) = [ipv6 |-> TRUE, ip |-> meant.ip]
        BY <1>1, <3>1 DEF toIp
      <3>3. toIp(address) = [ipv6 |-> TRUE, ip |-> meant.ip]
        BY <1>3, <2>2
      <3> QED BY <2>2, <3>2, <3>3 DEF toIpPort
    <2>3. CASE ~v6
      <3>1. again = [family |-> "AF_INET", port |-> hostToNetwork16(port),
                     word4 |-> meant.ip, ip6 |-> address.ip6, scope |-> address.scope]
        <4>1. inet_pton("AF_INET", t)
          BY <2>1, <2>3, <2>r DEF inet_pton
        <4>2. again = fromIpPort4(t, port, Zeros4)
          BY <2>3, <2>a, <2>r DEF OfText
        <4> QED BY <2>r, <4>1, <4>2 DEF fromIpPort4, Zeros4, Zeros
      <3>2. /\ again.family = "AF_INET" /\ again.port = address.port
            /\ toIp(again) = [ipv6 |-> FALSE, ip |-> meant.ip]
        BY <1>1, <3>1 DEF toIp
      <3>3. toIp(address) = [ipv6 |-> FALSE, ip |-> meant.ip] /\ address.family = "AF_INET"
        BY <1>1, <1>3, <2>3
      <3> QED BY <3>2, <3>3 DEF toIpPort
    <2> QED BY <2>2, <2>3
  <1>6. ASSUME NEW peer \in OtherEnds, peer.family = address.family
        PROVE  isSelfConnect(address, peer) <=> toIpPort(peer) = toIpPort(address)
    <2>1. PICK q \in Port : peer.port = hostToNetwork16(q)
      <3>1. CASE \E r \in Port : peer = [address EXCEPT !.port = hostToNetwork16(r)]
        <4>1. PICK r \in Port : peer = [address EXCEPT !.port = hostToNetwork16(r)]
          BY <3>1
        <4>2. peer.port = hostToNetwork16(r)
          BY <1>1, <4>1 DEF IsAddress
        <4> QED BY <4>2
      <3>2. CASE peer = Zeros
        BY <1>1, <1>6, <3>2 DEF Zeros
      <3>3. CASE peer \in {address, [address EXCEPT !.word4 = "any"],
                           [address EXCEPT !.ip6 = "any"]}
        <4>1. peer.port = address.port
          BY <1>1, <3>3 DEF IsAddress
        <4> QED BY <1>1, <4>1
      <3> QED BY <3>1, <3>2, <3>3 DEF OtherEnds
    <2>2. networkToHost16(peer.port) = q
      BY <2>1, PortsComeBack
    <2>3. address.port = peer.port <=> port = q
      BY <1>1, <1>2, <2>1, <2>2
    <2>4. toIp(peer) = [ipv6 |-> v6, ip |-> IPOf(peer)]
      BY <1>1, <1>6 DEF toIp, IPOf
    <2>5. isSelfConnect(address, peer) <=> address.port = peer.port /\ IPOf(peer) = meant.ip
      BY <1>1, <1>6 DEF isSelfConnect, IPOf
    <2>6. toIpPort(peer) = [brackets |-> v6, port |-> q, ip |-> [ipv6 |-> v6, ip |-> IPOf(peer)]]
      BY <1>6, <2>2, <2>4 DEF toIpPort
    <2>7. toIpPort(address) = [brackets |-> v6, port |-> port,
                               ip |-> [ipv6 |-> v6, ip |-> meant.ip]]
      BY <1>1, <1>2, <1>3 DEF toIpPort
    <2>8. toIpPort(peer) = toIpPort(address) <=> q = port /\ IPOf(peer) = meant.ip
      <3> HIDE DEF v6, port
      <3> QED BY <2>6, <2>7
    <2> QED BY <2>3, <2>5, <2>8
  <1> QED BY <1>4, <1>5, <1>6 DEF AddressesRight

----------------------------------------------------------------------------
(* Log lines.                                                              *)

(* What is streamed: numbers are shorter than the room asked for.          *)
Part == [is : {"text", "newline"}, len : Nat]
            \cup [is : {"number"}, len : 1 .. kMaxNumericSize - 1]
            \cup [is : {"time"}, len : Nat, second : Nat]

(* A part is as long as it is, and the sizes are those of the code.        *)
LEMMA PartsAre ==
    ASSUME NEW p \in Part
    PROVE  p.len \in Nat /\ (p.is = "number" => p.len < kMaxNumericSize)
           /\ kMaxNumericSize \in Nat /\ kSmallBuffer \in Nat
  <1>1. kMaxNumericSize \in Nat /\ kSmallBuffer \in Nat
    BY FormattingAssumption, LogLineAssumption
  <1> QED BY <1>1 DEF Part

(* The bytes that the first parts take.                                    *)
UsedTo(f, parts) == /\ f \in [0 .. Len(parts) -> Nat] /\ f[0] = 0
                    /\ \A i \in 1 .. Len(parts) : f[i] = f[i - 1] + parts[i].len

(* Used() is what its definition says.                                     *)
LEMMA UsedIs ==
    ASSUME NEW parts \in Seq(Part)
    PROVE  \E f : UsedTo(f, parts) /\ Used(parts) = f[Len(parts)]
  <1> DEFINE w == Len(parts)
             U(f) == f = [n \in 0 .. w |-> IF n = 0 THEN 0 ELSE f[n - 1] + parts[n].len]
             u == CHOOSE f : U(f)
             F == [i \in 1 .. w |-> [s \in Nat |-> s + parts[i].len]]
  <1>1. Used(parts) = u[w]
    BY DEF Used
  <1>2. w \in Nat /\ \A i \in 1 .. w : parts[i].len \in Nat
    <2>1. w \in Nat /\ \A i \in 1 .. w : parts[i] \in Part
      BY ElementOfSeq, LenProperties
    <2> QED BY <2>1, PartsAre
  <1>3. F \in [1 .. w -> [Nat -> Nat]]
    BY <1>2
  <1>4. PICK V : Applies(V, Nat, 0, F, w)
    <2> HIDE DEF F, w
    <2> QED BY <1>2, <1>3, ApplicationsExist
  <1>5. /\ V \in [0 .. w -> Nat] /\ V[0] = 0
        /\ \A i \in 1 .. w : V[i] = F[i][V[i - 1]]
    BY <1>4 DEF Applies
  <1>6. ASSUME NEW i \in 1 .. w PROVE V[i] = V[i - 1] + parts[i].len
    <2>1. i - 1 \in 0 .. w
      BY <1>2
    <2> QED BY <1>5, <2>1
  <1>7. U(V)
    <2> DEFINE R == [n \in 0 .. w |-> IF n = 0 THEN 0 ELSE V[n - 1] + parts[n].len]
    <2>1. ASSUME NEW n \in 0 .. w PROVE V[n] = R[n]
      BY <1>2, <1>5, <1>6
    <2> HIDE DEF R
    <2>2. DOMAIN R = 0 .. w /\ R = [n \in 0 .. w |-> R[n]]
      BY DEF R
    <2>3. V = [n \in 0 .. w |-> V[n]]
      BY <1>5
    <2>4. V = R
      BY <2>1, <2>2, <2>3
    <2> QED BY <2>4 DEF R
  <1> HIDE DEF U
  <1>8. U(u)
    BY <1>7
  <1> HIDE DEF u
  <1>9. /\ DOMAIN u = 0 .. w
        /\ \A n \in 0 .. w : u[n] = IF n = 0 THEN 0 ELSE u[n - 1] + parts[n].len
        /\ u = [n \in 0 .. w |-> u[n]]
    BY <1>8 DEF U
  <1>10. ASSUME NEW n \in 0 .. w PROVE u[n] = V[n]
    <2> DEFINE Bad == {i \in 0 .. w : u[i] # V[i]}
    <2> SUFFICES ASSUME Bad # {} PROVE FALSE
      OBVIOUS
    <2>1. Bad \subseteq Nat
      BY <1>2
    <2>2. PICK i \in Bad : \A y \in Bad : ~(y < i)
      BY <2>1, LeastNumber
    <2>3. i # 0
      BY <1>5, <1>9, <2>2
    <2>4. i \in 1 .. w /\ i - 1 \in 0 .. w /\ i - 1 < i
      BY <1>2, <2>2, <2>3
    <2>5. u[i - 1] = V[i - 1]
      BY <2>2, <2>4
    <2>6. u[i] = u[i - 1] + parts[i].len
      BY <1>9, <2>2, <2>3
    <2> QED BY <1>6, <2>2, <2>4, <2>5, <2>6
  <1>11. w \in 0 .. w
    BY <1>2
  <1>12. UsedTo(V, parts)
    BY <1>5, <1>6 DEF UsedTo
  <1> QED BY <1>1, <1>10, <1>11, <1>12

(* Nothing is used of an empty buffer.                                     *)
LEMMA UsedStarts == Used(<<>>) = 0
  <1>1. <<>> \in Seq(Part) /\ Len(<<>>) = 0
    BY EmptySeq
  <1>2. PICK f : UsedTo(f, <<>>) /\ Used(<<>>) = f[Len(<<>>)]
    BY <1>1, UsedIs
  <1> QED BY <1>1, <1>2 DEF UsedTo

(* A part more takes its length.                                           *)
LEMMA UsedGrows ==
    ASSUME NEW parts \in Seq(Part), NEW p \in Part
    PROVE  /\ Used(parts) \in Nat /\ Used(Append(parts, p)) = Used(parts) + p.len
           /\ Append(parts, p) \in Seq(Part)
  <1> DEFINE more == Append(parts, p)
             w == Len(parts)
  <1>1. /\ more \in Seq(Part) /\ Len(more) = w + 1 /\ w \in Nat
        /\ more[w + 1] = p /\ \A i \in 1 .. w : more[i] = parts[i]
    BY AppendProperties, LenProperties
  <1>2. PICK f : UsedTo(f, parts) /\ Used(parts) = f[w]
    BY UsedIs
  <1>3. PICK g : UsedTo(g, more) /\ Used(more) = g[Len(more)]
    BY <1>1, UsedIs
  <1>4. /\ f \in [0 .. w -> Nat] /\ f[0] = 0
        /\ \A i \in 1 .. w : f[i] = f[i - 1] + parts[i].len
    BY <1>2 DEF UsedTo
  <1> HIDE DEF more
  <1>5. /\ g[0] = 0 /\ \A i \in 1 .. w + 1 : g[i] = g[i - 1] + more[i].len
    BY <1>1, <1>3 DEF UsedTo
  <1> HIDE DEF w
  <1>6. f[w] = g[w]
    <2> DEFINE Bad == {i \in 0 .. w : f[i] # g[i]}
    <2> SUFFICES ASSUME Bad # {} PROVE FALSE
      <3> w \in 0 .. w
        BY <1>1
      <3> QED OBVIOUS
    <2>1. Bad \subseteq Nat
      BY <1>1
    <2>2. PICK i \in Bad : \A y \in Bad : ~(y < i)
      BY <2>1, LeastNumber
    <2>3. i # 0
      BY <1>4, <1>5, <2>2
    <2>4. i \in 1 .. w /\ i \in 1 .. w + 1 /\ i - 1 \in 0 .. w /\ i - 1 < i
      BY <1>1, <2>2, <2>3
    <2>5. f[i - 1] = g[i - 1]
      BY <2>2, <2>4
    <2>6. f[i] = f[i - 1] + parts[i].len /\ g[i] = g[i - 1] + more[i].len
      BY <1>4, <1>5, <2>4
    <2>7. more[i] = parts[i]
      BY <1>1, <2>4
    <2> QED BY <2>2, <2>5, <2>6, <2>7
  <1>7. g[w + 1] = g[w] + p.len
    <2>1. w + 1 \in 1 .. w + 1 /\ (w + 1) - 1 = w
      BY <1>1
    <2>2. g[w + 1] = g[(w + 1) - 1] + more[w + 1].len
      BY <1>5, <2>1
    <2> QED BY <1>1, <2>1, <2>2
  <1>8. f[w] \in Nat
    <2>1. w \in 0 .. w
      BY <1>1
    <2> QED BY <1>4, <2>1
  <1> QED BY <1>1, <1>2, <1>3, <1>6, <1>7, <1>8 DEF more

(* A part is added or left out, and the buffer is never full.              *)
LEMMA StreamedIs ==
    ASSUME NEW parts \in Seq(Part), NEW p \in Part
    PROVE  /\ Streamed(parts, p) = parts \/ Streamed(parts, p) = Append(parts, p)
           /\ Streamed(parts, p) \in Seq(Part)
           /\ Used(parts) < kSmallBuffer => Used(Streamed(parts, p)) < kSmallBuffer
           /\ p.len + kMaxNumericSize + Used(parts) <= kSmallBuffer /\ p.is = "number"
                 => Streamed(parts, p) = Append(parts, p)
           /\ p.len + Used(parts) < kSmallBuffer /\ p.is # "number"
                 => Streamed(parts, p) = Append(parts, p)
  <1> DEFINE room == IF p.is = "number" THEN avail(parts) >= kMaxNumericSize
                     ELSE Fits(parts, p.len)
             u == Used(parts)
             l == p.len
  <1>1. Streamed(parts, p) = IF room THEN Append(parts, p) ELSE parts
    BY DEF Streamed
  <1>2. /\ u \in Nat /\ Used(Append(parts, p)) = u + l /\ Append(parts, p) \in Seq(Part)
    BY UsedGrows
  <1>3. l \in Nat /\ (p.is = "number" => l < kMaxNumericSize)
        /\ kMaxNumericSize \in Nat /\ kSmallBuffer \in Nat
    BY PartsAre
  <1>4. room <=> IF p.is = "number" THEN kSmallBuffer - u >= kMaxNumericSize
                 ELSE kSmallBuffer - u > l
    BY DEF Fits, avail
  <1> HIDE DEF room, u, l
  <1>5. room => u + l < kSmallBuffer
    BY <1>2, <1>3, <1>4
  <1>6. p.is = "number" /\ l + kMaxNumericSize + u <= kSmallBuffer => room
    <2>1. l + kMaxNumericSize + u <= kSmallBuffer => kSmallBuffer - u >= kMaxNumericSize
      BY <1>2, <1>3
    <2> QED BY <1>4, <2>1
  <1>7. p.is # "number" /\ l + u < kSmallBuffer => room
    <2>1. l + u < kSmallBuffer => kSmallBuffer - u > l
      BY <1>2, <1>3
    <2> QED BY <1>4, <2>1
  <1> QED BY <1>1, <1>2, <1>5, <1>6, <1>7 DEF u, l

(* AllStreamed() is what its definition says.                              *)
StreamedTo(V, parts, more) ==
    /\ V \in [0 .. Len(more) -> Seq(Part)] /\ V[0] = parts
    /\ \A i \in 1 .. Len(more) : V[i] = Streamed(V[i - 1], more[i])

(* As for Used().                                                          *)
LEMMA AllStreamedIs ==
    ASSUME NEW parts \in Seq(Part), NEW more \in Seq(Part)
    PROVE  \E V : StreamedTo(V, parts, more) /\ AllStreamed(parts, more) = V[Len(more)]
  <1> DEFINE w == Len(more)
             S == Seq(Part)
             U(f) == f = [n \in 0 .. w |-> IF n = 0 THEN parts ELSE Streamed(f[n - 1], more[n])]
             u == CHOOSE f : U(f)
             F == [i \in 1 .. w |-> [s \in S |-> Streamed(s, more[i])]]
  <1>1. AllStreamed(parts, more) = u[w]
    BY DEF AllStreamed
  <1>2. w \in Nat /\ \A i \in 1 .. w : more[i] \in Part
    BY ElementOfSeq, LenProperties
  <1>3. F \in [1 .. w -> [S -> S]]
    <2>1. \A i \in 1 .. w : \A s \in S : Streamed(s, more[i]) \in S
      BY <1>2, StreamedIs
    <2> HIDE DEF S
    <2> QED BY <2>1
  <1>4. PICK V : Applies(V, S, parts, F, w)
    <2> HIDE DEF F, w
    <2> QED BY <1>2, <1>3, ApplicationsExist
  <1>5. /\ V \in [0 .. w -> S] /\ V[0] = parts
        /\ \A i \in 1 .. w : V[i] = F[i][V[i - 1]]
    BY <1>4 DEF Applies
  <1> HIDE DEF S
  <1>6. ASSUME NEW i \in 1 .. w PROVE V[i] = Streamed(V[i - 1], more[i])
    <2>1. i - 1 \in 0 .. w
      BY <1>2
    <2>2. V[i - 1] \in S
      BY <1>5, <2>1
    <2> QED BY <1>5, <2>2
  <1>7. U(V)
    <2> DEFINE R == [n \in 0 .. w |-> IF n = 0 THEN parts ELSE Streamed(V[n - 1], more[n])]
    <2>1. ASSUME NEW n \in 0 .. w PROVE V[n] = R[n]
      BY <1>2, <1>5, <1>6
    <2> HIDE DEF R
    <2>2. DOMAIN R = 0 .. w /\ R = [n \in 0 .. w |-> R[n]]
      BY DEF R
    <2>3. V = [n \in 0 .. w |-> V[n]]
      BY <1>5
    <2>4. V = R
      BY <2>1, <2>2, <2>3
    <2> QED BY <2>4 DEF R
  <1> HIDE DEF U
  <1>8. U(u)
    BY <1>7
  <1> HIDE DEF u
  <1>9. \A n \in 0 .. w : u[n] = IF n = 0 THEN parts ELSE Streamed(u[n - 1], more[n])
    BY <1>8 DEF U
  <1>10. ASSUME NEW n \in 0 .. w PROVE u[n] = V[n]
    <2> DEFINE Bad == {i \in 0 .. w : u[i] # V[i]}
    <2> SUFFICES ASSUME Bad # {} PROVE FALSE
      OBVIOUS
    <2>1. Bad \subseteq Nat
      BY <1>2
    <2>2. PICK i \in Bad : \A y \in Bad : ~(y < i)
      BY <2>1, LeastNumber
    <2>3. i # 0
      BY <1>5, <1>9, <2>2
    <2>4. i \in 1 .. w /\ i - 1 \in 0 .. w /\ i - 1 < i
      BY <1>2, <2>2, <2>3
    <2>5. u[i - 1] = V[i - 1]
      BY <2>2, <2>4
    <2>6. u[i] = Streamed(u[i - 1], more[i])
      BY <1>9, <2>2, <2>3
    <2> QED BY <1>6, <2>2, <2>4, <2>5, <2>6
  <1>11. w \in 0 .. w
    BY <1>2
  <1>12. StreamedTo(V, parts, more)
    BY <1>5, <1>6 DEF StreamedTo, S
  <1> QED BY <1>1, <1>10, <1>11, <1>12

(* What a sequence of parts begins with.                                   *)
StartsWith(s, t) == Len(t) <= Len(s) /\ \A i \in 1 .. Len(t) : s[i] = t[i]

(* It is the prefix.                                                       *)
LEMMA StartIsPrefix ==
    ASSUME NEW s \in Seq(Part), NEW t \in Seq(Part), StartsWith(s, t)
    PROVE  IsPrefix(t, s)
  <1>1. Len(s) \in Nat /\ Len(t) \in Nat /\ Len(t) <= Len(s)
        /\ \A i \in 1 .. Len(t) : s[i] = t[i]
    BY LenProperties DEF StartsWith
  <1>2. SubSeq(t, 1, Len(t)) = t
    BY SubSeqFull
  <1>3. SubSeq(s, 1, Len(t)) \in Seq(Part) /\ Len(SubSeq(s, 1, Len(t))) = Len(t)
        /\ \A i \in 1 .. Len(t) : SubSeq(s, 1, Len(t))[i] = s[i]
    <2>1. \A i \in 1 .. Len(t) : s[i] \in Part
      BY <1>1, ElementOfSeq
    <2> QED BY <1>1, <2>1
  <1>4. SubSeq(s, 1, Len(t)) = t
    BY <1>1, <1>3, SeqEqual
  <1> QED BY <1>1, <1>2, <1>4 DEF IsPrefix

(* Streaming more leaves what there is, and never fills the buffer; of the *)
(* last one only what has no room is left out.                             *)
LEMMA MoreStreamed ==
    ASSUME NEW parts \in Seq(Part), Used(parts) < kSmallBuffer, NEW more \in Seq(Part)
    PROVE  /\ AllStreamed(parts, more) \in Seq(Part)
           /\ Used(AllStreamed(parts, more)) < kSmallBuffer
           /\ StartsWith(AllStreamed(parts, more), parts)
           /\ Len(more) > 0 =>
                 \E before \in Seq(Part) :
                    /\ Used(before) < kSmallBuffer
                    /\ AllStreamed(parts, more) = Streamed(before, more[Len(more)])
  <1> DEFINE w == Len(more)
  <1>1. PICK V : StreamedTo(V, parts, more) /\ AllStreamed(parts, more) = V[w]
    BY AllStreamedIs
  <1>2. w \in Nat /\ \A i \in 1 .. w : more[i] \in Part
    BY ElementOfSeq, LenProperties
  <1>3. /\ V \in [0 .. w -> Seq(Part)] /\ V[0] = parts
        /\ \A i \in 1 .. w : V[i] = Streamed(V[i - 1], more[i])
    BY <1>1 DEF StreamedTo
  <1> HIDE DEF w
  <1> DEFINE Right(i) == Used(V[i]) < kSmallBuffer /\ StartsWith(V[i], parts)
  <1>4. ASSUME NEW n \in 0 .. w PROVE Right(n)
    <2> DEFINE Bad == {i \in 0 .. w : ~Right(i)}
    <2> SUFFICES ASSUME Bad # {} PROVE FALSE
      OBVIOUS
    <2>1. Bad \subseteq Nat
      BY <1>2
    <2>2. PICK i \in Bad : \A y \in Bad : ~(y < i)
      BY <2>1, LeastNumber
    <2>3. i # 0
      <3>1. Right(0)
        BY <1>3 DEF StartsWith
      <3> QED BY <2>2, <3>1
    <2>4. i \in 1 .. w /\ i - 1 \in 0 .. w /\ i - 1 < i
      BY <1>2, <2>2, <2>3
    <2>5. Right(i - 1)
      BY <2>2, <2>4
    <2>6. PICK s \in Seq(Part) : s = V[i - 1]
      BY <1>3, <2>4
    <2>7. V[i] = Streamed(s, more[i]) /\ more[i] \in Part
      BY <1>2, <1>3, <2>4, <2>6
    <2>8. Used(V[i]) < kSmallBuffer /\ (V[i] = s \/ V[i] = Append(s, more[i]))
      BY <2>5, <2>6, <2>7, StreamedIs
    <2>9. StartsWith(V[i], parts)
      <3>1. CASE V[i] = s
        BY <2>5, <2>6, <3>1
      <3>2. CASE V[i] = Append(s, more[i])
        <4>1. Len(V[i]) = Len(s) + 1 /\ Len(s) \in Nat /\ Len(parts) \in Nat
              /\ \A j \in 1 .. Len(s) : V[i][j] = s[j]
          BY <2>7, <3>2, AppendProperties, LenProperties
        <4>2. Len(parts) <= Len(s) /\ \A j \in 1 .. Len(parts) : s[j] = parts[j]
          BY <2>5, <2>6 DEF StartsWith
        <4> QED BY <4>1, <4>2 DEF StartsWith
      <3> QED BY <2>8, <3>1, <3>2
    <2> QED BY <2>2, <2>8, <2>9
  <1>5. V[w] \in Seq(Part) /\ Right(w)
    <2>1. w \in 0 .. w
      BY <1>2
    <2> QED BY <1>3, <1>4, <2>1
  <1>6. ASSUME w > 0
        PROVE  \E before \in Seq(Part) :
                    /\ Used(before) < kSmallBuffer
                    /\ V[w] = Streamed(before, more[w])
    <2>1. w \in 1 .. w /\ w - 1 \in 0 .. w
      BY <1>2, <1>6
    <2>2. V[w - 1] \in Seq(Part) /\ Right(w - 1) /\ V[w] = Streamed(V[w - 1], more[w])
      BY <1>3, <1>4, <2>1
    <2> QED BY <2>2
  <1> QED BY <1>1, <1>5, <1>6 DEF w

(* What fits with a number to spare is streamed as it is.                  *)
LEMMA AllFit ==
    ASSUME NEW h \in Seq(Part), Used(h) + kMaxNumericSize <= kSmallBuffer,
           kMaxNumericSize > 0
    PROVE  AllStreamed(<<>>, h) = h
  <1> DEFINE w == Len(h)
             none == <<>>
  <1>0. none \in Seq(Part) /\ Len(none) = 0
    BY EmptySeq
  <1>1. PICK V : StreamedTo(V, none, h) /\ AllStreamed(none, h) = V[w]
    BY <1>0, AllStreamedIs
  <1>2. w \in Nat /\ \A i \in 1 .. w : h[i] \in Part
    BY ElementOfSeq, LenProperties
  <1>3. /\ V \in [0 .. w -> Seq(Part)] /\ V[0] = none
        /\ \A i \in 1 .. w : V[i] = Streamed(V[i - 1], h[i])
    BY <1>1 DEF StreamedTo
  <1>4. PICK f : UsedTo(f, h) /\ Used(h) = f[w]
    BY UsedIs
  <1>5. /\ f \in [0 .. w -> Nat] /\ f[0] = 0
        /\ \A i \in 1 .. w : f[i] = f[i - 1] + h[i].len
    BY <1>4 DEF UsedTo
  <1>k. kSmallBuffer \in Nat /\ kMaxNumericSize \in Nat
    BY FormattingAssumption, LogLineAssumption
  <1>u. Used(none) = 0
    BY UsedStarts
  <1> HIDE DEF w, none
  <1>6. ASSUME NEW j \in 0 .. w PROVE f[w - j] <= f[w]
    <2> DEFINE Bad == {i \in 0 .. w : ~(f[w - i] <= f[w])}
    <2> SUFFICES ASSUME Bad # {} PROVE FALSE
      OBVIOUS
    <2>1. Bad \subseteq Nat
      BY <1>2
    <2>2. PICK i \in Bad : \A y \in Bad : ~(y < i)
      BY <2>1, LeastNumber
    <2>0. w - 0 = w /\ w \in 0 .. w
      BY <1>2
    <2>3. i # 0
      <3>1. f[w] \in Nat
        BY <1>5, <2>0
      <3>2. f[w - 0] <= f[w]
        BY <2>0, <3>1
      <3> QED BY <2>2, <3>2
    <2>4. /\ i - 1 \in 0 .. w /\ i - 1 < i /\ w - i \in 0 .. w /\ w - (i - 1) \in 1 .. w
          /\ (w - (i - 1)) - 1 = w - i /\ w - (i - 1) \in 0 .. w
      BY <1>2, <2>2, <2>3
    <2>5. f[w - (i - 1)] <= f[w]
      BY <2>2, <2>4
    <2>6. f[w - (i - 1)] = f[w - i] + h[w - (i - 1)].len
      BY <1>5, <2>4
    <2>7. h[w - (i - 1)].len \in Nat
      BY <1>2, <2>4, PartsAre
    <2>8. f[w - i] \in Nat /\ f[w - (i - 1)] \in Nat /\ f[w] \in Nat
      BY <1>5, <2>0, <2>4
    <2>9. f[w - i] <= f[w]
      BY <2>5, <2>6, <2>7, <2>8
    <2> QED BY <2>2, <2>9
  <1> DEFINE Right(i) == /\ Len(V[i]) = i /\ \A j \in 1 .. i : V[i][j] = h[j]
                         /\ Used(V[i]) = f[i]
  <1>7. ASSUME NEW n \in 0 .. w PROVE Right(n)
    <2> DEFINE Bad == {i \in 0 .. w : ~Right(i)}
    <2> SUFFICES ASSUME Bad # {} PROVE FALSE
      OBVIOUS
    <2>1. Bad \subseteq Nat
      BY <1>2
    <2>2. PICK i \in Bad : \A y \in Bad : ~(y < i)
      BY <2>1, LeastNumber
    <2>3. i # 0
      <3>1. Right(0)
        BY <1>0, <1>3, <1>5, <1>u
      <3> QED BY <2>2, <3>1
    <2>4. i \in 1 .. w /\ i - 1 \in 0 .. w /\ i - 1 < i /\ i \in 0 .. w
      BY <1>2, <2>2, <2>3
    <2>5. Right(i - 1)
      BY <2>2, <2>4
    <2>6. PICK s \in Seq(Part) : s = V[i - 1]
      BY <1>3, <2>4
    <2>7. PICK p \in Part : p = h[i]
      BY <1>2, <2>4
    <2>8. V[i] = Streamed(s, p)
      BY <1>3, <2>4, <2>6, <2>7
    <2>9. f[i] = Used(s) + p.len
      BY <1>5, <2>4, <2>5, <2>6, <2>7
    <2>10. f[i] <= f[w]
      <3>1. w - i \in 0 .. w /\ w - (w - i) = i
        BY <1>2, <2>4
      <3>2. f[w - (w - i)] <= f[w]
        BY <1>6, <3>1
      <3> QED BY <3>1, <3>2
    <2>11. p.len \in Nat /\ Used(s) \in Nat /\ f[w] \in Nat
      <3>1. w \in 0 .. w
        BY <1>2
      <3> QED BY <1>5, <3>1, PartsAre, UsedGrows
    <2>12. p.len + kMaxNumericSize + Used(s) <= kSmallBuffer /\ p.len + Used(s) < kSmallBuffer
      BY <1>4, <1>k, <2>9, <2>10, <2>11
    <2>13. V[i] = Append(s, p)
      BY <2>8, <2>12, StreamedIs
    <2>14. Used(V[i]) = f[i]
      BY <2>9, <2>13, UsedGrows
    <2>15. Len(s) = i - 1 /\ \A j \in 1 .. i - 1 : s[j] = h[j]
      BY <2>5, <2>6
    <2>16. /\ Len(V[i]) = Len(s) + 1 /\ V[i][Len(s) + 1] = p
           /\ \A j \in 1 .. Len(s) : V[i][j] = s[j]
      BY <2>13, AppendProperties
    <2>17. Len(V[i]) = i /\ V[i][i] = h[i] /\ \A j \in 1 .. i - 1 : V[i][j] = h[j]
      BY <2>4, <2>7, <2>15, <2>16
    <2>18. \A j \in 1 .. i : j = i \/ j \in 1 .. i - 1
      BY <2>4
    <2> QED BY <2>2, <2>14, <2>17, <2>18
  <1>8. w \in 0 .. w
    BY <1>2
  <1>9. V[w] \in Seq(Part) /\ Len(V[w]) = w /\ \A j \in 1 .. w : V[w][j] = h[j]
    BY <1>3, <1>7, <1>8
  <1>10. V[w] = h
    BY <1>9, SeqEqual DEF w
  <1> QED BY <1>1, <1>10 DEF none

(* The sizes that the assumptions give.                                    *)
LEMMA Sizes ==
    /\ kMaxNumericSize \in Nat /\ kMaxNumericSize > 1 /\ kSmallBuffer \in Nat
    /\ NameLength \in Nat /\ 49 + NameLength + 2 * kMaxNumericSize <= kSmallBuffer
    /\ \A n \in Nat : Text(n) \in Part /\ Text(n).len = n
    /\ \A s \in Nat : Time(s) \in Part /\ Time(s).len = 17
    /\ \A v \in Logged \cup {ErrorNumber, LineNumber} :
          Number(v) \in Part /\ Number(v).len < kMaxNumericSize /\ Number(v).len \in Nat
    /\ Newline \in Part
  <1>1. kMaxNumericSize \in Nat /\ kSmallBuffer \in Nat /\ NameLength \in Nat
    BY FormattingAssumption, LogLineAssumption
  <1>2. ASSUME NEW v \in Logged \cup {ErrorNumber, LineNumber}
        PROVE  /\ Number(v) \in Part /\ Number(v).len < kMaxNumericSize
               /\ Number(v).len \in 1 .. kMaxNumericSize - 1
    <2>1. Len(convert(v)) \in 1 .. kMaxNumericSize - 1
      <3>1. v \in Int /\ InInt64(v)
        <4>1. CASE v \in Logged
          BY <4>1, TextsFit, SMT
        <4>2. CASE v \in {ErrorNumber, LineNumber}
          BY <4>2, SMT DEF InInt64, ErrorNumber, LineNumber
        <4> QED BY <4>1, <4>2, SMT
      <3> QED BY <3>1, ConvertFits, Zenon
    <2>2. PICK n \in 1 .. kMaxNumericSize - 1 : n = Len(convert(v))
      BY <2>1
    <2>3. Number(v) = [is |-> "number", len |-> n]
      BY <2>2 DEF Number
    <2>4. Number(v) \in [is : {"number"}, len : 1 .. kMaxNumericSize - 1] /\ Number(v).len = n
      BY <2>3
    <2>5. n < kMaxNumericSize
      BY <1>1
    <2> QED BY <2>4, <2>5 DEF Part
  <1>3. \A n \in Nat : Text(n) \in Part /\ Text(n).len = n
    BY DEF Text, Part
  <1>4. \A s \in Nat : Time(s) \in Part /\ Time(s).len = 17
    BY DEF Time, Part
  <1>5. kMaxNumericSize > 1
    <2>1. PICK m : m = Number(LineNumber).len
      OBVIOUS
    <2>2. m \in 1 .. kMaxNumericSize - 1
      BY <1>2, <2>1
    <2> QED BY <1>1, <2>2
  <1>6. Newline \in Part
    BY DEF Newline, Part
  <1>7. 49 + NameLength + 2 * kMaxNumericSize <= kSmallBuffer
    BY TextsFit
  <1> QED BY <1>1, <1>2, <1>3, <1>4, <1>5, <1>6, <1>7

(* What two sequences put together are.                                    *)
LEMMA PutTogether ==
    ASSUME NEW S, NEW s \in Seq(S), NEW t \in Seq(S), NEW u \in Seq(S),
           Len(u) = Len(s) + Len(t),
           \A k \in 1 .. Len(s) : u[k] = s[k],
           \A k \in 1 .. Len(t) : u[Len(s) + k] = t[k]
    PROVE  s \o t = u
  <1>0. PICK m \in Nat, n \in Nat : m = Len(s) /\ n = Len(t)
    BY LenProperties
  <1>1. /\ s \o t \in Seq(S) /\ Len(s \o t) = Len(s) + Len(t)
        /\ \A k \in 1 .. Len(s) + Len(t) :
              (s \o t)[k] = IF k <= Len(s) THEN s[k] ELSE t[k - Len(s)]
    BY ConcatProperties
  <1>2. ASSUME NEW k \in 1 .. Len(u) PROVE (s \o t)[k] = u[k]
    <2>1. k \in 1 .. m + n /\ (s \o t)[k] = IF k <= m THEN s[k] ELSE t[k - m]
      BY <1>0, <1>1
    <2>2. CASE k <= m
      <3>1. k \in 1 .. m
        BY <2>1, <2>2
      <3> QED BY <1>0, <2>1, <2>2, <3>1
    <2>3. CASE ~(k <= m)
      <3>1. k - m \in 1 .. n /\ m + (k - m) = k
        BY <1>0, <2>1, <2>3
      <3>2. u[m + (k - m)] = t[k - m]
        BY <1>0, <3>1
      <3> QED BY <2>1, <2>3, <3>1, <3>2
    <2> QED BY <2>2, <2>3
  <1> QED BY <1>1, <1>2, SeqEqual

(* Five parts and two.                                                     *)
LEMMA SevenParts ==
    ASSUME NEW a, NEW b, NEW c, NEW d, NEW e, NEW f, NEW g
    PROVE  <<a, b, c, d, e>> \o <<f, g>> = <<a, b, c, d, e, f, g>>
  <1> DEFINE S == {a, b, c, d, e, f, g}
             x == <<a, b, c, d, e>>
             y == <<f, g>>
             u == <<a, b, c, d, e, f, g>>
  <1>1. /\ x \in Seq(S) /\ y \in Seq(S) /\ u \in Seq(S)
        /\ Len(x) = 5 /\ Len(y) = 2 /\ Len(u) = 7
    OBVIOUS
  <1>2. /\ u[1] = x[1] /\ u[2] = x[2] /\ u[3] = x[3] /\ u[4] = x[4] /\ u[5] = x[5]
        /\ u[5 + 1] = y[1] /\ u[5 + 2] = y[2]
    OBVIOUS
  <1> HIDE DEF S, x, y, u
  <1>3. ASSUME NEW k \in 1 .. Len(x) PROVE u[k] = x[k]
    <2>1. k \in {1, 2, 3, 4, 5}
      BY <1>1
    <2> QED BY <1>2, <2>1
  <1>4. ASSUME NEW k \in 1 .. Len(y) PROVE u[Len(x) + k] = y[k]
    <2>1. k \in {1, 2} /\ Len(x) = 5
      BY <1>1
    <2> QED BY <1>2, <2>1
  <1>5. Len(u) = Len(x) + Len(y)
    BY <1>1
  <1>6. x \o y = u
    BY <1>1, <1>3, <1>4, <1>5, PutTogether
  <1> QED BY <1>6 DEF x, y, u

(* Five parts and four.                                                    *)
LEMMA NineParts ==
    ASSUME NEW a, NEW b, NEW c, NEW d, NEW e, NEW f, NEW g, NEW h, NEW i
    PROVE  <<a, b, c, d, e>> \o <<f, g, h, i>> = <<a, b, c, d, e, f, g, h, i>>
  <1> DEFINE S == {a, b, c, d, e, f, g, h, i}
             x == <<a, b, c, d, e>>
             y == <<f, g, h, i>>
             u == <<a, b, c, d, e, f, g, h, i>>
  <1>1. /\ x \in Seq(S) /\ y \in Seq(S) /\ u \in Seq(S)
        /\ Len(x) = 5 /\ Len(y) = 4 /\ Len(u) = 9
    OBVIOUS
  <1>2. /\ u[1] = x[1] /\ u[2] = x[2] /\ u[3] = x[3] /\ u[4] = x[4] /\ u[5] = x[5]
        /\ u[5 + 1] = y[1] /\ u[5 + 2] = y[2] /\ u[5 + 3] = y[3] /\ u[5 + 4] = y[4]
    OBVIOUS
  <1> HIDE DEF S, x, y, u
  <1>3. ASSUME NEW k \in 1 .. Len(x) PROVE u[k] = x[k]
    <2>1. k \in {1, 2, 3, 4, 5}
      BY <1>1
    <2> QED BY <1>2, <2>1
  <1>4. ASSUME NEW k \in 1 .. Len(y) PROVE u[Len(x) + k] = y[k]
    <2>1. k \in {1, 2, 3, 4} /\ Len(x) = 5
      BY <1>1
    <2> QED BY <1>2, <2>1
  <1>5. Len(u) = Len(x) + Len(y)
    BY <1>1
  <1>6. x \o y = u
    BY <1>1, <1>3, <1>4, <1>5, PutTogether
  <1> QED BY <1>6 DEF x, y, u

(* A header is whole, and what it takes leaves room for a number.          *)
LEMMA HeaderIs ==
    ASSUME NEW level \in 0 .. 5, NEW errno \in BOOLEAN, errno => level >= EERROR,
           NEW s \in Nat
    PROVE  /\ header(level, errno, s) \in Seq(Part) /\ Len(header(level, errno, s)) > 0
           /\ header(level, errno, s)[1] = Time(s)
           /\ AllStreamed(<<>>, header(level, errno, s)) = header(level, errno, s)
           /\ Used(header(level, errno, s)) < kSmallBuffer
  <1> DEFINE head == header(level, errno, s)
             n == NameLength
  <1>s. /\ kMaxNumericSize \in Nat /\ kMaxNumericSize > 1 /\ kSmallBuffer \in Nat
        /\ n \in Nat /\ 49 + n + 2 * kMaxNumericSize <= kSmallBuffer
    BY Sizes
  <1> DEFINE a == Time(s)
             b == Text(9)
             c == Text(6)
             d == Text(1)
             f == Text(n)
             g == Text(8)
             h == Number(ErrorNumber)
             i == Text(2)
  <1>p. /\ a \in Part /\ b \in Part /\ c \in Part /\ d \in Part /\ f \in Part /\ g \in Part
        /\ h \in Part /\ i \in Part
        /\ a.len = 17 /\ b.len = 9 /\ c.len = 6 /\ d.len = 1 /\ f.len = n /\ g.len = 8
        /\ i.len = 2 /\ h.len \in Nat /\ h.len < kMaxNumericSize
    BY Sizes
  <1>1. head = (<<a, b, c, d, c>> \o (IF errno THEN <<f, g, h, i>> ELSE <<>>))
                  \o (IF level < EINFO THEN <<f, d>> ELSE <<>>)
    BY DEF header
  <1>2. ~(errno /\ level < EINFO)
    BY DEF EERROR, EINFO
  <1>3. PICK m : m = h.len
    OBVIOUS
  <1> HIDE DEF head, a, b, c, d, f, g, h, i, n
  <1> DEFINE five == <<a, b, c, d, c>>
  <1>t. /\ five \o <<>> = five /\ five \o <<f, d>> = <<a, b, c, d, c, f, d>>
        /\ five \o <<f, g, h, i>> = <<a, b, c, d, c, f, g, h, i>>
        /\ <<a, b, c, d, c, f, g, h, i>> \o <<>> = <<a, b, c, d, c, f, g, h, i>>
    <2>1. five \in Seq(Part) /\ <<a, b, c, d, c, f, g, h, i>> \in Seq(Part)
      BY <1>p
    <2>2. five \o <<f, d>> = <<a, b, c, d, c, f, d>>
      BY SevenParts
    <2>3. five \o <<f, g, h, i>> = <<a, b, c, d, c, f, g, h, i>>
      BY NineParts
    <2> HIDE DEF five
    <2> QED BY <2>1, <2>2, <2>3, ConcatEmptySeq
  <1>m. m \in Nat /\ m < kMaxNumericSize
    BY <1>p, <1>3
  <1>4. /\ head \in Seq(Part) /\ Len(head) > 0 /\ head[1] = a
        /\ Used(head) \in Nat /\ Used(head) + kMaxNumericSize <= kSmallBuffer
    <2>1. CASE errno
      <3>1. head = <<a, b, c, d, c, f, g, h, i>>
        <4>1. ~(level < EINFO)
          BY <1>2, <2>1
        <4>2. head = (five \o <<f, g, h, i>>) \o <<>>
          BY <1>1, <2>1, <4>1
        <4> HIDE DEF five
        <4> QED BY <1>t, <4>2
      <3>2. head \in Seq(Part) /\ Len(head) = 9
        BY <1>p, <3>1
      <3>3. PICK u : UsedTo(u, head) /\ Used(head) = u[9]
        BY <3>2, UsedIs
      <3>4. /\ u[0] = 0 /\ u[1] = u[0] + 17 /\ u[2] = u[1] + 9 /\ u[3] = u[2] + 6
            /\ u[4] = u[3] + 1 /\ u[5] = u[4] + 6 /\ u[6] = u[5] + n /\ u[7] = u[6] + 8
            /\ u[8] = u[7] + m /\ u[9] = u[8] + 2
        BY <1>p, <1>3, <3>1, <3>2, <3>3 DEF UsedTo
      <3>5. Used(head) = 49 + n + m
        BY <1>s, <1>m, <3>3, <3>4
      <3> QED BY <1>s, <1>m, <3>1, <3>2, <3>5
    <2>2. CASE ~errno /\ level < EINFO
      <3>1. head = <<a, b, c, d, c, f, d>>
        <4>2. head = (five \o <<>>) \o <<f, d>>
          BY <1>1, <2>2
        <4> HIDE DEF five
        <4> QED BY <1>t, <4>2
      <3>2. head \in Seq(Part) /\ Len(head) = 7
        BY <1>p, <3>1
      <3>3. PICK u : UsedTo(u, head) /\ Used(head) = u[7]
        BY <3>2, UsedIs
      <3>4. /\ u[0] = 0 /\ u[1] = u[0] + 17 /\ u[2] = u[1] + 9 /\ u[3] = u[2] + 6
            /\ u[4] = u[3] + 1 /\ u[5] = u[4] + 6 /\ u[6] = u[5] + n /\ u[7] = u[6] + 1
        BY <1>p, <3>1, <3>2, <3>3 DEF UsedTo
      <3>5. Used(head) = 40 + n
        BY <1>s, <3>3, <3>4
      <3> QED BY <1>s, <3>1, <3>2, <3>5
    <2>3. CASE ~errno /\ ~(level < EINFO)
      <3>1. head = five
        <4>2. head = (five \o <<>>) \o <<>>
          BY <1>1, <2>3
        <4> HIDE DEF five
        <4> QED BY <1>t, <4>2
      <3>2. head \in Seq(Part) /\ Len(head) = 5
        BY <1>p, <3>1
      <3>3. PICK u : UsedTo(u, head) /\ Used(head) = u[5]
        BY <3>2, UsedIs
      <3>4. /\ u[0] = 0 /\ u[1] = u[0] + 17 /\ u[2] = u[1] + 9 /\ u[3] = u[2] + 6
            /\ u[4] = u[3] + 1 /\ u[5] = u[4] + 6
        BY <1>p, <3>1, <3>2, <3>3 DEF UsedTo
      <3>5. Used(head) = 39
        BY <1>s, <3>3, <3>4
      <3> QED BY <1>s, <3>1, <3>2, <3>5
    <2> QED BY <2>1, <2>2, <2>3
  <1>5. AllStreamed(<<>>, head) = head
    BY <1>s, <1>4, AllFit
  <1>6. Used(head) < kSmallBuffer
    BY <1>s, <1>4
  <1> QED BY <1>4, <1>5, <1>6 DEF head, a

(* A line begins with its header, and there is room for one byte.          *)
Line == [level : 0 .. 5, since : Nat, streamed : Nat, parts : Seq(Part)]

Begun(line) ==
    /\ Used(line.parts) < kSmallBuffer
    /\ \E errno \in BOOLEAN :
          /\ errno => line.level >= EERROR
          /\ StartsWith(line.parts, header(line.level, errno, line.since))

(* It ends with a newline, or one byte is left.                            *)
Ended(parts) == parts[Len(parts)] = Newline \/ avail(parts) = 1

(* The text kept is that of the second kept; lines being built have begun, *)
(* lines put out have ended, and a fatal one is the last.                  *)
LogInv ==
    /\ second \in Nat /\ t_lastSecond \in Nat /\ t_time = Time(t_lastSecond)
    /\ aborted \in BOOLEAN
    /\ building \in Seq(Line) /\ \A i \in 1 .. Len(building) : Begun(building[i])
    /\ output \in Seq(Line)
    /\ \A i \in 1 .. Len(output) :
          /\ Begun(output[i]) /\ Ended(output[i].parts)
          /\ output[i].level = EFATAL <=> i = Len(output) /\ aborted

(* Nothing is logged at the start.                                         *)
LEMMA LogBegins == LogInit => LogInv
  <1> SUFFICES ASSUME LogInit PROVE LogInv
    OBVIOUS
  <1>1. /\ second = 1 /\ t_lastSecond = 0 /\ t_time = Time(0) /\ aborted = FALSE
        /\ building = <<>> /\ output = <<>>
    BY DEF LogInit
  <1>2. <<>> \in Seq(Line) /\ Len(<<>>) = 0
    BY EmptySeq
  <1>3. \A i : ~(i \in 1 .. 0)
    OBVIOUS
  <1>4. building \in Seq(Line) /\ output \in Seq(Line) /\ Len(building) = 0 /\ Len(output) = 0
    BY <1>1, <1>2
  <1> QED BY <1>1, <1>3, <1>4 DEF LogInv

(* A line begins with the whole header, and the time of now.               *)
LEMMA LogKept ==
    ASSUME LogInv, NEW level \in 0 .. 5, NEW errno \in BOOLEAN, Log(level, errno)
    PROVE  LogInv'
  <1>1. /\ second \in Nat /\ t_lastSecond \in Nat /\ t_time = Time(t_lastSecond)
        /\ building \in Seq(Line) /\ \A i \in 1 .. Len(building) : Begun(building[i])
    BY DEF LogInv
  <1> DEFINE line == [level |-> level, since |-> second, streamed |-> 0,
                      parts |-> AllStreamed(<<>>, header(level, errno, t_time'.second))]
             head == header(level, errno, second)
  <1>2. /\ errno => level >= EERROR
        /\ t_lastSecond' = second
        /\ t_time' = IF second # t_lastSecond THEN Time(second) ELSE t_time
        /\ building' = Append(building, line)
        /\ output' = output /\ second' = second /\ aborted' = aborted
    BY DEF Log
  <1>3. t_time' = Time(second)
    BY <1>1, <1>2
  <1>4. t_time'.second = second
    BY <1>3 DEF Time
  <1>5. /\ head \in Seq(Part) /\ Len(head) > 0 /\ AllStreamed(<<>>, head) = head
        /\ Used(head) < kSmallBuffer
    BY <1>1, <1>2, HeaderIs
  <1>6. /\ line = [level |-> level, since |-> second, streamed |-> 0, parts |-> head]
    BY <1>4, <1>5
  <1> HIDE DEF line, head
  <1>7. /\ line \in Line /\ line.level = level /\ line.since = second /\ line.parts = head
    BY <1>1, <1>5, <1>6 DEF Line
  <1>8. StartsWith(head, head)
    <2>1. Len(head) \in Nat
      BY <1>5, LenProperties
    <2> QED BY <2>1 DEF StartsWith
  <1>9. Begun(line)
    BY <1>2, <1>5, <1>7, <1>8 DEF Begun, head
  <1>10. /\ building' \in Seq(Line) /\ Len(building') = Len(building) + 1
         /\ Len(building) \in Nat /\ building'[Len(building) + 1] = line
         /\ \A i \in 1 .. Len(building) : building'[i] = building[i]
    BY <1>1, <1>2, <1>7, AppendProperties, LenProperties
  <1>11. ASSUME NEW i \in 1 .. Len(building') PROVE Begun(building'[i])
    <2>1. i \in 1 .. Len(building) \/ i = Len(building) + 1
      BY <1>10
    <2> QED BY <1>1, <1>9, <1>10, <2>1
  <1>12. /\ second' \in Nat /\ t_lastSecond' \in Nat /\ t_time' = Time(t_lastSecond')
    BY <1>1, <1>2, <1>3
  <1>13. /\ aborted' \in BOOLEAN /\ output' \in Seq(Line)
         /\ \A i \in 1 .. Len(output') :
              /\ Begun(output'[i]) /\ Ended(output'[i].parts)
              /\ output'[i].level = EFATAL <=> i = Len(output') /\ aborted'
    BY <1>2 DEF LogInv
  <1> QED BY <1>10, <1>11, <1>12, <1>13 DEF LogInv

(* What a line begins with stays when more is streamed.                    *)
LEMMA BegunKept ==
    ASSUME NEW line, Begun(line), NEW more, more.level = line.level, more.since = line.since,
           Used(more.parts) < kSmallBuffer, StartsWith(more.parts, line.parts),
           line.parts \in Seq(Part), more.parts \in Seq(Part), line.level \in 0 .. 5,
           line.since \in Nat
    PROVE  Begun(more)
  <1>1. PICK errno \in BOOLEAN :
          /\ errno => line.level >= EERROR
          /\ StartsWith(line.parts, header(line.level, errno, line.since))
    BY DEF Begun
  <1>2. PICK h \in Seq(Part) : h = header(line.level, errno, line.since)
    BY <1>1, HeaderIs
  <1>3. StartsWith(line.parts, h) /\ Len(h) \in Nat /\ Len(line.parts) \in Nat
        /\ Len(more.parts) \in Nat
    BY <1>1, <1>2, LenProperties
  <1>4. StartsWith(more.parts, h)
    <2>1. Len(h) <= Len(more.parts)
      BY <1>3 DEF StartsWith
    <2>2. ASSUME NEW i \in 1 .. Len(h) PROVE more.parts[i] = h[i]
      <3>1. i \in 1 .. Len(line.parts)
        BY <1>3 DEF StartsWith
      <3> QED BY <1>3, <3>1 DEF StartsWith
    <2> QED BY <2>1, <2>2 DEF StartsWith
  <1> QED BY <1>1, <1>2, <1>4 DEF Begun

(* What is streamed leaves what there is.                                  *)
LEMMA StreamKept ==
    ASSUME LogInv, NEW more \in Part, Stream(more)
    PROVE  LogInv'
  <1>1. /\ building \in Seq(Line) /\ \A i \in 1 .. Len(building) : Begun(building[i])
    BY DEF LogInv
  <1> DEFINE k == Len(building)
             old == building[k]
             new == [old EXCEPT !.parts = Streamed(@, more), !.streamed = @ + 1]
  <1>2. /\ building # <<>>
        /\ building' = [building EXCEPT ![k].parts = Streamed(@, more),
                                        ![k].streamed = @ + 1]
        /\ output' = output /\ second' = second /\ aborted' = aborted
        /\ t_lastSecond' = t_lastSecond /\ t_time' = t_time
    BY DEF Stream, Inner
  <1>3. k \in Nat /\ k \in 1 .. k /\ DOMAIN building = 1 .. k
    BY <1>1, <1>2, LenProperties, EmptySeq
  <1>4. old \in Line /\ Begun(old)
    BY <1>1, <1>3, ElementOfSeq
  <1>5. /\ old.parts \in Seq(Part) /\ old.level \in 0 .. 5 /\ old.since \in Nat
        /\ old.streamed \in Nat /\ Used(old.parts) < kSmallBuffer
    BY <1>4 DEF Line, Begun
  <1>6. /\ Streamed(old.parts, more) \in Seq(Part)
        /\ Used(Streamed(old.parts, more)) < kSmallBuffer
        /\ \/ Streamed(old.parts, more) = old.parts
           \/ Streamed(old.parts, more) = Append(old.parts, more)
    BY <1>5, StreamedIs
  <1>7. building' = [building EXCEPT ![k] = new]
    BY <1>2, <1>3
  <1>8. /\ new.parts = Streamed(old.parts, more) /\ new.level = old.level
        /\ new.since = old.since /\ new \in Line
    <2>1. PICK l \in 0 .. 5, s \in Nat, n \in Nat, p \in Seq(Part) :
               old = [level |-> l, since |-> s, streamed |-> n, parts |-> p]
      BY <1>4 DEF Line
    <2>2. PICK q \in Seq(Part) : q = Streamed(old.parts, more)
      BY <1>6
    <2>3. new = [old EXCEPT !.parts = q, !.streamed = old.streamed + 1]
      BY <2>2
    <2> HIDE DEF old, new
    <2>4. new = [level |-> l, since |-> s, streamed |-> n + 1, parts |-> q]
      BY <2>1, <2>3
    <2> QED BY <2>1, <2>2, <2>4 DEF Line
  <1> HIDE DEF k, old, new
  <1>9. StartsWith(new.parts, old.parts)
    <2>1. Len(old.parts) \in Nat
      BY <1>5, LenProperties
    <2>2. CASE new.parts = old.parts
      BY <2>1, <2>2 DEF StartsWith
    <2>3. CASE new.parts = Append(old.parts, more)
      <3>1. /\ Len(new.parts) = Len(old.parts) + 1
            /\ \A j \in 1 .. Len(old.parts) : new.parts[j] = old.parts[j]
        BY <1>5, <2>3, AppendProperties
      <3> QED BY <2>1, <3>1 DEF StartsWith
    <2> QED BY <1>6, <1>8, <2>2, <2>3
  <1>10. Begun(new)
    BY <1>4, <1>5, <1>6, <1>8, <1>9, BegunKept
  <1>11. /\ building' \in Seq(Line) /\ Len(building') = k
         /\ \A i \in 1 .. k : building'[i] = IF i = k THEN new ELSE building[i]
    BY <1>1, <1>3, <1>7, <1>8, ExceptSeq DEF k
  <1>12. ASSUME NEW i \in 1 .. Len(building') PROVE Begun(building'[i])
    BY <1>1, <1>10, <1>11 DEF k
  <1>13. /\ second' \in Nat /\ t_lastSecond' \in Nat /\ t_time' = Time(t_lastSecond')
         /\ aborted' \in BOOLEAN /\ output' \in Seq(Line)
         /\ \A i \in 1 .. Len(output') :
              /\ Begun(output'[i]) /\ Ended(output'[i].parts)
              /\ output'[i].level = EFATAL <=> i = Len(output') /\ aborted'
    BY <1>2 DEF LogInv
  <1> QED BY <1>11, <1>12, <1>13 DEF LogInv

(* What ends a line ends with a newline.                                   *)
LEMMA FinishIs == finish \in Seq(Part) /\ Len(finish) = 5 /\ finish[5] = Newline
  <1> DEFINE a == Text(3)
             b == Text(NameLength)
             c == Text(1)
             d == Number(LineNumber)
  <1>1. finish = <<a, b, c, d, Newline>>
    BY DEF finish
  <1>2. a \in Part /\ b \in Part /\ c \in Part /\ d \in Part /\ Newline \in Part
    BY Sizes
  <1> HIDE DEF a, b, c, d
  <1> QED BY <1>1, <1>2

(* The newline is last, or one byte is left.                               *)
LEMMA EndIs ==
    ASSUME NEW before \in Seq(Part), Used(before) < kSmallBuffer
    PROVE  Ended(Streamed(before, Newline))
  <1> DEFINE room == Fits(before, 1)
  <1>1. Streamed(before, Newline) = IF room THEN Append(before, Newline) ELSE before
    BY DEF Streamed, Newline
  <1>2. CASE room
    <2>1. Newline \in Part
      BY Sizes
    <2>2. /\ Len(Append(before, Newline)) = Len(before) + 1
          /\ Append(before, Newline)[Len(before) + 1] = Newline
      BY <2>1, AppendProperties
    <2> QED BY <1>1, <1>2, <2>2 DEF Ended
  <1>3. CASE ~room
    <2>1. PICK u \in Nat : u = Used(before)
      BY Sizes, UsedGrows
    <2>2. ~(kSmallBuffer - u > 1)
      BY <1>3, <2>1 DEF Fits, avail
    <2>3. u < kSmallBuffer /\ kSmallBuffer \in Nat
      BY <2>1, Sizes
    <2>4. kSmallBuffer - u = 1
      BY <2>2, <2>3
    <2>5. avail(before) = 1
      BY <2>1, <2>4 DEF avail
    <2> QED BY <1>1, <1>3, <2>5 DEF Ended
  <1> QED BY <1>2, <1>3

(* A line put out has ended, and none is after a fatal one.                *)
LEMMA FinishKept ==
    ASSUME LogInv, Finish
    PROVE  LogInv'
  <1>1. /\ building \in Seq(Line) /\ \A i \in 1 .. Len(building) : Begun(building[i])
        /\ output \in Seq(Line)
        /\ \A i \in 1 .. Len(output) :
              /\ Begun(output[i]) /\ Ended(output[i].parts)
              /\ output[i].level = EFATAL <=> i = Len(output) /\ aborted
    BY DEF LogInv
  <1> DEFINE k == Len(building)
             m == Len(output)
             old == building[k]
             new == [old EXCEPT !.parts = AllStreamed(@, finish)]
  <1>2. /\ ~aborted /\ building # <<>>
        /\ output' = Append(output, new)
        /\ aborted' = (new.level = EFATAL)
        /\ building' = SubSeq(building, 1, k - 1)
        /\ second' = second /\ t_lastSecond' = t_lastSecond /\ t_time' = t_time
    BY DEF Finish, Inner
  <1>3. k \in Nat /\ k \in 1 .. k /\ m \in Nat
    BY <1>1, <1>2, LenProperties, EmptySeq
  <1>4. old \in Line /\ Begun(old)
    BY <1>1, <1>3, ElementOfSeq
  <1>5. PICK q : q = AllStreamed(old.parts, finish)
    OBVIOUS
  <1>6. /\ old.parts \in Seq(Part) /\ old.level \in 0 .. 5 /\ old.since \in Nat
        /\ Used(old.parts) < kSmallBuffer
    BY <1>4 DEF Line, Begun
  <1>7. /\ q \in Seq(Part) /\ Used(q) < kSmallBuffer /\ StartsWith(q, old.parts)
        /\ Ended(q)
    <2>1. finish \in Seq(Part) /\ Len(finish) = 5 /\ Len(finish) > 0 /\ finish[5] = Newline
      BY FinishIs
    <2>2. /\ q \in Seq(Part) /\ Used(q) < kSmallBuffer /\ StartsWith(q, old.parts)
          /\ \E before \in Seq(Part) :
                Used(before) < kSmallBuffer /\ q = Streamed(before, finish[Len(finish)])
      BY <1>5, <1>6, <2>1, MoreStreamed
    <2>3. PICK before \in Seq(Part) :
              Used(before) < kSmallBuffer /\ q = Streamed(before, Newline)
      BY <2>1, <2>2
    <2> QED BY <2>2, <2>3, EndIs
  <1>8. new = [old EXCEPT !.parts = q]
    BY <1>5
  <1> HIDE DEF k, m, old, new
  <1>9. new \in Line /\ new.parts = q /\ new.level = old.level /\ new.since = old.since
    <2>1. PICK l \in 0 .. 5, s \in Nat, n \in Nat, p \in Seq(Part) :
               old = [level |-> l, since |-> s, streamed |-> n, parts |-> p]
      BY <1>4 DEF Line
    <2>2. new = [level |-> l, since |-> s, streamed |-> n, parts |-> q]
      BY <1>8, <2>1
    <2> QED BY <1>7, <2>1, <2>2 DEF Line
  <1>10. Begun(new)
    BY <1>4, <1>6, <1>7, <1>9, BegunKept
  <1>11. /\ building' \in Seq(Line) /\ \A i \in 1 .. Len(building') : Begun(building'[i])
    <2>1. /\ SubSeq(building, 1, k - 1) \in Seq(Line)
          /\ Len(SubSeq(building, 1, k - 1)) = k - 1
          /\ \A i \in 1 .. k - 1 : SubSeq(building, 1, k - 1)[i] = building[i]
      <3>1. \A i \in 1 .. k : building[i] \in Line
        BY <1>1, ElementOfSeq DEF k
      <3>2. PICK j \in Nat : j = k - 1
        BY <1>3
      <3>3. \A i \in 1 .. j : building[i] \in Line
        BY <1>3, <3>1, <3>2
      <3>4. /\ SubSeq(building, 1, j) \in Seq(Line) /\ Len(SubSeq(building, 1, j)) = j
            /\ \A i \in 1 .. j : SubSeq(building, 1, j)[i] = building[i]
        BY <3>2, <3>3
      <3> QED BY <3>2, <3>4
    <2>2. \A i \in 1 .. k - 1 : i \in 1 .. k
      BY <1>3
    <2> QED BY <1>1, <1>2, <2>1, <2>2 DEF k
  <1>12. /\ output' \in Seq(Line) /\ Len(output') = m + 1 /\ output'[m + 1] = new
         /\ \A i \in 1 .. m : output'[i] = output[i]
    BY <1>1, <1>2, <1>9, AppendProperties DEF m
  <1>13. ASSUME NEW i \in 1 .. Len(output')
         PROVE  /\ Begun(output'[i]) /\ Ended(output'[i].parts)
                /\ output'[i].level = EFATAL <=> i = Len(output') /\ aborted'
    <2>1. i \in 1 .. m + 1
      BY <1>12
    <2>2. CASE i = m + 1
      BY <1>2, <1>7, <1>9, <1>10, <1>12, <2>2
    <2>3. CASE i # m + 1
      <3>1. i \in 1 .. m
        BY <1>3, <2>1, <2>3
      <3> QED BY <1>1, <1>2, <1>12, <2>3, <3>1 DEF m
    <2> QED BY <2>2, <2>3
  <1>14. /\ second' \in Nat /\ t_lastSecond' \in Nat /\ t_time' = Time(t_lastSecond')
         /\ aborted' \in BOOLEAN
    BY <1>2 DEF LogInv
  <1> QED BY <1>11, <1>12, <1>13, <1>14 DEF LogInv

(* Nothing else disturbs a line.                                           *)
LEMMA LogIsKept == LogInv /\ (LogNext \/ UNCHANGED logVars) => LogInv'
  <1> SUFFICES ASSUME LogInv, LogNext \/ UNCHANGED logVars PROVE LogInv'
    OBVIOUS
  <1> DEFINE Same == /\ building' = building /\ output' = output /\ aborted' = aborted
                     /\ t_lastSecond' = t_lastSecond /\ t_time' = t_time
  <1>1. ASSUME Same, second' \in Nat PROVE LogInv'
    BY <1>1 DEF LogInv
  <1>2. second \in Nat
    BY DEF LogInv
  <1>3. ASSUME NEW level \in Levels, setLogLevel(level) PROVE LogInv'
    BY <1>1, <1>2, <1>3 DEF setLogLevel
  <1>4. ASSUME NEW level \in Levels, NEW errno \in BOOLEAN, Log(level, errno) PROVE LogInv'
    <2>1. level \in 0 .. 5
      BY LogLineAssumption
    <2> QED BY <1>4, <2>1, LogKept
  <1>5. ASSUME NEW n \in TextLengths, Stream(Text(n)) PROVE LogInv'
    <2>1. Text(n) \in Part
      BY LogLineAssumption, Sizes
    <2> QED BY <1>5, <2>1, StreamKept
  <1>6. ASSUME NEW v \in Logged, Stream(Number(v)) PROVE LogInv'
    <2>1. Number(v) \in Part
      BY Sizes
    <2> QED BY <1>6, <2>1, StreamKept
  <1>7. CASE Finish
    BY <1>7, FinishKept
  <1>8. CASE Second
    BY <1>1, <1>2, <1>8 DEF Second
  <1>9. CASE UNCHANGED logVars
    BY <1>1, <1>2, <1>9 DEF logVars
  <1> QED BY <1>3, <1>4, <1>5, <1>6, <1>7, <1>8, <1>9 DEF LogNext

(* The invariant says that lines are whole.                                *)
LEMMA LinesHold == LogInv => LineWhole
  <1> SUFFICES ASSUME LogInv PROVE LineWhole
    OBVIOUS
  <1>1. /\ building \in Seq(Line) /\ \A i \in 1 .. Len(building) : Begun(building[i])
        /\ output \in Seq(Line)
        /\ \A i \in 1 .. Len(output) :
              /\ Begun(output[i]) /\ Ended(output[i].parts)
              /\ output[i].level = EFATAL <=> i = Len(output) /\ aborted
    BY DEF LogInv
  <1>2. DOMAIN building = 1 .. Len(building) /\ DOMAIN output = 1 .. Len(output)
    BY <1>1, LenProperties
  <1>3. \A i \in DOMAIN building : Used(building[i].parts) < kSmallBuffer
    BY <1>1, <1>2 DEF Begun
  <1>4. ASSUME NEW i \in DOMAIN output
        PROVE  /\ Used(output[i].parts) < kSmallBuffer
               /\ output[i].parts[1] = Time(output[i].since)
               /\ \E errno \in BOOLEAN :
                    IsPrefix(header(output[i].level, errno, output[i].since), output[i].parts)
    <2>1. /\ output[i].parts \in Seq(Part) /\ output[i].level \in 0 .. 5
          /\ output[i].since \in Nat
      <3>1. output[i] \in Line
        BY <1>1, <1>2, ElementOfSeq
      <3> QED BY <3>1 DEF Line
    <2>2. Begun(output[i])
      BY <1>1, <1>2
    <2>3. PICK errno \in BOOLEAN :
          /\ errno => output[i].level >= EERROR
          /\ StartsWith(output[i].parts, header(output[i].level, errno, output[i].since))
      BY <2>2 DEF Begun
    <2>4. PICK h \in Seq(Part) : /\ h = header(output[i].level, errno, output[i].since)
                                 /\ Len(h) > 0 /\ h[1] = Time(output[i].since)
      BY <2>1, <2>3, HeaderIs
    <2>5. StartsWith(output[i].parts, h)
      BY <2>3, <2>4
    <2>6. IsPrefix(h, output[i].parts)
      BY <2>1, <2>5, StartIsPrefix
    <2>7. output[i].parts[1] = h[1]
      <3>1. 1 \in 1 .. Len(h)
        BY <2>4, LenProperties
      <3> QED BY <2>5, <3>1 DEF StartsWith
    <2> QED BY <2>2, <2>4, <2>6, <2>7 DEF Begun
  <1>5. ASSUME NEW i \in DOMAIN output
        PROVE  /\ \/ output[i].parts[Len(output[i].parts)] = Newline
                  \/ avail(output[i].parts) = 1
               /\ output[i].level = EFATAL <=> i = Len(output) /\ aborted
    BY <1>1, <1>2 DEF Ended
  <1> QED BY <1>3, <1>4, <1>5 DEF LineWhole

----------------------------------------------------------------------------
(* The parts together.                                                     *)

SeqInv == /\ SelectInv /\ FilesInv /\ PipeInv /\ FileInv
          /\ BufInv /\ PieceInv /\ NumInv /\ CalInv /\ AddrInv /\ LogInv

(* Every part begins with its invariant.                                   *)
LEMMA SeqBegins == Init => SeqInv /\ String!Init
  <1>1. SelectInit => SelectInv
    BY SelectBegins
  <1>2. FilesInit => FilesInv
    BY FilesBegin
  <1>3. PipeInit => PipeInv
    BY PipeBegins
  <1>4. SmallFileInit => FileInv
    BY FileBegins
  <1>5. BufferInit => BufInv /\ String!Init
    BY BufferBegins
  <1>6. AddressInit => AddrInv
    BY AddressBegins
  <1>7. LogInit => LogInv
    BY LogBegins
  <1>8. CalendarInit => CalInv
    BY CalendarBegins
  <1>9. PiecesInit => PieceInv
    BY PiecesKept
  <1>10. FormattingInit => NumInv
    BY NumbersBegin
  <1> QED BY <1>1, <1>2, <1>3, <1>4, <1>5, <1>6, <1>7, <1>8, <1>9, <1>10 DEF Init, SeqInv

(* A step is one of a part, and of the buffer's as of a string, or leaves  *)
(* the part alone.                                                         *)
LEMMA SeqKept ==
    SeqInv /\ [Next]_vars => SeqInv' /\ [String!Next]_<<Contents(buf), call>>
  <1> SUFFICES ASSUME SeqInv, [Next]_vars
               PROVE  SeqInv' /\ [String!Next]_<<Contents(buf), call>>
    OBVIOUS
  <1>1. /\ BufferNext \/ UNCHANGED bufferVars
        /\ FilesNext \/ UNCHANGED filesVars
        /\ SelectNext \/ UNCHANGED selectVars
        /\ PipeNext \/ UNCHANGED pipeVars
        /\ SmallFileNext \/ UNCHANGED smallFileVars
        /\ AddressNext \/ UNCHANGED addressVars
        /\ LogNext \/ UNCHANGED logVars
        /\ CalendarNext \/ UNCHANGED calendarVars
        /\ PiecesNext \/ UNCHANGED pieces
        /\ UNCHANGED number
    BY DEF Next, FormattingNext, vars
  <1>2. SelectInv'
    BY <1>1, SelectKept DEF SeqInv
  <1>3. FilesInv'
    BY <1>1, FilesKept DEF SeqInv
  <1>4. PipeInv'
    BY <1>1, PipeKept DEF SeqInv
  <1>5. FileInv'
    BY <1>1, FileKept DEF SeqInv
  <1>6. BufInv' /\ [String!Next]_<<Contents(buf), call>>
    BY <1>1, BufferKept DEF SeqInv
  <1>7. AddrInv'
    BY <1>1, AddressKept DEF SeqInv
  <1>8. LogInv'
    BY <1>1, LogIsKept DEF SeqInv
  <1>9. CalInv'
    BY <1>1, CalendarKept DEF SeqInv
  <1>10. PieceInv'
    BY <1>1, PiecesKept DEF SeqInv
  <1>11. NumInv'
    BY <1>1, NumbersKept DEF SeqInv
  <1> QED BY <1>2, <1>3, <1>4, <1>5, <1>6, <1>7, <1>8, <1>9, <1>10, <1>11 DEF SeqInv

(* The invariants of the parts hold whatever they do.                      *)
THEOREM SequentialInvariant == Spec => []SeqInv
  <1>1. Init => SeqInv
    BY SeqBegins
  <1>2. SeqInv /\ [Next]_vars => SeqInv'
    BY SeqKept
  <1> QED BY <1>1, <1>2, PTL DEF Spec

(* SlotsMatch, for any channels and descriptors: a channel of SelectPoller *)
(* is at its index in pollfds with what it waits for, whatever was added,  *)
(* changed, ignored and removed, and is reported once by a poll            *)
(* (selectPoller.cpp:18-147).                                              *)
THEOREM PollSlots == Spec => []SlotsMatch
  <1>1. SeqInv => SlotsMatch
    BY SelectHolds DEF SeqInv
  <1> QED BY <1>1, SequentialInvariant, PTL

(* HandlesAccounted, for any number of processes and handles, sizes of     *)
(* files and of buffers: openedFiles() lists every file once, and leaves   *)
(* open exactly the duplicates of the pipes that it does not ask about and *)
(* of the handles whose thread it terminates too early; pipe() leaves two  *)
(* sockets open or none; and a file is read without gaps                   *)
(* (processInfo.cpp:172-298, socketsOps.cpp:260-313, fileUtil.cpp:19-89).  *)
THEOREM WhatStaysOpen == Spec => []HandlesAccounted
  <1>1. SeqInv => HandlesAccounted
    BY FilesHold DEF SeqInv, PipeInv, FileInv, HandlesAccounted
  <1> QED BY <1>1, SequentialInvariant, PTL

(* IndicesInOrder, for any sizes: the assertions of buffer.h hold after    *)
(* any calls, the vector stays bounded, and a number of any width comes    *)
(* back from its bytes (buffer.h:97-354, endian.h:7-29).                   *)
THEOREM BufferIndices == Spec => []IndicesInOrder
  <1>1. SeqInv => IndicesInOrder
    BY BufferHolds DEF SeqInv
  <1> QED BY <1>1, SequentialInvariant, PTL

(* ImplementsByteString, for any sizes: the buffer implements the string   *)
(* of bytes, step by step (buffer.h:68-354, buffer.cpp:14-42).             *)
THEOREM BufferIsString == Spec => ImplementsByteString
  <1>1. Init => String!Init
    BY SeqBegins
  <1>2. SeqInv /\ [Next]_vars => [String!Next]_<<Contents(buf), call>>
    BY SeqKept
  <1> QED BY <1>1, <1>2, SequentialInvariant, PTL DEF Spec, ImplementsByteString, String!Spec

(* AddressesRight, for any addresses and size of ports: the text of an     *)
(* address is that of what it was made of and reads back as the same, and  *)
(* a socket is connected to itself just when its ends have the same text   *)
(* (inetAddress.cpp:45-117, socketsOps.cpp:132-178 and 212-248).           *)
THEOREM AddressTexts == Spec => []AddressesRight
  <1>1. SeqInv => AddressesRight
    BY AddressHolds DEF SeqInv
  <1> QED BY <1>1, SequentialInvariant, PTL

(* LineWhole, for any texts and numbers streamed and any nesting: a line   *)
(* has its whole header with the time of its second, never fills its       *)
(* buffer, ends with a newline unless one byte is left, and none comes     *)
(* after a fatal one (logging.cpp:115-164, logStream.h:23-29,              *)
(* logStream.cpp:169-182).                                                 *)
THEOREM LinesAreWhole == Spec => []LineWhole
  <1>1. SeqInv => LineWhole
    BY LinesHold DEF SeqInv
  <1> QED BY <1>1, SequentialInvariant, PTL

(* DatesRight, for any years up to 9999 and any seconds of a day: the days *)
(* one after the other have numbers one after the other, each gives back   *)
(* its day, and a time before or after 1970 is broken into its day and     *)
(* time of day and put together again (Date.cpp:3-22, date.h:51-53,        *)
(* timezone.cpp:6-45).                                                     *)
THEOREM DatesThereAndBack == Spec => []DatesRight
  <1>1. SeqInv => DatesRight
    BY CalendarHolds DEF SeqInv
  <1> QED BY <1>1, SequentialInvariant, PTL

(* ConversionsRight, for any integers of 64 bits, quantities that a double *)
(* holds, dates, addresses and pieces: what is converted means what it     *)
(* meant, a converted integer has no zeros in front and fits its room, and *)
(* a quantity is short whatever side of a limit it is on (Date.cpp:3-22,   *)
(* timezone.cpp:6-45, logStream.cpp:15-305, stringPiece.h:120-159,         *)
(* inetAddress.cpp:45-117).                                                *)
THEOREM ConversionsAreRight == Spec => []ConversionsRight
  <1>1. SeqInv => ConversionsRight
    BY AddressHolds, CalendarHolds, PiecesHold, NumbersHold DEF SeqInv, ConversionsRight
  <1> QED BY <1>1, SequentialInvariant, PTL
=============================================================================
