------------------------- MODULE ClusterMenuProofs -------------------------
(***************************************************************************)
(* What TLAPS proves of ClusterMenu, for any finite set of clusters and    *)
(* any datacenters.                                                        *)
(***************************************************************************)
EXTENDS ClusterMenu, FiniteSetTheorems, FunctionTheorems, SequenceTheorems, TLAPS

(* The last click that was taken without an earlier one on its way is the    *)
(* only one a forwarder holds, then the last in the queue, then selected.    *)
CleanInv ==
  clean => /\ wanted \in Cluster
           /\ taken # {} => taken = {wanted}
           /\ taken = {} /\ line # <<>> => line[Len(line)] = wanted
           /\ taken = {} /\ line = <<>> => selected = wanted

(* A forwarder waits for room once, and takes no click meanwhile.            *)
BlockedInv ==
  /\ \A i, j \in Capacity + 1 .. Len(line) : line[i] = line[j] => i = j
  /\ \A i \in Capacity + 1 .. Len(line) : line[i] \notin taken

Inv == TypeOK /\ CleanInv /\ BlockedInv

(* There are as many places in the channel as there are clusters.            *)
LEMMA CapacityType == Capacity \in Nat
  BY ClusterFinite, FS_CardinalityType DEF Capacity

(* The sent name is in the last place of a queue that is otherwise the same. *)
LEMMA Appended ==
  ASSUME NEW c \in Cluster, line \in Seq(Cluster), line' = Append(line, c)
  PROVE  /\ line' \in Seq(Cluster) /\ line' # <<>> /\ Len(line') = Len(line) + 1
         /\ line'[Len(line')] = c
         /\ \A i \in 1 .. Len(line) : line'[i] = line[i]
  BY AppendProperties

(* Receive moves every other name one place to the front.                    *)
LEMMA Received ==
  ASSUME line \in Seq(Cluster), line # <<>>, line' = Tail(line)
  PROVE  /\ Head(line) \in Cluster /\ Head(line) = line[1]
         /\ line' \in Seq(Cluster) /\ Len(line') = Len(line) - 1
         /\ \A i \in 1 .. Len(line') : line'[i] = line[i + 1]
  <1>1. Head(line) = line[1]
    BY HeadTailProperties
  <1>. QED
    BY <1>1, HeadTailProperties

(* Every variable keeps its type in every step.                              *)
LEMMA TypeStep == TypeOK /\ [Next]_vars => TypeOK'
  <1>. SUFFICES ASSUME TypeOK, [Next]_vars PROVE TypeOK' OBVIOUS
  <1>. USE HomeInside DEF TypeOK, clickVars, supervisorVars, statusVars
  <1>1. ASSUME NEW c \in Cluster, Click(c) \/ ClickDropped(c) PROVE TypeOK'
    BY <1>1 DEF Click, ClickDropped, Waiting
  <1>2. ASSUME NEW c \in Cluster, Forward(c) PROVE TypeOK'
    BY <1>2, Appended DEF Forward
  <1>3. ASSUME NEW c \in Cluster, ForwarderReturns(c) PROVE TypeOK'
    BY <1>3 DEF ForwarderReturns, Waiting
  <1>4. CASE Receive
    BY <1>4, Received DEF Receive
  <1>5. CASE SignIn \/ SignInEnds \/ Signal
    BY <1>5 DEF SignIn, SignInEnds, Signal
  <1>6. CASE Quit
    <2>1. <<>> \in Seq(Cluster)
      BY EmptySeq
    <2>. QED
      BY <1>6, <2>1 DEF Quit
  <1>7. ASSUME NEW d \in DC, Probe(d) PROVE TypeOK'
    BY <1>7 DEF Probe
  <1>8. CASE Reselect \/ Tick \/ StatusReturns
    BY <1>8 DEF Reselect, Reachable, Tick, StatusReturns
  <1>9. CASE Ended \/ UNCHANGED vars
    BY <1>9 DEF Ended, vars
  <1>. QED
    BY <1>1, <1>2, <1>3, <1>4, <1>5, <1>6, <1>7, <1>8, <1>9
       DEF Next, Forwarder, Loop, Supervisor

(* Only the clicks, the forwarders and the loop touch what Inv is about.     *)
LEMMA QueueStep == Inv /\ [Next]_vars => CleanInv' /\ BlockedInv'
  <1>. SUFFICES ASSUME Inv, [Next]_vars PROVE CleanInv' /\ BlockedInv' OBVIOUS
  <1>. USE CapacityType DEF Inv, TypeOK
  <1>0. line \in Seq(Cluster) /\ Len(line) \in Nat
    BY LenProperties
  <1>1. ASSUME NEW c \in Cluster, Click(c) PROVE CleanInv' /\ BlockedInv'
    <2>1. CleanInv'
      BY <1>1 DEF Click, CleanInv
    <2>2. BlockedInv'
      BY <1>1 DEF Click, BlockedInv, Waiting, Blocked
    <2>. QED
      BY <2>1, <2>2
  <1>2. ASSUME NEW c \in Cluster, ClickDropped(c) PROVE CleanInv' /\ BlockedInv'
    BY <1>2 DEF ClickDropped, CleanInv, BlockedInv
  <1>3. ASSUME NEW c \in Cluster, Forward(c) PROVE CleanInv' /\ BlockedInv'
    <2>. USE <1>3 DEF Forward
    <2>1. /\ line' # <<>> /\ Len(line') = Len(line) + 1 /\ line'[Len(line')] = c
          /\ \A i \in 1 .. Len(line) : line'[i] = line[i]
      BY Appended
    <2>2. CleanInv'
      BY <2>1 DEF CleanInv
    <2>3. ASSUME NEW i \in Capacity + 1 .. Len(line') PROVE i = Len(line') \/ line'[i] = line[i]
      BY <1>0, <2>1
    <2>4. ASSUME NEW i \in Capacity + 1 .. Len(line') PROVE line'[i] \notin taken'
      BY <1>0, <2>1, <2>3 DEF BlockedInv
    <2>5. ASSUME NEW i \in Capacity + 1 .. Len(line), NEW j \in Capacity + 1 .. Len(line'),
                 line'[i] = line'[j]
          PROVE  i = j
      BY <1>0, <2>1, <2>5 DEF BlockedInv
    <2>6. BlockedInv'
      BY <1>0, <2>1, <2>4, <2>5 DEF BlockedInv
    <2>. QED
      BY <2>2, <2>6
  <1>4. ASSUME NEW c \in Cluster, ForwarderReturns(c) PROVE CleanInv' /\ BlockedInv'
    BY <1>4 DEF ForwarderReturns, CleanInv, BlockedInv
  <1>5. CASE Receive
    <2>. USE <1>5 DEF Receive
    <2>1. /\ Head(line) = line[1] /\ Len(line') = Len(line) - 1
          /\ \A i \in 1 .. Len(line') : line'[i] = line[i + 1]
          /\ line' \in Seq(Cluster)
      BY Received
    <2>2. line' = <<>> <=> Len(line') = 0
      BY <2>1, EmptySeq
    <2>3. CleanInv'
      BY <1>0, <2>1, <2>2 DEF CleanInv
    <2>4. BlockedInv'
      BY <1>0, <2>1 DEF BlockedInv
    <2>. QED
      BY <2>3, <2>4
  <1>6. CASE SignIn \/ SignInEnds \/ Signal
    BY <1>6 DEF SignIn, SignInEnds, Signal, clickVars, CleanInv, BlockedInv
  <1>7. CASE Quit
    <2>1. ~clean' /\ line' = <<>> /\ Len(line') = 0
      BY <1>7, EmptySeq DEF Quit
    <2>. QED
      BY <2>1 DEF CleanInv, BlockedInv
  <1>8. CASE Supervisor \/ Tick \/ StatusReturns
    BY <1>8 DEF Supervisor, Probe, Reselect, Tick, StatusReturns, clickVars, CleanInv, BlockedInv
  <1>9. CASE Ended \/ UNCHANGED vars
    BY <1>9 DEF Ended, vars, CleanInv, BlockedInv
  <1>. QED
    BY <1>1, <1>2, <1>3, <1>4, <1>5, <1>6, <1>7, <1>8, <1>9
       DEF Next, Forwarder, Loop, Supervisor

(* Types, the last click and the blocked forwarders hold together.           *)
LEMMA Invariant == Spec => []Inv
  <1>1. Init => Inv
    <2>. SUFFICES ASSUME Init PROVE Inv OBVIOUS
    <2>1. line \in Seq(Cluster) /\ Len(line) = 0
      BY EmptySeq DEF Init
    <2>2. TypeOK
      BY <2>1, HomeInside DEF Init, TypeOK
    <2>3. CleanInv /\ BlockedInv
      BY <2>1, CapacityType DEF Init, CleanInv, BlockedInv
    <2>. QED
      BY <2>2, <2>3 DEF Inv
  <1>2. Inv /\ [Next]_vars => Inv'
    BY TypeStep, QueueStep DEF Inv
  <1>. QED
    BY <1>1, <1>2, PTL DEF Spec

(* Every variable of the menu, the supervisor and the title keeps its type.  *)
THEOREM TypeCorrect == Spec => []TypeOK
  <1>1. Inv => TypeOK
    BY DEF Inv
  <1>. QED
    BY <1>1, Invariant, PTL

(* The cluster clicked last is selected once the queue has drained.          *)
THEOREM LastClick == Spec => []LastClickWins
  <1>1. Inv => LastClickWins
    BY DEF Inv, CleanInv, LastClickWins
  <1>. QED
    BY <1>1, Invariant, PTL

(* How often a name is in a queue is a number.                               *)
LEMMA CountType ==
  ASSUME NEW s \in Seq(Cluster), NEW c
  PROVE  IsFiniteSet(Positions(s, c)) /\ Cardinality(Positions(s, c)) \in Nat
  <1>1. Len(s) \in Nat /\ Positions(s, c) \subseteq 1 .. Len(s)
    BY LenProperties DEF Positions
  <1>2. IsFiniteSet(1 .. Len(s))
    BY <1>1, FS_Interval
  <1>. QED
    BY <1>1, <1>2, FS_Subset, FS_CardinalityType

(* A name that is sent is in the queue once more than before.                *)
LEMMA CountAppended ==
  ASSUME NEW s \in Seq(Cluster), NEW d \in Cluster, NEW c
  PROVE  Cardinality(Positions(Append(s, d), c)) =
           Cardinality(Positions(s, c)) + (IF c = d THEN 1 ELSE 0)
  <1>1. /\ Len(s) \in Nat /\ DOMAIN s = 1 .. Len(s)
        /\ DOMAIN Append(s, d) = 1 .. Len(s) + 1 /\ Append(s, d)[Len(s) + 1] = d
        /\ \A i \in 1 .. Len(s) : Append(s, d)[i] = s[i]
    BY AppendProperties, LenProperties
  <1>2. IsFiniteSet(Positions(s, c)) /\ Len(s) + 1 \notin Positions(s, c)
    <2>1. Len(s) + 1 \notin Positions(s, c)
      BY <1>1 DEF Positions
    <2>. QED
      BY <2>1, CountType
  <1>3. CASE c = d
    <2>1. Positions(Append(s, d), c) = Positions(s, c) \union {Len(s) + 1}
      BY <1>1, <1>3 DEF Positions
    <2>. QED
      BY <1>2, <1>3, <2>1, FS_AddElement
  <1>4. CASE c # d
    <2>1. Positions(Append(s, d), c) = Positions(s, c)
      BY <1>1, <1>4 DEF Positions
    <2>. QED
      BY <1>4, <2>1, CountType
  <1>. QED
    BY <1>3, <1>4

(* Without its first name a queue has that name once less, and every other   *)
(* one as often, one place further to the front.                             *)
LEMMA CountTail ==
  ASSUME NEW s \in Seq(Cluster), s # <<>>, NEW c
  PROVE  Cardinality(Positions(Tail(s), c)) =
           Cardinality(Positions(s, c)) - (IF Head(s) = c THEN 1 ELSE 0)
  <1>. DEFINE P == Positions(s, c) \ {1}
              T == Positions(Tail(s), c)
              shift == [i \in P |-> i - 1]
  <1>1. Head(s) = s[1] /\ Tail(s) \in Seq(Cluster) /\ Len(Tail(s)) = Len(s) - 1
        /\ \A i \in 1 .. Len(Tail(s)) : Tail(s)[i] = s[i + 1]
    BY HeadTailProperties
  <1>2. Len(s) \in Nat /\ Len(s) # 0 /\ DOMAIN s = 1 .. Len(s)
    BY EmptySeq, LenProperties
  <1>3. DOMAIN Tail(s) = 1 .. Len(s) - 1
    BY <1>1, LenProperties
  <1>4. \A i \in P : i \in 2 .. Len(s) /\ s[i] = c
    BY <1>2 DEF Positions
  <1>5. \A i \in 2 .. Len(s) : s[i] = c => i \in P
    BY <1>2 DEF Positions
  <1>6. \A j \in T : j \in 1 .. Len(s) - 1 /\ s[j + 1] = c
    BY <1>1, <1>3 DEF Positions
  <1>7. \A j \in 1 .. Len(s) - 1 : s[j + 1] = c => j \in T
    BY <1>1, <1>3 DEF Positions
  <1>. HIDE DEF P, T
  <1>8. shift \in [P -> T]
    BY <1>2, <1>4, <1>7
  <1>9. \A i, j \in P : shift[i] = shift[j] => i = j
    BY <1>4
  <1>10. \A j \in T : \E i \in P : shift[i] = j
    <2>. SUFFICES ASSUME NEW j \in T PROVE \E i \in P : shift[i] = j OBVIOUS
    <2>1. j + 1 \in P /\ shift[j + 1] = j
      BY <1>2, <1>5, <1>6
    <2>. QED
      BY <2>1
  <1>11. ExistsBijection(P, T)
    BY <1>8, <1>9, <1>10, Fun_IsBij DEF ExistsBijection
  <1>12. /\ IsFiniteSet(P)
         /\ Cardinality(P) =
              Cardinality(Positions(s, c)) - (IF Head(s) = c THEN 1 ELSE 0)
    <2>1. 1 \in Positions(s, c) <=> Head(s) = c
      BY <1>1, <1>2 DEF Positions
    <2>2. IsFiniteSet(Positions(s, c)) /\ Cardinality(Positions(s, c)) \in Nat
      BY CountType
    <2>. QED
      BY <2>1, <2>2, FS_RemoveElement DEF P
  <1>. QED
    BY <1>11, <1>12, FS_Bijection DEF T

(* Those who wait beyond the channel's places are distinct clusters whose    *)
(* forwarders hold nothing else.                                             *)
LEMMA TotalBounded == ASSUME Inv PROVE Len(line) + Cardinality(taken) <= 2 * Capacity
  <1>. SUFFICES ASSUME Len(line) > Capacity
                PROVE  Len(line) + Cardinality(taken) <= 2 * Capacity
    <2>1. taken \subseteq Cluster /\ Len(line) \in Nat
      BY LenProperties DEF Inv, TypeOK
    <2>2. Cardinality(taken) \in Nat /\ Cardinality(taken) <= Capacity
      BY <2>1, ClusterFinite, FS_Subset, FS_CardinalityType DEF Capacity
    <2>. QED
      BY <2>1, <2>2, CapacityType
  <1>. DEFINE S == Capacity + 1 .. Len(line)
              F == [i \in S |-> line[i]]
              Rest == Cluster \ taken
  <1>1. line \in Seq(Cluster) /\ Len(line) \in Nat /\ taken \subseteq Cluster
    BY LenProperties DEF Inv, TypeOK
  <1>2. \A i \in S : line[i] \in Rest
    BY <1>1, CapacityType, ElementOfSeq DEF Inv, BlockedInv
  <1>3. F \in Injection(S, Rest)
    BY <1>2 DEF Injection, IsInjective, Inv, BlockedInv
  <1>4. /\ IsFiniteSet(taken) /\ IsFiniteSet(Rest)
        /\ Cardinality(taken) \in Nat /\ Cardinality(Rest) \in Nat
    BY <1>1, ClusterFinite, FS_Subset, FS_CardinalityType
  <1>5. Capacity = Cardinality(Rest) + Cardinality(taken)
    <2>1. Cluster = Rest \union taken /\ Rest \intersect taken = {}
      BY <1>1
    <2>2. Cardinality({}) = 0
      BY FS_EmptySet
    <2>. HIDE DEF Rest
    <2>3. Cardinality(Rest \union taken) =
            Cardinality(Rest) + Cardinality(taken) - Cardinality(Rest \intersect taken)
      BY <1>4, FS_Union
    <2>4. Capacity = Cardinality(Rest \union taken)
      BY <2>1 DEF Capacity
    <2>5. Cardinality(Rest \intersect taken) = 0
      BY <2>1, <2>2
    <2>. QED
      BY <1>4, <2>3, <2>4, <2>5
  <1>6. Cardinality(S) <= Cardinality(Rest)
    BY <1>3, <1>4, FS_Injection
  <1>7. Cardinality(S) = Len(line) - Capacity
    BY <1>1, CapacityType, FS_Interval
  <1>. QED
    BY <1>1, <1>4, <1>5, <1>6, <1>7, CapacityType

(* Of one cluster, the clicks that are not in the channel are one at most.   *)
LEMMA EachBounded == ASSUME Inv, NEW c \in Cluster PROVE Pending(c) <= Capacity + 1
  <1>. DEFINE P == Positions(line, c)
  <1>1. line \in Seq(Cluster) /\ Len(line) \in Nat /\ DOMAIN line = 1 .. Len(line)
    BY LenProperties DEF Inv, TypeOK
  <1>2. IsFiniteSet(P) /\ Cardinality(P) \in Nat
    BY <1>1, CountType
  <1>3. ASSUME NEW Q \in SUBSET (1 .. Capacity)
        PROVE  Cardinality(Q) \in Nat /\ Cardinality(Q) <= Capacity
    <2>1. IsFiniteSet(1 .. Capacity) /\ Cardinality(1 .. Capacity) = Capacity
      BY CapacityType, FS_Interval
    <2>. DEFINE places == 1 .. Capacity
    <2>. HIDE DEF places
    <2>2. IsFiniteSet(Q) /\ Cardinality(Q) <= Cardinality(places)
      <3>1. Q \in SUBSET places /\ IsFiniteSet(places)
        BY <2>1 DEF places
      <3>. QED
        BY <3>1, FS_Subset
    <2>3. Cardinality(places) = Capacity
      BY <2>1 DEF places
    <2>. QED
      BY <2>2, <2>3, FS_CardinalityType
  <1>4. CASE \E i \in Capacity + 1 .. Len(line) : line[i] = c
    <2>1. PICK i \in Capacity + 1 .. Len(line) : line[i] = c
      BY <1>4
    <2>2. i \in P /\ c \notin taken
      BY <1>1, <2>1, CapacityType DEF Inv, BlockedInv, Positions
    <2>3. P \ {i} \in SUBSET (1 .. Capacity)
      BY <1>1, <2>1, CapacityType DEF Inv, BlockedInv, Positions
    <2>4. Cardinality(P \ {i}) = Cardinality(P) - 1
      BY <1>2, <2>2, FS_RemoveElement
    <2>. QED
      BY <1>2, <1>3, <2>2, <2>3, <2>4, CapacityType DEF Pending
  <1>5. CASE ~ \E i \in Capacity + 1 .. Len(line) : line[i] = c
    <2>1. P \in SUBSET (1 .. Capacity)
      BY <1>1, <1>5, CapacityType DEF Positions
    <2>. QED
      BY <1>2, <1>3, <2>1, CapacityType DEF Pending
  <1>. QED
    BY <1>4, <1>5

(* What can pile up while the loop is blocked is at most two switches for    *)
(* each cluster in all, and of one cluster at most one more than the channel *)
(* has places.                                                               *)
THEOREM Backlog == Spec => []BacklogBounded
  <1>1. Inv => BacklogBounded
    BY TotalBounded, EachBounded DEF BacklogBounded, Capacity
  <1>. QED
    BY <1>1, Invariant, PTL

(* Forward moves a click from the forwarder to the queue, Receive takes the  *)
(* first of the queue and switches to it; a click adds one to its cluster,   *)
(* and nothing else touches either.                                          *)
LEMMA PendingStep ==
  TypeOK /\ [Next]_vars =>
    [\A c \in Cluster :
       \/ Pending(c)' >= Pending(c)
       \/ Pending(c)' = Pending(c) - 1 /\ selected' = c
       \/ pc' = "gone"]_vars
  <1>. SUFFICES ASSUME TypeOK, [Next]_vars, NEW c \in Cluster
                PROVE  \/ Pending(c)' >= Pending(c)
                       \/ Pending(c)' = Pending(c) - 1 /\ selected' = c
                       \/ pc' = "gone"
    OBVIOUS
  <1>a. line \in Seq(Cluster)
    BY DEF TypeOK
  <1>b. Cardinality(Positions(line, c)) \in Nat
    BY <1>a, CountType
  <1>1. ASSUME NEW d \in Cluster, Click(d) PROVE Pending(c)' >= Pending(c)
    BY <1>b, <1>1 DEF Click, Pending
  <1>2. ASSUME NEW d \in Cluster, ClickDropped(d) \/ ForwarderReturns(d)
        PROVE  Pending(c)' >= Pending(c)
    BY <1>b, <1>2 DEF ClickDropped, ForwarderReturns, Pending
  <1>3. ASSUME NEW d \in Cluster, Forward(d) PROVE Pending(c)' >= Pending(c)
    <2>1. Cardinality(Positions(line', c)) =
            Cardinality(Positions(line, c)) + (IF c = d THEN 1 ELSE 0)
      BY <1>a, <1>3, CountAppended DEF Forward
    <2>. QED
      BY <1>b, <1>3, <2>1 DEF Forward, Pending
  <1>4. CASE Receive
    <2>1. Cardinality(Positions(line', c)) =
            Cardinality(Positions(line, c)) - (IF Head(line) = c THEN 1 ELSE 0)
      BY <1>a, <1>4, CountTail DEF Receive
    <2>. QED
      BY <1>b, <1>4, <2>1 DEF Receive, Pending
  <1>5. CASE Quit
    BY <1>5 DEF Quit
  <1>6. CASE SignIn \/ SignInEnds \/ Signal \/ Supervisor \/ Tick \/ StatusReturns
    BY <1>b, <1>6 DEF SignIn, SignInEnds, Signal, Supervisor, Probe, Reselect, Tick,
                       StatusReturns, clickVars, Pending
  <1>7. CASE Ended \/ UNCHANGED vars
    BY <1>b, <1>7 DEF Ended, vars, Pending
  <1>. QED
    BY <1>1, <1>2, <1>3, <1>4, <1>5, <1>6, <1>7 DEF Next, Forwarder, Loop

(* A click that was taken is neither lost nor merged with another one on its *)
(* way to the event loop.                                                    *)
THEOREM ClicksAreKept == Spec => NoClickLost
  <1>1. Inv => TypeOK
    BY DEF Inv
  <1>. QED
    BY <1>1, PendingStep, Invariant, PTL DEF Spec, NoClickLost

(* The title names what the last tick of refreshStatus saw, and keeps its    *)
(* first wording until a tick has seen a datacenter: the test of the tick,   *)
(* made on lastActive, never leaves an old title over a new lastActive.      *)
TitleIsLastSeen == title = lastActive \/ (title = "unknown" /\ lastActive = NoDC)

(* Only Tick changes lastActive, and it writes the title with it.            *)
THEOREM TitleSeen == Spec => []TitleIsLastSeen
  <1>1. Init => TitleIsLastSeen
    BY DEF Init, TitleIsLastSeen
  <1>2. TitleIsLastSeen /\ [Next]_vars => TitleIsLastSeen'
    BY DEF TitleIsLastSeen, Next, Forwarder, Loop, Supervisor, Click, ClickDropped, Forward,
           ForwarderReturns, Receive, SignIn, SignInEnds, Signal, Quit, Probe, Reselect, Tick,
           StatusReturns, Ended, statusVars, vars
  <1>. QED
    BY <1>1, <1>2, PTL DEF Spec
=============================================================================
