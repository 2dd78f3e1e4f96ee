-------------------------- MODULE DashboardProofs --------------------------
(***************************************************************************)
(* What TLAPS proves of Dashboard, for any number of switches.             *)
(***************************************************************************)
EXTENDS Dashboard, SequenceTheorems, TLAPS

(* Everything downstream of the control server is older than what it names,  *)
(* in the order of the way a label takes: active, the poller's memory, the   *)
(* queue from its end to its head, the chip; the seed is older than all the  *)
(* poller knows.                                                             *)
OrderInv ==
  /\ watch # "watching" => last = Unknown /\ queue = <<>>
  /\ watch = "watching" => last # Unknown /\ last <= active
  /\ watch # "off" => pc \in {"run", "closed"}
  /\ pc \in {"seed", "navigate"} => page = "blank" /\ chip = Unknown
  /\ seed # Unknown => seed <= active /\ (last # Unknown => seed <= last)
  /\ chip # Unknown => chip <= active /\ (last # Unknown => chip <= last)
  /\ \A i \in 1 .. Len(queue) :
       /\ queue[i] <= last
       /\ seed # Unknown => seed <= queue[i]
       /\ page = "loaded" /\ chip # Unknown => chip <= queue[i]
  /\ \A i, j \in 1 .. Len(queue) : i <= j => queue[i] <= queue[j]

(* Every variable keeps its type.                                            *)
LEMMA TypeStep == TypeOK /\ [Next]_vars => TypeOK'
  <1>. SUFFICES ASSUME TypeOK, [Next]_vars PROVE TypeOK' OBVIOUS
  <1>. USE BoundNatural DEF TypeOK, Label, Switches
  <1>1. CASE Switch
    BY <1>1 DEF Switch
  <1>2. CASE SeedKnown
    BY <1>2 DEF SeedKnown
  <1>3. CASE SeedUnknown
    BY <1>3 DEF SeedUnknown
  <1>4. CASE StartWatch
    BY <1>4 DEF StartWatch
  <1>5. CASE FirstPoll
    BY <1>5 DEF FirstPoll
  <1>6. CASE Poll
    BY <1>6 DEF Poll
  <1>7. CASE PageLoads
    BY <1>7 DEF PageLoads
  <1>8. CASE Notice
    BY <1>8 DEF Notice
  <1>9. CASE Reload
    BY <1>9 DEF Reload
  <1>10. CASE Close
    BY <1>10 DEF Close
  <1>11. CASE Closed
    BY <1>11 DEF Closed, vars
  <1>12. CASE UNCHANGED vars
    BY <1>12 DEF vars
  <1>. QED
    BY <1>1, <1>2, <1>3, <1>4, <1>5, <1>6, <1>7, <1>8, <1>9, <1>10, <1>11, <1>12 DEF Next

(* No step lets a label overtake a newer one.                                *)
LEMMA OrderStep == TypeOK /\ OrderInv /\ [Next]_vars => OrderInv'
  <1>. SUFFICES ASSUME TypeOK, OrderInv, [Next]_vars PROVE OrderInv' OBVIOUS
  <1>. USE BoundNatural, UnknownOutside DEF TypeOK, OrderInv, Label, Switches
  <1>1. CASE Switch
    BY <1>1 DEF Switch
  <1>2. CASE SeedKnown
    BY <1>2 DEF SeedKnown
  <1>3. CASE SeedUnknown
    BY <1>3 DEF SeedUnknown
  <1>4. CASE StartWatch
    BY <1>4 DEF StartWatch
  <1>5. CASE FirstPoll
    BY <1>5 DEF FirstPoll
  <1>6. CASE Poll
    BY <1>6 DEF Poll
  <1>7. CASE PageLoads
    BY <1>7 DEF PageLoads
  <1>8. CASE Notice
    BY <1>8 DEF Notice
  <1>9. CASE Reload
    BY <1>9 DEF Reload
  <1>10. CASE Close
    BY <1>10 DEF Close
  <1>11. CASE Closed
    BY <1>11 DEF Closed, vars
  <1>12. CASE UNCHANGED vars
    BY <1>12 DEF vars
  <1>. QED
    BY <1>1, <1>2, <1>3, <1>4, <1>5, <1>6, <1>7, <1>8, <1>9, <1>10, <1>11, <1>12 DEF Next

(* The types and the order of the labels hold together.                      *)
LEMMA OrderInvariant == Spec => [](TypeOK /\ OrderInv)
  <1>1. Init => TypeOK /\ OrderInv
    BY BoundNatural, UnknownOutside DEF Init, TypeOK, OrderInv, Label, Switches
  <1>. QED
    BY <1>1, TypeStep, OrderStep, PTL DEF Spec

(* Every variable of the dashboard process keeps its type.                   *)
THEOREM TypeCorrect == Spec => []TypeOK
  BY OrderInvariant, PTL

(* The chip of a loaded page moves only to newer datacenters.                *)
THEOREM ChipForward == Spec => ChipMovesForward
  <1>1. TypeOK /\ OrderInv /\ [Next]_vars
          => [page = "loaded" /\ page' = "loaded" /\ chip # Unknown
                => chip' # Unknown /\ chip' >= chip]_vars
    BY BoundNatural, UnknownOutside
       DEF TypeOK, OrderInv, Label, Switches, Next, Switch, SeedKnown, SeedUnknown, StartWatch,
           FirstPoll, Poll, PageLoads, Notice, Reload, Close, Closed, vars
  <1>. QED
    BY <1>1, OrderInvariant, PTL DEF Spec, ChipMovesForward

---------------------------------------------------------------------------
(* What SwitchReachesChip needs of every state: once the dispatched notices  *)
(* have been evaluated, a loaded page whose chip is no longer its seed shows *)
(* the datacenter that the poller saw last, so no notice is lost, overtaken  *)
(* or left out by the coalescing.                                            *)
NoNoticeLost == page = "loaded" /\ chip # seed /\ queue = <<>> => chip = last

(* The newest notice is what the poller saw last, and before its first poll  *)
(* there is nothing on the page but the seed.                                *)
NoticeInv ==
  /\ queue # <<>> => queue[Len(queue)] = last
  /\ watch # "watching" /\ page = "loaded" => chip = seed
  /\ NoNoticeLost

(* A step adds to the notices what the poller has just seen, or shows the    *)
(* first of them.                                                            *)
LEMMA NoticeStep == TypeOK /\ OrderInv /\ NoticeInv /\ [Next]_vars => NoticeInv'
  <1>. SUFFICES ASSUME TypeOK, OrderInv, NoticeInv, [Next]_vars PROVE NoticeInv' OBVIOUS
  <1>. USE DEF NoticeInv, NoNoticeLost
  <1>1. queue \in Seq(Switches) /\ active \in Switches
    BY DEF TypeOK
  <1>2. CASE SeedKnown \/ SeedUnknown
    BY <1>2 DEF SeedKnown, SeedUnknown, OrderInv
  <1>3. CASE StartWatch
    BY <1>3 DEF StartWatch, OrderInv
  <1>4. CASE FirstPoll
    BY <1>4 DEF FirstPoll, OrderInv
  <1>5. CASE Poll
    <2>1. queue' # <<>> /\ queue'[Len(queue')] = active
      BY <1>1, <1>5, AppendProperties DEF Poll
    <2>. QED
      BY <1>5, <2>1 DEF Poll
  <1>6. CASE PageLoads
    BY <1>6 DEF PageLoads
  <1>7. CASE Notice
    <2>1. watch = "watching"
      BY <1>7 DEF Notice, OrderInv
    <2>2. Len(queue) \in Nat /\ Len(queue) >= 1
      BY <1>1, <1>7, EmptySeq, LenProperties DEF Notice
    <2>3. CASE Len(queue) = 1
      <3>1. queue' = <<>> /\ Head(queue) = last
        BY <1>1, <1>7, <2>3, HeadTailProperties, EmptySeq DEF Notice
      <3>. QED
        BY <1>7, <2>1, <3>1 DEF Notice
    <2>4. CASE Len(queue) # 1
      <3>1. queue' # <<>> /\ queue'[Len(queue')] = last
        <4>1. /\ queue' \in Seq(Switches) /\ Len(queue') = Len(queue) - 1
              /\ \A i \in 1 .. Len(queue') : queue'[i] = queue[i + 1]
          BY <1>1, <1>7, HeadTailProperties DEF Notice
        <4>2. queue' # <<>>
          BY <2>2, <2>4, <4>1, EmptySeq
        <4>3. Len(queue') \in 1 .. Len(queue')
          BY <2>2, <2>4, <4>1
        <4>4. queue'[Len(queue')] = queue[Len(queue)]
          BY <2>2, <4>1, <4>3
        <4>. QED
          BY <1>7, <4>2, <4>4 DEF Notice
      <3>. QED
        BY <1>7, <2>1, <3>1 DEF Notice
    <2>. QED
      BY <2>3, <2>4
  <1>8. CASE Switch \/ Reload \/ Close \/ Closed \/ UNCHANGED vars
    BY <1>8 DEF Switch, Reload, Close, Closed, vars
  <1>. QED
    BY <1>2, <1>3, <1>4, <1>5, <1>6, <1>7, <1>8 DEF Next

(* No notice is lost between the poller and the chip.                        *)
THEOREM NoticesArrive == Spec => []NoNoticeLost
  <1>1. Init => NoticeInv
    BY DEF Init, NoticeInv, NoNoticeLost
  <1>2. NoticeInv => NoNoticeLost
    BY DEF NoticeInv
  <1>. QED
    BY <1>1, <1>2, NoticeStep, OrderInvariant, PTL DEF Spec
=============================================================================
