---------------------------- MODULE ClusterMenu ----------------------------
(***************************************************************************)
(* The "Switch cluster" items and the status title of the tray (onReady    *)
(* and refreshStatus in tray.go).                                          *)
(*                                                                         *)
(* Each item has a forwarder, a goroutine that takes the item's clicks and *)
(* sends the cluster's name to switchCh; the event loop receives from it,  *)
(* except while a sign-in window blocks it.  systray hands a click to a    *)
(* goroutine that is waiting for one and drops it otherwise.  switchCh has *)
(* one place per cluster; a forwarder that finds it full waits, in order   *)
(* of arrival, so the channel and those who wait for it are one queue.     *)
(*                                                                         *)
(* The supervisor, which is a library, keeps one datacenter of the selected*)
(* cluster active as long as one is up.  The marks in front of the names   *)
(* in the Datacenters menu are repainted at each tick and are left out.    *)
(***************************************************************************)
EXTENDS Naturals, Sequences, FiniteSets

CONSTANTS Cluster,     \* the clusters of the config, one item each
          DC,          \* their datacenters
          ClusterOf,   \* the cluster of each
          Home,        \* the cluster selected at start
          NoDC, NoCluster

ASSUME ClusterFinite == IsFiniteSet(Cluster)
ASSUME HomeInside == Home \in Cluster
ASSUME ClusterOfType == ClusterOf \in [DC -> Cluster]
ASSUME NoDCOutside == NoDC \notin DC /\ NoDC # "unknown" /\ "unknown" \notin DC
ASSUME NoClusterOutside == NoCluster \notin Cluster

Capacity == Cardinality(Cluster)

VARIABLES
  pc,          \* the event loop: "select", "signin" (in cmd.Run), "gone"
  ctxDone,     \* SIGINT or SIGTERM was received
  forwarding,  \* the clusters whose forwarder has not returned
  taken,       \* those whose forwarder holds a click it has not sent
  line,        \* names in switchCh, then those of the forwarders it blocks
  selected,    \* the cluster of the last SwitchCluster
  up,          \* the healthy datacenters
  active,      \* the supervisor's choice among them
  watching,    \* refreshStatus has not returned
  lastActive,  \* what its last tick saw
  title,       \* the datacenter in the title and tooltip, NoDC for "no datacenter
               \*   reachable", "unknown" at first
  wanted,      \* history: the cluster clicked last
  clean        \* history: that click was taken, with every earlier one sent

vars == <<pc, ctxDone, forwarding, taken, line, selected, up, active, watching,
          lastActive, title, wanted, clean>>
clickVars == <<forwarding, taken, line, wanted, clean>>
supervisorVars == <<up, active>>
statusVars == <<watching, lastActive, title>>

TypeOK ==
  /\ pc \in {"select", "signin", "gone"}
  /\ ctxDone \in BOOLEAN
  /\ forwarding \subseteq Cluster
  /\ taken \subseteq forwarding
  /\ line \in Seq(Cluster)
  /\ selected \in Cluster
  /\ up \subseteq DC
  /\ active \in DC \union {NoDC}
  /\ watching \in BOOLEAN
  /\ lastActive \in DC \union {NoDC}
  /\ title \in DC \union {NoDC, "unknown"}
  /\ wanted \in Cluster \union {NoCluster}
  /\ clean \in BOOLEAN

Init ==
  /\ pc = "select" /\ ctxDone = FALSE
  /\ forwarding = Cluster /\ taken = {} /\ line = <<>>
  /\ selected = Home
  /\ up \in SUBSET DC /\ active = NoDC
  /\ watching = TRUE /\ lastActive = NoDC /\ title = "unknown"
  /\ wanted = NoCluster /\ clean = FALSE

---------------------------------------------------------------------------
(* Clicks and forwarders. *)

(* The forwarders waiting in `switchCh <- name`.                              *)
Blocked == {line[i] : i \in Capacity + 1 .. Len(line)}

(* Mutant of Waiting: each click is sent by a goroutine of its own.           *)
WaitingAlways == forwarding \ taken

(* The forwarders in their select, where a click finds them.                  *)
Waiting == forwarding \ (taken \union Blocked)

Click(c) ==
  /\ pc # "gone" /\ c \in Waiting
  /\ taken' = taken \union {c}
  /\ wanted' = c /\ clean' = (taken = {})
  /\ UNCHANGED <<pc, ctxDone, forwarding, line, selected, supervisorVars, statusVars>>

(* systray sends to ClickedCh in a select with an empty default.              *)
ClickDropped(c) ==
  /\ pc # "gone" /\ c \notin Waiting
  /\ wanted' = c /\ clean' = FALSE
  /\ UNCHANGED <<pc, ctxDone, forwarding, taken, line, selected, supervisorVars, statusVars>>

(* Mutant of Forward: a full channel is left alone, and the click forgotten.  *)
ForwardOrDrop(c) ==
  /\ pc # "gone" /\ c \in taken
  /\ taken' = taken \ {c}
  /\ line' = IF Len(line) < Capacity THEN Append(line, c) ELSE line
  /\ UNCHANGED <<pc, ctxDone, forwarding, selected, supervisorVars, statusVars, wanted, clean>>

(* Mutant of Forward: a cluster whose name is already queued is not queued    *)
(* again.                                                                     *)
ForwardOnce(c) ==
  /\ pc # "gone" /\ c \in taken
  /\ taken' = taken \ {c}
  /\ line' = IF \E i \in DOMAIN line : line[i] = c THEN line ELSE Append(line, c)
  /\ UNCHANGED <<pc, ctxDone, forwarding, selected, supervisorVars, statusVars, wanted, clean>>

(* Mutant of Forward: the loop variable is shared by all forwarders.          *)
ForwardLoopVariable(c) ==
  /\ pc # "gone" /\ c \in taken
  /\ taken' = taken \ {c}
  /\ \E name \in Cluster : line' = Append(line, name)
  /\ UNCHANGED <<pc, ctxDone, forwarding, selected, supervisorVars, statusVars, wanted, clean>>

Forward(c) ==
  /\ pc # "gone" /\ c \in taken
  /\ taken' = taken \ {c}
  /\ line' = Append(line, c)
  /\ UNCHANGED <<pc, ctxDone, forwarding, selected, supervisorVars, statusVars, wanted, clean>>

(* Mutant of ForwarderReturns: the forwarder gives up the click it holds.      *)
ForwarderReturnsHolding(c) ==
  /\ pc # "gone" /\ ctxDone /\ c \in forwarding
  /\ forwarding' = forwarding \ {c}
  /\ UNCHANGED <<pc, ctxDone, taken, line, selected, supervisorVars, statusVars, wanted, clean>>

(* A forwarder sees the context only in its select.                           *)
ForwarderReturns(c) ==
  /\ pc # "gone" /\ ctxDone /\ c \in Waiting
  /\ forwarding' = forwarding \ {c}
  /\ UNCHANGED <<pc, ctxDone, taken, line, selected, supervisorVars, statusVars, wanted, clean>>

---------------------------------------------------------------------------
(* The event loop. *)

Receive ==
  /\ pc = "select" /\ line # <<>>
  /\ selected' = Head(line) /\ line' = Tail(line)
  /\ UNCHANGED <<pc, ctxDone, forwarding, taken, supervisorVars, statusVars, wanted, clean>>

SignIn ==
  /\ pc = "select" /\ pc' = "signin"
  /\ UNCHANGED <<ctxDone, clickVars, selected, supervisorVars, statusVars>>

SignInEnds ==
  /\ pc = "signin" /\ pc' = "select"
  /\ UNCHANGED <<ctxDone, clickVars, selected, supervisorVars, statusVars>>

Signal ==
  /\ pc # "gone" /\ ~ctxDone /\ ctxDone' = TRUE
  /\ UNCHANGED <<pc, clickVars, selected, supervisorVars, statusVars>>

(* The Quit item, or ctx.Done(): systray.Quit ends the process, and with it   *)
(* all it held in memory.                                                     *)
Quit ==
  /\ pc = "select" /\ pc' = "gone"
  /\ forwarding' = {} /\ taken' = {} /\ line' = <<>>
  /\ selected' = Home /\ active' = NoDC
  /\ watching' = FALSE /\ lastActive' = NoDC /\ title' = "unknown"
  /\ wanted' = NoCluster /\ clean' = FALSE
  /\ UNCHANGED <<ctxDone, up>>

---------------------------------------------------------------------------
(* The supervisor. *)

Reachable == {d \in up : ClusterOf[d] = selected}

Probe(d) ==
  /\ pc # "gone"
  /\ up' = IF d \in up THEN up \ {d} ELSE up \union {d}
  /\ UNCHANGED <<pc, ctxDone, clickVars, selected, active, statusVars>>

(* Failover, a switch of cluster, or back to a datacenter of higher priority. *)
Reselect ==
  /\ pc # "gone"
  /\ active' \in IF Reachable = {} THEN {NoDC} ELSE Reachable
  /\ active' # active
  /\ UNCHANGED <<pc, ctxDone, clickVars, selected, up, statusVars>>

---------------------------------------------------------------------------
(* refreshStatus. *)

(* Mutant of Tick: the loss of the last datacenter is shown but not           *)
(* remembered.                                                                *)
TickForgetsLoss ==
  /\ pc # "gone" /\ watching
  /\ IF active = lastActive THEN UNCHANGED <<lastActive, title>>
     ELSE /\ title' = active
          /\ lastActive' = IF active = NoDC THEN lastActive ELSE active
  /\ UNCHANGED <<pc, ctxDone, clickVars, selected, supervisorVars, watching>>

(* Every two seconds: the title changes only with the active datacenter.      *)
Tick ==
  /\ pc # "gone" /\ watching
  /\ active # lastActive
  /\ lastActive' = active /\ title' = active
  /\ UNCHANGED <<pc, ctxDone, clickVars, selected, supervisorVars, watching>>

StatusReturns ==
  /\ pc # "gone" /\ ctxDone /\ watching
  /\ watching' = FALSE
  /\ UNCHANGED <<pc, ctxDone, clickVars, selected, supervisorVars, lastActive, title>>

---------------------------------------------------------------------------
Forwarder(c) == Forward(c) \/ ForwarderReturns(c)
Loop == Receive \/ SignIn \/ SignInEnds \/ Quit
Supervisor == Reselect \/ \E d \in DC : Probe(d)
Ended == pc = "gone" /\ UNCHANGED vars

Next ==
  \/ \E c \in Cluster : Click(c) \/ ClickDropped(c) \/ Forwarder(c)
  \/ Loop \/ Signal
  \/ Supervisor
  \/ Tick \/ StatusReturns
  \/ Ended

Spec == Init /\ [][Next]_vars

(* Go runs every goroutine, and select chooses at random among its ready      *)
(* branches, so a name in switchCh is received in spite of other clicks.      *)
(* That the user deals with an open sign-in window, and that the supervisor   *)
(* leaves a datacenter that is down or in another cluster, are assumptions.   *)
Fairness == /\ \A c \in Cluster : WF_vars(Forward(c))
            /\ SF_vars(Receive)
            /\ WF_vars(Tick)
UserEndsSignIn == WF_vars(SignInEnds)
SupervisorReselects == WF_vars(active \notin Reachable /\ Reselect)
LiveSpec == Spec /\ Fairness /\ UserEndsSignIn /\ SupervisorReselects

---------------------------------------------------------------------------
(* Properties. *)

(* "Each item calls sh.SwitchCluster(name)": when the queue has drained, the  *)
(* selected cluster is the one clicked last, in spite of sign-ins that held   *)
(* it up, provided that click was not dropped and did not race an earlier one.*)
LastClickWins ==
  clean /\ taken = {} /\ line = <<>> => selected = wanted

Positions(s, c) == {i \in DOMAIN s : s[i] = c}

(* The number of clicks on c on their way, in its forwarder or in the queue.  *)
Pending(c) == Cardinality(Positions(line, c)) + (IF c \in taken THEN 1 ELSE 0)

(* No step loses a click that was taken, or merges it with another one on the *)
(* same cluster: of the clicks on a cluster one at a time leaves the queue,   *)
(* and the loop switches to the cluster as it does, until the tray ends.      *)
NoClickLost ==
  [][\A c \in Cluster :
       \/ Pending(c)' >= Pending(c)
       \/ Pending(c)' = Pending(c) - 1 /\ selected' = c
       \/ pc' = "gone"]_vars

(* A click that was taken is carried out, however long the loop was blocked   *)
(* and however full the channel, unless the tray ends.                        *)
TakenClicksAreServed ==
  \A c \in Cluster : Pending(c) > 0 ~> selected = c \/ pc = "gone"

(* However often the user clicks while a sign-in blocks the loop, what is     *)
(* carried out after it is at most twice as many switches as there are        *)
(* clusters.  They may be unevenly spread: one cluster can have every place   *)
(* of the channel, and one click more that its forwarder holds or waits with. *)
BacklogBounded ==
  /\ Len(line) + Cardinality(taken) <= 2 * Cardinality(Cluster)
  /\ \A c \in Cluster : Pending(c) <= Cardinality(Cluster) + 1

(* "The supervisor's reselect emits a Switch event that propagates to the     *)
(* chip + menubar title": the title comes to name a datacenter of the selected*)
(* cluster and goes on doing so, or none when none is up, and it recovers     *)
(* from either.                                                               *)
TitleFollows ==
  \A c \in Cluster :
    /\ <>[](selected = c /\ Reachable # {} /\ ~ctxDone /\ pc # "gone")
         => <>[](title \in DC /\ ClusterOf[title] = c)
    /\ <>[](selected = c /\ Reachable = {} /\ ~ctxDone /\ pc # "gone")
         => <>[](title \notin DC)
=============================================================================
