----------------------------- MODULE Dashboard -----------------------------
(***************************************************************************)
(* The dashboard process (runDashboard in dashboard.go) and the chip of    *)
(* its page that names the active datacenter.  The tray's control server   *)
(* answers /active; the process asks once to seed the chip, and then polls *)
(* from a goroutine that turns every change it notices into a notice for   *)
(* the page, dispatched to the window's thread.                            *)
(*                                                                         *)
(* What is active is represented by the number of switches so far, so a    *)
(* larger number is a newer datacenter; a switch there and back between    *)
(* two polls, which the process cannot see, counts as no switch.           *)
(***************************************************************************)
EXTENDS Naturals, Sequences, FiniteSets

CONSTANTS MaxSwitches,   \* bound on the failovers and cluster switches of a behaviour
          MayReload,     \* may the document be loaded again (Reload in the context menu)
          Unknown        \* the empty label: no chip

Switches == 0 .. MaxSwitches

ASSUME BoundNatural == MaxSwitches \in Nat
ASSUME ReloadFlag == MayReload \in BOOLEAN
ASSUME UnknownOutside == Unknown \notin Nat

VARIABLES
  active,   \* what /active answers
  pc,       \* the main thread: "seed", "navigate", "run", "closed"
  seed,     \* initialDC, part of the document-start script for ever
  watch,    \* the polling goroutine: "off", "first" (no poll yet), "watching"
  last,     \* what its previous poll saw
  queue,    \* notices dispatched to the window's thread
  page,     \* "blank" until the SPA runs
  chip      \* what the page shows

vars == <<active, pc, seed, watch, last, queue, page, chip>>

Label == Switches \union {Unknown}

TypeOK == /\ active \in Switches
          /\ pc \in {"seed", "navigate", "run", "closed"}
          /\ seed \in Label
          /\ watch \in {"off", "first", "watching"}
          /\ last \in Label
          /\ queue \in Seq(Switches)
          /\ page \in {"blank", "loaded"}
          /\ chip \in Label

Init == /\ active = 0
        /\ pc = "seed" /\ seed = Unknown
        /\ watch = "off" /\ last = Unknown /\ queue = <<>>
        /\ page = "blank" /\ chip = Unknown

(* The tray's supervisor or its user selects another datacenter; OnSwitch     *)
(* publishes it.                                                              *)
Switch == /\ active < MaxSwitches
          /\ active' = active + 1
          /\ UNCHANGED <<pc, seed, watch, last, queue, page, chip>>

(* control.Client.Get succeeds: its label goes into the document-start script.*)
SeedKnown == /\ pc = "seed"
             /\ seed' = active /\ pc' = "navigate"
             /\ UNCHANGED <<active, watch, last, queue, page, chip>>

(* Get fails: the chip starts empty.                                          *)
SeedUnknown == /\ pc = "seed"
               /\ pc' = "navigate"
               /\ UNCHANGED <<active, seed, watch, last, queue, page, chip>>

(* go cl.Watch; then w.Navigate and w.Run.                                    *)
StartWatch == /\ pc = "navigate"
              /\ watch' = "first" /\ pc' = "run"
              /\ UNCHANGED <<active, seed, last, queue, page, chip>>

(* Mutant of FirstPoll: the first answer is a change, and prev is its notice.  *)
FirstPollNotifies == /\ watch = "first" /\ pc # "closed"
                     /\ watch' = "watching" /\ last' = active
                     /\ queue' = Append(queue, last)
                     /\ UNCHANGED <<active, pc, seed, page, chip>>

(* The first poll only remembers: Watch "fires on the next change".           *)
FirstPoll == /\ watch = "first" /\ pc # "closed"
             /\ watch' = "watching" /\ last' = active
             /\ UNCHANGED <<active, pc, seed, queue, page, chip>>

(* Mutant of Poll: a notice is dropped while another one is pending.          *)
PollDropsWhileBusy == /\ watch = "watching" /\ pc # "closed" /\ active # last
                      /\ queue' = IF queue = <<>> THEN <<active>> ELSE queue
                      /\ last' = active
                      /\ UNCHANGED <<active, pc, seed, watch, page, chip>>

(* A poll that sees another datacenter than the previous one dispatches a     *)
(* notice; switches between two polls are seen as one.                        *)
Poll == /\ watch = "watching" /\ pc # "closed" /\ active # last
        /\ queue' = Append(queue, active) /\ last' = active
        /\ UNCHANGED <<active, pc, seed, watch, page, chip>>

(* The document starts: Init's script paints the chip with the seed.          *)
PageLoads == /\ pc = "run" /\ page = "blank"
             /\ page' = "loaded" /\ chip' = seed
             /\ UNCHANGED <<active, pc, seed, watch, last, queue>>

(* Mutant of Notice: the newest dispatched notice is evaluated first.         *)
NoticeNewestFirst ==
  /\ pc = "run" /\ queue # <<>>
  /\ queue' = SubSeq(queue, 1, Len(queue) - 1)
  /\ chip' = IF page = "loaded" THEN queue[Len(queue)] ELSE chip
  /\ UNCHANGED <<active, pc, seed, watch, last, page>>

(* The window's thread evaluates a notice; a page that is not there yet       *)
(* ignores it.                                                                *)
Notice == /\ pc = "run" /\ queue # <<>>
          /\ queue' = Tail(queue)
          /\ chip' = IF page = "loaded" THEN Head(queue) ELSE chip
          /\ UNCHANGED <<active, pc, seed, watch, last, page>>

Reload == /\ MayReload /\ pc = "run" /\ page = "loaded"
          /\ page' = "blank" /\ chip' = Unknown
          /\ UNCHANGED <<active, pc, seed, watch, last, queue>>

Close == /\ pc = "run"
         /\ pc' = "closed"
         /\ UNCHANGED <<active, seed, watch, last, queue, page, chip>>

Closed == pc = "closed" /\ UNCHANGED vars

Next == \/ Switch
        \/ SeedKnown \/ SeedUnknown \/ StartWatch
        \/ FirstPoll \/ Poll
        \/ PageLoads \/ Notice \/ Reload \/ Close
        \/ Closed

Spec == Init /\ [][Next]_vars

(* The goroutine keeps polling, the run loop keeps draining its queue, and    *)
(* the gateway serves the page.                                               *)
Fairness == /\ WF_vars(SeedKnown \/ SeedUnknown) /\ WF_vars(StartWatch)
            /\ WF_vars(FirstPoll) /\ WF_vars(Poll)
            /\ WF_vars(PageLoads) /\ WF_vars(Notice)

LiveSpec == Spec /\ Fairness

---------------------------------------------------------------------------
(* While a document lives, its chip only moves to newer datacenters: the one  *)
(* goroutine, the dispatch queue and the coalescing polls deliver no notice   *)
(* after a newer one.                                                         *)
ChipMovesForward ==
  [][page = "loaded" /\ page' = "loaded" /\ chip # Unknown
       => chip' # Unknown /\ chip' >= chip]_vars

(* A switch that happens under a watched, loaded page is shown, by its own    *)
(* notice or by a newer one, unless the window is closed or reloaded.         *)
SwitchReachesChip ==
  \A s \in Switches :
    (page = "loaded" /\ watch = "watching" /\ last # active /\ active = s)
      ~> (pc = "closed" \/ page = "blank" \/ (chip # Unknown /\ chip >= s))

(* The seed "paints correct on first render" and the notices keep the chip    *)
(* "accurate after a switch": when the switches are over the chip names the   *)
(* active datacenter, if there was a seed.  (Without one the chip is empty    *)
(* until the first notice, switch or no switch.)                              *)
ChipCatchesUp == <>[](pc = "closed" \/ seed = Unknown \/ chip = active)
=============================================================================
