------------------------- MODULE LegacySignInProofs -------------------------
(***************************************************************************)
(* What TLAPS proves of LegacySignIn, with and without the keypair and a   *)
(* context that ends.                                                      *)
(***************************************************************************)
EXTENDS LegacySignIn, Naturals, TLAPS

Count(b) == IF b THEN 1 ELSE 0

(* What main has taken from the channels, as far as it remembers.            *)
TakenByMain == Count(callback # Nothing) + Count(pc = "wait2")
                 + Count(outcome = "timeout") + 2 * Count(outcome = "both")

InChannels == Count(cbCh # Nothing) + Count(errCh)

Ends == Count(listener = "done") + Count(window = "done")

(* The messages are counted: a goroutine sends its only one as it ends, so   *)
(* what main has taken and what is left in the channels is at most the number*)
(* of those that have ended.  A callback the window sent is one of these.    *)
SendersInv ==
  /\ TakenByMain + InChannels <= Ends
  /\ window = "done" /\ final # Nothing => cbCh # Nothing \/ callback # Nothing
  /\ window \in {"off", "open", "error"} => final = Nothing
  /\ window = "callback" => final # Nothing
  /\ listener = "callback" => got # Nothing

(* Where main stands: before runOIDC no goroutine runs; while it waits it has*)
(* no callback; after it there is something it has taken, or the goroutines  *)
(* were never started, or the context has ended.                             *)
MainInv ==
  /\ listener = "off" <=> window = "off"
  /\ pc \in {"pick", "keypair", "start"} => listener = "off" /\ callback = Nothing
  /\ pc \in {"wait", "wait2"} => callback = Nothing
  /\ pc \in {"finish", "save", "returned"} /\ ~ctxDone =>
       listener = "off" \/ callback # Nothing \/ outcome \in {"timeout", "both"}

Inv == TypeOK /\ SendersInv /\ MainInv

(* Every variable keeps its type in every step.                              *)
LEMMA TypeStep == TypeOK /\ [Next]_vars => TypeOK'
  <1>. SUFFICES ASSUME TypeOK, [Next]_vars PROVE TypeOK' OBVIOUS
  <1>. USE DEF TypeOK, Failure, Goto, Fail, mainVars, channelVars, listenerVars, windowVars
  <1>0. Nothing \in Maybe /\ Callback \subseteq Maybe
    BY DEF Maybe
  <1>1. CASE Pick \/ Keypair \/ Save
    BY <1>1 DEF Pick, Keypair, Save
  <1>2. CASE StartOK \/ StartFails
    BY <1>2 DEF StartOK, StartFails
  <1>3. CASE Wait
    BY <1>0, <1>3 DEF Wait, SeesContext, ReceivesCallback, FirstError, SecondError, OuterTimeout
  <1>4. CASE Finish
    BY <1>4 DEF Finish, FinishOK, FinishFails
  <1>5. CASE Bind \/ AwaitReturns \/ AwaitFails
    BY <1>5 DEF Bind, AwaitReturns, AwaitFails
  <1>6. CASE ListenerSends \/ WindowSends
    BY <1>6 DEF ListenerSends, WindowSends, SendCallback, SendError
  <1>7. CASE User
    BY <1>0, <1>7 DEF User, Redirected, Request, Dismissed, WindowFails
  <1>8. CASE Cancel
    BY <1>8 DEF Cancel
  <1>9. CASE Ended \/ UNCHANGED vars
    BY <1>9 DEF Ended, vars
  <1>. QED
    BY <1>1, <1>2, <1>3, <1>4, <1>5, <1>6, <1>7, <1>8, <1>9 DEF Next, Listener

(* Each message that is sent has an end of a goroutine for it, and each that *)
(* is received leaves its channel.                                           *)
LEMMA SendersStep == Inv /\ [Next]_vars => SendersInv'
  <1>. SUFFICES ASSUME Inv, [Next]_vars PROVE SendersInv' OBVIOUS
  <1>. USE NothingOutside
       DEF Inv, TypeOK, MainInv, SendersInv, TakenByMain, InChannels, Ends, Count, Maybe,
           Failure, Callback, Goto, Fail, mainVars, channelVars, listenerVars, windowVars
  <1>1. CASE Pick \/ Keypair \/ Save
    BY <1>1 DEF Pick, Keypair, Save
  <1>2. CASE StartOK \/ StartFails
    BY <1>2 DEF StartOK, StartFails
  <1>3. CASE SeesContext \/ ReceivesCallback
    BY <1>3 DEF SeesContext, ReceivesCallback
  <1>4. CASE FirstError \/ SecondError \/ OuterTimeout
    BY <1>4 DEF FirstError, SecondError, OuterTimeout
  <1>5. CASE Finish
    BY <1>5 DEF Finish, FinishOK, FinishFails
  <1>6. CASE Bind \/ AwaitReturns \/ AwaitFails
    BY <1>6 DEF Bind, AwaitReturns, AwaitFails
  <1>7. CASE ListenerSends
    BY <1>7 DEF ListenerSends, SendCallback, SendError, CallbackRoom
  <1>8. CASE WindowSends
    BY <1>8 DEF WindowSends, SendCallback, SendError, CallbackRoom
  <1>9. CASE User
    BY <1>9 DEF User, Redirected, Request, Dismissed, WindowFails
  <1>10. CASE Cancel \/ Ended \/ UNCHANGED vars
    BY <1>10 DEF Cancel, Ended, vars
  <1>. QED
    BY <1>1, <1>2, <1>3, <1>4, <1>5, <1>6, <1>7, <1>8, <1>9, <1>10 DEF Next, Wait, Listener

(* Main goes on as MainInv says, and the goroutines are started together.    *)
LEMMA MainStep == Inv /\ [Next]_vars => MainInv'
  <1>. SUFFICES ASSUME Inv, [Next]_vars PROVE MainInv' OBVIOUS
  <1>. USE NothingOutside
       DEF Inv, TypeOK, MainInv, Maybe, Failure, Callback, Goto, Fail, mainVars, channelVars,
           listenerVars, windowVars
  <1>1. CASE Pick \/ Keypair \/ Save
    BY <1>1 DEF Pick, Keypair, Save
  <1>2. CASE StartOK \/ StartFails
    BY <1>2 DEF StartOK, StartFails
  <1>3. CASE Wait
    BY <1>3 DEF Wait, SeesContext, ReceivesCallback, FirstError, SecondError, OuterTimeout
  <1>4. CASE Finish
    BY <1>4 DEF Finish, FinishOK, FinishFails
  <1>5. CASE Bind \/ AwaitReturns \/ AwaitFails
    BY <1>5 DEF Bind, AwaitReturns, AwaitFails
  <1>6. CASE ListenerSends \/ WindowSends
    BY <1>6 DEF ListenerSends, WindowSends
  <1>7. CASE User
    BY <1>7 DEF User, Redirected, Request, Dismissed, WindowFails
  <1>8. CASE Cancel \/ Ended \/ UNCHANGED vars
    BY <1>8 DEF Cancel, Ended, vars
  <1>. QED
    BY <1>1, <1>2, <1>3, <1>4, <1>5, <1>6, <1>7, <1>8 DEF Next, Listener

(* The three parts of the invariant hold together.                           *)
LEMMA Invariant == Spec => []Inv
  <1>1. Init => Inv
    <2>. SUFFICES ASSUME Init PROVE Inv OBVIOUS
    <2>1. TypeOK
      BY DEF Init, TypeOK, Maybe, Failure
    <2>2. SendersInv
      BY NothingOutside DEF Init, SendersInv, TakenByMain, InChannels, Ends, Count
    <2>3. MainInv
      BY NothingOutside DEF Init, MainInv
    <2>. QED
      BY <2>1, <2>2, <2>3 DEF Inv
  <1>2. Inv /\ [Next]_vars => Inv'
    BY TypeStep, SendersStep, MainStep DEF Inv
  <1>. QED
    BY <1>1, <1>2, PTL DEF Spec

(* Every variable of the attempt, its channels and goroutines keeps its type.*)
THEOREM TypeCorrect == Spec => []TypeOK
  <1>1. Inv => TypeOK
    BY DEF Inv
  <1>. QED
    BY <1>1, Invariant, PTL

(* When two errors have been taken both goroutines have sent their message,  *)
(* so neither has sent, or will send, a callback.                            *)
THEOREM BailsWithoutCallback == Spec => []BailsOnlyWithoutCallback
  <1>1. Inv => BailsOnlyWithoutCallback
    <2>. SUFFICES ASSUME Inv, outcome = "both"
                  PROVE cbCh = Nothing /\ listener = "done" /\ window = "done" /\ final = Nothing
      BY DEF BailsOnlyWithoutCallback
    <2>. QED
      BY DEF Inv, TypeOK, SendersInv, TakenByMain, InChannels, Ends, Count
  <1>. QED
    BY <1>1, Invariant, PTL

(* After runOIDC at most one goroutine has yet to send, and both channels are*)
(* empty for it.                                                             *)
THEOREM SendersFree == Spec => []SendersAreFree
  <1>1. Inv => SendersAreFree
    <2>. SUFFICES ASSUME Inv, pc \in {"finish", "save", "returned"}, ~ctxDone
                  PROVE /\ listener = "callback" \/ window = "callback" => cbCh = Nothing
                        /\ listener = "error" \/ window = "error" => ~errCh
      BY DEF SendersAreFree, CallbackRoom
    <2>. QED
      BY DEF Inv, TypeOK, SendersInv, MainInv, TakenByMain, InChannels, Ends, Count
  <1>. QED
    BY <1>1, Invariant, PTL

(* What AttemptEnds needs of every state: the first select, which has no     *)
(* timer, is not left waiting by a listener that has ended.  Only main       *)
(* empties a channel, and it leaves the first select as it does.             *)
THEOREM FirstWaitAnswered == Spec => []FirstWaitIsAnswered
  <1>1. Init => FirstWaitIsAnswered
    BY DEF Init, FirstWaitIsAnswered
  <1>2. Inv /\ FirstWaitIsAnswered /\ [Next]_vars => FirstWaitIsAnswered'
    <2>. SUFFICES ASSUME Inv, FirstWaitIsAnswered, [Next]_vars PROVE FirstWaitIsAnswered' OBVIOUS
    <2>. USE DEF FirstWaitIsAnswered, Goto, Fail, mainVars, channelVars, listenerVars, windowVars
    <2>1. CASE Pick \/ Keypair \/ Save \/ StartOK \/ StartFails \/ Finish
      BY <2>1 DEF Pick, Keypair, Save, StartOK, StartFails, Finish, FinishOK, FinishFails
    <2>2. CASE Wait
      BY <2>2 DEF Wait, SeesContext, ReceivesCallback, FirstError, SecondError, OuterTimeout
    <2>3. CASE Listener
      <3>1. listener = "callback" => got # Nothing
        BY DEF Inv, SendersInv
      <3>. QED
        BY <2>3, <3>1 DEF Listener, Bind, AwaitReturns, AwaitFails, ListenerSends, SendCallback,
                          SendError
    <2>4. CASE WindowSends
      <3>1. window = "callback" => final # Nothing
        BY DEF Inv, SendersInv
      <3>. QED
        BY <2>4, <3>1 DEF WindowSends, SendCallback, SendError
    <2>5. CASE User \/ Cancel \/ Ended \/ UNCHANGED vars
      BY <2>5 DEF User, Redirected, Request, Dismissed, WindowFails, Cancel, Ended, vars
    <2>. QED
      BY <2>1, <2>2, <2>3, <2>4, <2>5 DEF Next
  <1>. QED
    BY <1>1, <1>2, Invariant, PTL DEF Spec
=============================================================================
