---------------------------- MODULE LegacySignIn ----------------------------
(***************************************************************************)
(* The sign-in that Authenticate makes with an injected picker (auth.go,   *)
(* auth_darwin.go): a choice of method, and for OIDC a loopback listener   *)
(* and a web window that race for the redirect (runOIDC).                  *)
(*                                                                         *)
(* Main waits for the first of a callback on cbCh, an error on errCh and   *)
(* the end of the context; after one error, for a callback, a second error *)
(* or a timer of its own.  Each goroutine sends once, on channels with     *)
(* room for one value.  A window that is closed sends nothing.             *)
(***************************************************************************)
CONSTANTS OfferKeypair,  \* cfg.KeypairFallback: the picker's third button
          Cancellable,   \* may the caller's context end
          Nothing        \* an empty channel, no callback

ASSUME FlagsBoolean == OfferKeypair \in BOOLEAN /\ Cancellable \in BOOLEAN

(* A callback URL: the answer to this round, or anything else (an error, the  *)
(* state of another round, no code) that starts with the redirect URI or is   *)
(* requested from the listener.                                               *)
Callback == {"own", "other"}

ASSUME NothingOutside == Nothing \notin Callback

VARIABLES
  pc,        \* Authenticate: "pick", "keypair", "start", "wait", "wait2" (after an
             \*   error), "finish", "save", "returned"
  outcome,   \* what it returned: "none" so far, "token", or the error
  callback,  \* what runOIDC received
  stored,    \* was the token written to the vault
  cbCh, errCh,
  listener,  \* "off", "binding", "listening", "callback" or "error" (to send), "done"
  got,       \* the channel between its handler and itself
  window,    \* "off", "open", "callback" or "error" (to send), "done"
  final,     \* the URL the window ended at
  ctxDone

vars == <<pc, outcome, callback, stored, cbCh, errCh, listener, got, window, final, ctxDone>>
mainVars == <<pc, outcome, callback, stored>>
channelVars == <<cbCh, errCh>>
listenerVars == <<listener, got>>
windowVars == <<window, final>>

Failure == {"dismissed", "keypair", "start", "context", "both", "timeout", "finish"}
Maybe == Callback \union {Nothing}

TypeOK ==
  /\ pc \in {"pick", "keypair", "start", "wait", "wait2", "finish", "save", "returned"}
  /\ outcome \in {"none", "token"} \union Failure
  /\ pc = "returned" <=> outcome # "none"
  /\ callback \in Maybe
  /\ stored \in BOOLEAN
  /\ cbCh \in Maybe
  /\ errCh \in BOOLEAN
  /\ listener \in {"off", "binding", "listening", "callback", "error", "done"}
  /\ got \in Maybe
  /\ window \in {"off", "open", "callback", "error", "done"}
  /\ final \in Maybe
  /\ ctxDone \in BOOLEAN

Init ==
  /\ pc = "pick" /\ outcome = "none" /\ callback = Nothing /\ stored = FALSE
  /\ cbCh = Nothing /\ errCh = FALSE
  /\ listener = "off" /\ got = Nothing
  /\ window = "off" /\ final = Nothing
  /\ ctxDone = FALSE

Goto(l) == pc' = l /\ UNCHANGED <<outcome, callback, stored>>
Fail(e) == pc' = "returned" /\ outcome' = e /\ UNCHANGED <<callback, stored>>

---------------------------------------------------------------------------
(* Authenticate: the picker and the keypair. *)

(* The button that ends runPicker, "cancelled" when the window is closed.     *)
Choice == {"cancelled", "openpubkey", "oidc"} \union (IF OfferKeypair THEN {"keypair"} ELSE {})

(* Mutant of Pick: a dismissed picker returns no token and no error.          *)
PickDismissedSilently ==
  /\ pc = "pick"
  /\ \E choice \in Choice :
       \/ choice = "cancelled" /\ Goto("returned")
       \/ choice = "keypair" /\ Goto("keypair")
       \/ choice \in {"openpubkey", "oidc"} /\ Goto("start")
  /\ UNCHANGED <<channelVars, listenerVars, windowVars, ctxDone>>

(* OpenPubkey falls through to OIDC.  The picker cannot be interrupted: its   *)
(* goroutine's answer to the end of the context is read by nobody.            *)
Pick == /\ pc = "pick"
        /\ \E choice \in Choice :
             \/ choice = "cancelled" /\ Fail("dismissed")
             \/ choice = "keypair" /\ Goto("keypair")
             \/ choice \in {"openpubkey", "oidc"} /\ Goto("start")
        /\ UNCHANGED <<channelVars, listenerVars, windowVars, ctxDone>>

Keypair == /\ pc = "keypair"
           /\ Goto("save") \/ Fail("keypair")
           /\ UNCHANGED <<channelVars, listenerVars, windowVars, ctxDone>>

(* A vault that fails is logged, and the token returned unsaved.              *)
Save == /\ pc = "save"
        /\ pc' = "returned" /\ outcome' = "token" /\ stored' \in BOOLEAN
        /\ UNCHANGED <<callback, channelVars, listenerVars, windowVars, ctxDone>>

---------------------------------------------------------------------------
(* runOIDC. *)

StartFails == /\ pc = "start" /\ Fail("start")
              /\ UNCHANGED <<channelVars, listenerVars, windowVars, ctxDone>>

StartOK == /\ pc = "start" /\ Goto("wait")
           /\ listener' = "binding" /\ window' = "open"
           /\ UNCHANGED <<channelVars, got, final, ctxDone>>

SeesContext == /\ pc = "wait" /\ ctxDone /\ Fail("context")
               /\ UNCHANGED <<channelVars, listenerVars, windowVars, ctxDone>>

ReceivesCallback ==
  /\ pc \in {"wait", "wait2"} /\ cbCh # Nothing
  /\ pc' = "finish" /\ callback' = cbCh /\ cbCh' = Nothing
  /\ UNCHANGED <<outcome, stored, errCh, listenerVars, windowVars, ctxDone>>

(* Mutant of FirstError: the loop goes round its only select once more.       *)
FirstErrorSelectsAgain ==
  /\ pc = "wait" /\ errCh /\ errCh' = FALSE
  /\ UNCHANGED <<mainVars, cbCh, listenerVars, windowVars, ctxDone>>

(* Mutant of FirstError: the first error ends the attempt.                    *)
FirstErrorEnds == /\ pc = "wait" /\ errCh /\ Fail("both") /\ errCh' = FALSE
                  /\ UNCHANGED <<cbCh, listenerVars, windowVars, ctxDone>>

FirstError == /\ pc = "wait" /\ errCh /\ Goto("wait2") /\ errCh' = FALSE
              /\ UNCHANGED <<cbCh, listenerVars, windowVars, ctxDone>>

SecondError == /\ pc = "wait2" /\ errCh /\ Fail("both") /\ errCh' = FALSE
               /\ UNCHANGED <<cbCh, listenerVars, windowVars, ctxDone>>

(* Mutant of OuterTimeout: the inner select has the two channels only.        *)
OuterTimeoutNone == FALSE /\ UNCHANGED vars

(* Five minutes after the first error.                                        *)
OuterTimeout == /\ pc = "wait2" /\ Fail("timeout")
                /\ UNCHANGED <<channelVars, listenerVars, windowVars, ctxDone>>

(* No error parameter, the round's own state, a code.                         *)
Accepted == callback = "own"

FinishOK == /\ pc = "finish" /\ Accepted /\ Goto("save")
            /\ UNCHANGED <<channelVars, listenerVars, windowVars, ctxDone>>

(* The callback is refused, or the exchange fails.                            *)
FinishFails == /\ pc = "finish" /\ Fail("finish")
               /\ UNCHANGED <<channelVars, listenerVars, windowVars, ctxDone>>

---------------------------------------------------------------------------
(* The channels between the goroutines and runOIDC. *)

(* Mutant of CallbackRoom: an unbuffered channel, on which main receives.     *)
CallbackRoomNone == cbCh = Nothing /\ pc \in {"wait", "wait2"}

CallbackRoom == cbCh = Nothing

SendCallback(u) == cbCh' = u /\ UNCHANGED errCh
SendError == ~errCh /\ errCh' = TRUE /\ UNCHANGED cbCh

---------------------------------------------------------------------------
(* The listener goroutine, awaitCallback. *)

Bind == /\ listener = "binding"
        /\ listener' \in {"listening", "error"}
        /\ UNCHANGED <<mainVars, channelVars, got, windowVars, ctxDone>>

(* The handler keeps the first request, of whatever kind.                     *)
Request(u) == /\ listener = "listening"
              /\ got' = IF got = Nothing THEN u ELSE got
              /\ UNCHANGED <<mainVars, channelVars, listener, windowVars, ctxDone>>

AwaitReturns == /\ listener = "listening" /\ got # Nothing
                /\ listener' = "callback"
                /\ UNCHANGED <<mainVars, channelVars, got, windowVars, ctxDone>>

(* The context, or the timer, which select may prefer to a request.           *)
AwaitFails == /\ listener = "listening"
              /\ listener' = "error"
              /\ UNCHANGED <<mainVars, channelVars, got, windowVars, ctxDone>>

ListenerSends ==
  /\ \/ listener = "callback" /\ CallbackRoom /\ SendCallback(got)
     \/ listener = "error" /\ SendError
  /\ listener' = "done"
  /\ UNCHANGED <<mainVars, got, windowVars, ctxDone>>

---------------------------------------------------------------------------
(* The window goroutine, OpenAuthWebView. *)

(* The navigation delegate stops the first page whose URL has the prefix.     *)
Redirected(u) == /\ window = "open"
                 /\ window' = "callback" /\ final' = u
                 /\ UNCHANGED <<mainVars, channelVars, listenerVars, ctxDone>>

(* Closed, or the URL could not be opened: "" and no error.                   *)
Dismissed == /\ window = "open"
             /\ window' = "done"
             /\ UNCHANGED <<mainVars, channelVars, listenerVars, final, ctxDone>>

(* A Picker may return an error; the one of this package does not.            *)
WindowFails == /\ window = "open"
               /\ window' = "error"
               /\ UNCHANGED <<mainVars, channelVars, listenerVars, final, ctxDone>>

WindowSends ==
  /\ \/ window = "callback" /\ CallbackRoom /\ SendCallback(final)
     \/ window = "error" /\ SendError
  /\ window' = "done"
  /\ UNCHANGED <<mainVars, listenerVars, final, ctxDone>>

Cancel == /\ Cancellable /\ ~ctxDone /\ ctxDone' = TRUE
          /\ UNCHANGED <<mainVars, channelVars, listenerVars, windowVars>>

---------------------------------------------------------------------------
Finish == FinishOK \/ FinishFails
Wait == SeesContext \/ ReceivesCallback \/ FirstError \/ SecondError \/ OuterTimeout
Listener == Bind \/ AwaitReturns \/ AwaitFails \/ ListenerSends
User == \/ \E u \in Callback : Redirected(u) \/ Request(u)
        \/ Dismissed \/ WindowFails
Ended == pc = "returned" /\ UNCHANGED vars

Next == \/ Pick \/ Keypair \/ StartOK \/ StartFails \/ Wait \/ Finish \/ Save
        \/ Listener \/ WindowSends \/ User \/ Cancel \/ Ended

Spec == Init /\ [][Next]_vars

(* Goroutines run and timers fire; the issuer answers.  The user is free.     *)
Fairness == WF_vars(Wait) /\ WF_vars(Save) /\ WF_vars(Listener) /\ WF_vars(WindowSends)
PeersAnswer == WF_vars(StartOK \/ StartFails) /\ WF_vars(Finish)
LiveSpec == Spec /\ Fairness /\ PeersAnswer

---------------------------------------------------------------------------
(* Properties. *)

(* The first select of runOIDC has no timer, so it must not be left waiting   *)
(* once the listener, which has one, has ended: whatever the window has sent  *)
(* or will not send, and in whatever order, a message is in a channel then.   *)
FirstWaitIsAnswered ==
  pc = "wait" /\ listener = "done" => cbCh # Nothing \/ errCh

(* "The other goroutine may still land the callback.  Only bail if the second *)
(* one also fails": when runOIDC gives up over two errors, both goroutines    *)
(* have ended and neither has a callback that it delivered or may deliver (a  *)
(* request that arrives as the listener's timer fires is lost inside it).     *)
BailsOnlyWithoutCallback ==
  outcome = "both" => /\ cbCh = Nothing
                      /\ listener = "done" /\ window = "done" /\ final = Nothing

(* No goroutine is left at a full channel by a runOIDC that has returned,     *)
(* unless its context has ended.                                              *)
SendersAreFree ==
  pc \in {"finish", "save", "returned"} /\ ~ctxDone =>
    /\ listener = "callback" \/ window = "callback" => CallbackRoom
    /\ listener = "error" \/ window = "error" => ~errCh

(* The attempt ends even if the user does nothing at all in the window, or    *)
(* closes it without a redirect, through the listener's timer and the outer   *)
(* one, provided that the issuer answers.                                     *)
AttemptEnds == pc = "start" ~> pc = "returned"
=============================================================================
