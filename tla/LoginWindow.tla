---------------------------- MODULE LoginWindow ----------------------------
(***************************************************************************)
(* The sign-in process: runLoginWebView (auth_login.go), the OIDC round it *)
(* starts (startOIDC, awaitCallback, Finish in auth_oidc.go), the keypair  *)
(* flow (auth_keypair.go) and the page they run in (login.html).           *)
(*                                                                         *)
(* Threads.  The main thread owns the window and executes the JavaScript   *)
(* bindings synchronously, so a window whose main thread is inside         *)
(* weftStartOIDC or weftSignInKeypair reacts to nothing.  Every OIDC       *)
(* round has a goroutine (and the HTTP server inside awaitCallback), and   *)
(* one more goroutine waits for the context.  All of them report through   *)
(* setResult.  Goroutines die with the process.                            *)
(***************************************************************************)
EXTENDS Naturals, FiniteSets

CONSTANTS Round,            \* the OIDC rounds the user may start, each with its own state nonce
          Keypair,          \* the session the keypair flow obtains
          NoRound,          \* the state of a request that belongs to no round
          NoCallback,       \* an empty callback channel
          KeypairFallback,  \* auth.keypair_fallback: is the third button shown
          Cancellable       \* may the context end (it cannot in the shipped binary)

Token == Round \union {Keypair}
Verdict == {"unset", "error"} \union Token

ASSUME SentinelsDistinct ==
  /\ Token \intersect {"unset", "error", "absent", "stale", "crash", "running"} = {}
  /\ Keypair \notin Round
  /\ NoRound \notin Round
ASSUME FlagsBoolean == KeypairFallback \in BOOLEAN /\ Cancellable \in BOOLEAN

(* The callback URL as Finish reads it: the state parameter, and whether it *)
(* carries a code, an error or neither.                                     *)
Callback == [state : Round \union {NoRound}, kind : {"code", "denied", "nocode"}]
ASSUME NoCallbackOutside == NoCallback \notin Callback

VARIABLES
  page,       \* what the window shows: "login", "busy" (a binding is awaited),
              \* "leaving" (the authorize URL is known), "idp", "landed" (callbackOKHTML)
  current,    \* the round whose authorize URL the page holds
  main,       \* where the main thread is
  round,      \* where the goroutine of each round is
  got,        \* the one-shot callback channel of each round
  result,     \* result/resultErr/resultSet: "unset", "error" or a session
  slot,       \* what the vault holds for the account
  persisted,  \* every session this process has written
  outcome,    \* what runLoginWebView returned, "unset" being the zero Token and nil
  ctxDone

vars == <<page, current, main, round, got, result, slot, persisted, outcome, ctxDone>>

PageState == {"login", "busy", "leaving", "idp", "landed"}
MainState == {"run", "start", "keypair", "kp_store", "kp_publish",
              "stopped", "returned", "exited"}
RoundState == {"unused", "starting", "bind", "listen", "finish", "store",
               "publish", "failed", "done"}

TypeOK == /\ page \in PageState
          /\ current \in Round \union {NoRound}
          /\ main \in MainState
          /\ round \in [Round -> RoundState]
          /\ got \in [Round -> Callback \union {NoCallback}]
          /\ result \in Verdict
          /\ slot \in {"absent", "stale"} \union Token
          /\ persisted \subseteq Token
          /\ outcome \in Verdict \union {"crash"}
          /\ ctxDone \in BOOLEAN

Init == /\ page = "login"
        /\ current = NoRound
        /\ main = "run"
        /\ round = [r \in Round |-> "unused"]
        /\ got = [r \in Round |-> NoCallback]
        /\ result = "unset"
        /\ slot \in {"absent", "stale"}   \* Authenticate returns a usable session without a window
        /\ persisted = {}
        /\ outcome = "unset"
        /\ ctxDone = FALSE

Alive == main # "exited"
Listening(r) == round[r] = "listen"
At(r, s) == round' = [round EXCEPT ![r] = s]

(* The window answers: the run loop is running and idle. *)
Responsive == main = "run"

(* Mutant of Offer: setResult without its resultSet check. *)
LastVerdictWins(v) == result' = v

(* setResult keeps the first verdict; the later ones are dropped. *)
Offer(v) == result' = IF result = "unset" THEN v ELSE result

(* Mutant of SetResult: w.Terminate is called outside the test of resultSet.  *)
SetResultTerminatesAlways(v) ==
  /\ Offer(v)
  /\ \/ UNCHANGED <<main, outcome>>
     \/ /\ main = "returned"
        /\ main' = "exited" /\ outcome' = "crash"

(* setResult from a goroutine.  A first verdict also calls w.Terminate; when *)
(* the user closed the window, the deferred w.Destroy may have run before    *)
(* and the call on the freed window either does nothing or kills the process.*)
SetResult(v) ==
  /\ Offer(v)
  /\ \/ UNCHANGED <<main, outcome>>
     \/ /\ result = "unset" /\ main = "returned"
        /\ main' = "exited" /\ outcome' = "crash"

(* Mutant of Save: an entry that is there is not replaced.                    *)
SaveIfAbsent(t) == /\ slot' = IF slot = "absent" THEN t ELSE slot
                   /\ persisted' = persisted \union {t}

(* store.Set: the vault keeps one entry per account. *)
Save(t) == /\ slot' = t
           /\ persisted' = persisted \union {t}

---------------------------------------------------------------------------
(* The page and the main thread. *)

(* Click on "Sign in with OIDC": the page goes busy and the main thread runs *)
(* startOIDC.                                                                *)
ClickOIDC(r) ==
  /\ Responsive /\ page = "login" /\ round[r] = "unused"
  /\ page' = "busy" /\ main' = "start" /\ At(r, "starting")
  /\ UNCHANGED <<current, got, result, slot, persisted, outcome, ctxDone>>

(* The issuer was discovered: the goroutine starts, the URL goes to the page. *)
StartOK(r) ==
  /\ main = "start" /\ round[r] = "starting"
  /\ page' = "leaving" /\ current' = r /\ main' = "run" /\ At(r, "bind")
  /\ UNCHANGED <<got, result, slot, persisted, outcome, ctxDone>>

(* Bad configuration, no discovery, no entropy: the page shows the message. *)
StartFail(r) ==
  /\ main = "start" /\ round[r] = "starting"
  /\ page' = "login" /\ main' = "run" /\ At(r, "done")
  /\ UNCHANGED <<current, got, result, slot, persisted, outcome, ctxDone>>

(* window.location.href = url *)
NavigateToIdP ==
  /\ Responsive /\ page = "leaving"
  /\ page' = "idp"
  /\ UNCHANGED <<current, main, round, got, result, slot, persisted, outcome, ctxDone>>

(* The user goes back to the picker, whose buttons work again. *)
BackToLogin ==
  /\ Responsive /\ page \in {"leaving", "idp", "landed"}
  /\ page' = "login"
  /\ UNCHANGED <<current, main, round, got, result, slot, persisted, outcome, ctxDone>>

ClickKeypair ==
  /\ KeypairFallback
  /\ Responsive /\ page = "login"
  /\ page' = "busy" /\ main' = "keypair"
  /\ UNCHANGED <<current, round, got, result, slot, persisted, outcome, ctxDone>>

(* Mutant of KeypairMint: the keypair binding without its store.Set. *)
KeypairMintUnsaved ==
  /\ main = "keypair"
  /\ main' = "kp_publish"
  /\ UNCHANGED <<page, current, round, got, result, slot, persisted, outcome, ctxDone>>

(* The gateway minted a session for the signed assertion. *)
KeypairMint ==
  /\ main = "keypair"
  /\ main' = "kp_store"
  /\ UNCHANGED <<page, current, round, got, result, slot, persisted, outcome, ctxDone>>

(* No key, no gateway, or the assertion was refused: the page shows it. *)
KeypairRefuse ==
  /\ main = "keypair"
  /\ page' = "login" /\ main' = "run"
  /\ UNCHANGED <<current, round, got, result, slot, persisted, outcome, ctxDone>>

KeypairStore ==
  /\ main = "kp_store"
  /\ Save(Keypair) /\ main' = "kp_publish"
  /\ UNCHANGED <<page, current, round, got, result, outcome, ctxDone>>

KeypairStoreFail ==
  /\ main = "kp_store"
  /\ page' = "login" /\ main' = "run"
  /\ UNCHANGED <<current, round, got, result, slot, persisted, outcome, ctxDone>>

(* setResult on the main thread; the promise resolves and the page stays busy *)
(* until the run loop reaches the Terminate.                                  *)
KeypairPublish ==
  /\ main = "kp_publish"
  /\ Offer(Keypair) /\ main' = "run"
  /\ UNCHANGED <<page, current, round, got, slot, persisted, outcome, ctxDone>>

(* The red button; the run loop ends without a result of its own. *)
CloseWindow ==
  /\ Responsive
  /\ main' = "stopped"
  /\ UNCHANGED <<page, current, round, got, result, slot, persisted, outcome, ctxDone>>

(* The run loop reaches the Terminate that a setResult queued. *)
RunReturns ==
  /\ Responsive /\ result # "unset"
  /\ main' = "stopped"
  /\ UNCHANGED <<page, current, round, got, result, slot, persisted, outcome, ctxDone>>

(* return result, resultErr; then the deferred w.Destroy. *)
Return ==
  /\ main = "stopped"
  /\ outcome' = result /\ main' = "returned"
  /\ UNCHANGED <<page, current, round, got, result, slot, persisted, ctxDone>>

(* runSignIn logs and the process ends, whatever its goroutines were doing. *)
Exit ==
  /\ main = "returned"
  /\ main' = "exited"
  /\ UNCHANGED <<page, current, round, got, result, slot, persisted, outcome, ctxDone>>

---------------------------------------------------------------------------
(* The goroutine of a round. *)

(* net.Listen on the redirect_uri's port, which another round may hold. *)
Bind(r) ==
  /\ Alive /\ round[r] = "bind"
  /\ \A s \in Round : ~Listening(s)
  /\ At(r, "listen")
  /\ UNCHANGED <<page, current, main, got, result, slot, persisted, outcome, ctxDone>>

(* Bad redirect_uri, or the port is taken, by a round or by another program. *)
BindFail(r) ==
  /\ Alive /\ round[r] = "bind"
  /\ At(r, "failed")
  /\ UNCHANGED <<page, current, main, got, result, slot, persisted, outcome, ctxDone>>

(* Mutant of Receive: the handler queues only the state parameter. *)
ReceiveState(r, cb) ==
  got' = [got EXCEPT ![r] = IF @ = NoCallback THEN cb.state ELSE @]

(* The HTTP handler: the first request of any kind fills the one-shot channel. *)
Receive(r, cb) ==
  got' = [got EXCEPT ![r] = IF @ = NoCallback THEN cb ELSE @]

(* The IdP redirects the window to the listener; every answer, an error      *)
(* included, is the page callbackOKHTML.                                     *)
CallbackArrives(r, kind) ==
  /\ Alive /\ Listening(r)
  /\ Responsive /\ page = "idp"
  /\ Receive(r, [state |-> current, kind |-> kind])
  /\ page' = "landed"
  /\ UNCHANGED <<current, main, round, result, slot, persisted, outcome, ctxDone>>

(* A request to the port from outside the window: it knows no round's nonce. *)
StrayRequest(r, kind) ==
  /\ Alive /\ Listening(r)
  /\ Receive(r, [state |-> NoRound, kind |-> kind])
  /\ UNCHANGED <<page, current, main, round, result, slot, persisted, outcome, ctxDone>>

(* awaitCallback's select takes the callback and closes the listener. *)
AwaitReturns(r) ==
  /\ Alive /\ Listening(r) /\ got[r] # NoCallback
  /\ At(r, "finish")
  /\ UNCHANGED <<page, current, main, got, result, slot, persisted, outcome, ctxDone>>

(* Mutant of AwaitFails: the wait for the redirect has no timer. *)
AwaitOnlyContext(r) ==
  /\ Alive /\ Listening(r) /\ ctxDone
  /\ At(r, "failed")
  /\ UNCHANGED <<page, current, main, got, result, slot, persisted, outcome, ctxDone>>

(* The five minutes are over, or the context is done; with a callback also   *)
(* ready the select may take either.                                         *)
AwaitFails(r) ==
  /\ Alive /\ Listening(r)
  /\ At(r, "failed")
  /\ UNCHANGED <<page, current, main, got, result, slot, persisted, outcome, ctxDone>>

(* Mutant of Acceptable: Finish without its comparison of the state. *)
HasCode(r) == got[r] # NoCallback /\ got[r].kind = "code"

(* Finish accepts a callback without an error, with its own state and a code. *)
Acceptable(r) == got[r] = [state |-> r, kind |-> "code"]

(* The token endpoint exchanged the code. *)
Finish(r) ==
  /\ Alive /\ round[r] = "finish" /\ Acceptable(r)
  /\ At(r, "store")
  /\ UNCHANGED <<page, current, main, got, result, slot, persisted, outcome, ctxDone>>

(* The callback is refused, or the exchange fails. *)
FinishFail(r) ==
  /\ Alive /\ round[r] = "finish"
  /\ At(r, "failed")
  /\ UNCHANGED <<page, current, main, got, result, slot, persisted, outcome, ctxDone>>

Store(r) ==
  /\ Alive /\ round[r] = "store"
  /\ Save(r) /\ At(r, "publish")
  /\ UNCHANGED <<page, current, main, got, result, outcome, ctxDone>>

(* Mutant of StoreFail: a failed keychain write is only logged. *)
StoreFailLogged(r) ==
  /\ Alive /\ round[r] = "store"
  /\ At(r, "publish")
  /\ UNCHANGED <<page, current, main, got, result, slot, persisted, outcome, ctxDone>>

(* keychain write: the session is dropped and the window reports the error. *)
StoreFail(r) ==
  /\ Alive /\ round[r] = "store"
  /\ At(r, "failed")
  /\ UNCHANGED <<page, current, main, got, result, slot, persisted, outcome, ctxDone>>

Publish(r) ==
  /\ Alive /\ round[r] = "publish"
  /\ SetResult(r) /\ At(r, "done")
  /\ UNCHANGED <<page, current, got, slot, persisted, ctxDone>>

PublishError(r) ==
  /\ Alive /\ round[r] = "failed"
  /\ SetResult("error") /\ At(r, "done")
  /\ UNCHANGED <<page, current, got, slot, persisted, ctxDone>>

---------------------------------------------------------------------------
(* The context, and the goroutine that waits for it. *)

Cancel ==
  /\ Cancellable /\ Alive /\ ~ctxDone
  /\ ctxDone' = TRUE
  /\ UNCHANGED <<page, current, main, round, got, result, slot, persisted, outcome>>

CancelSeen ==
  /\ Alive /\ ctxDone /\ result = "unset"
  /\ SetResult("error")
  /\ UNCHANGED <<page, current, round, got, slot, persisted, ctxDone>>

(* The process is gone. *)
Ended == main = "exited" /\ UNCHANGED vars

---------------------------------------------------------------------------
Kinds == {"code", "denied", "nocode"}

Wire(r) == \E k \in Kinds : CallbackArrives(r, k) \/ StrayRequest(r, k)

RoundStep(r) == \/ Bind(r) \/ BindFail(r)
                \/ AwaitReturns(r) \/ AwaitFails(r)
                \/ Store(r) \/ StoreFail(r)
                \/ Publish(r) \/ PublishError(r)

Exchange(r) == Finish(r) \/ FinishFail(r)

Starting(r) == StartOK(r) \/ StartFail(r)

KeypairStep == \/ KeypairMint \/ KeypairRefuse
               \/ KeypairStore \/ KeypairStoreFail \/ KeypairPublish

User == \/ \E r \in Round : ClickOIDC(r)
        \/ NavigateToIdP \/ BackToLogin \/ ClickKeypair \/ CloseWindow

Next == \/ User
        \/ \E r \in Round : Starting(r) \/ Wire(r) \/ RoundStep(r) \/ Exchange(r)
        \/ KeypairStep
        \/ RunReturns \/ Return \/ Exit
        \/ Cancel \/ CancelSeen
        \/ Ended

Spec == Init /\ [][Next]_vars

(* The scheduler runs every goroutine and the main thread, and the run loop   *)
(* drains its queue: a pending Terminate is reached although clicks keep      *)
(* coming, so RunReturns is treated strongly.  awaitCallback cannot wait      *)
(* for ever: its timer is part of RoundStep.                                  *)
Fairness == /\ \A r \in Round : WF_vars(RoundStep(r))
            /\ WF_vars(KeypairStore \/ KeypairStoreFail \/ KeypairPublish)
            /\ SF_vars(RunReturns)
            /\ WF_vars(Return) /\ WF_vars(Exit)

(* Discovery, the code exchange and the assertion go through                  *)
(* http.DefaultClient, which has no timeout: that they end is an assumption   *)
(* about the peers and not about this code.                                   *)
PeersAnswer == /\ \A r \in Round : WF_vars(Starting(r)) /\ WF_vars(Exchange(r))
               /\ WF_vars(KeypairMint \/ KeypairRefuse)

LiveSpec == Spec /\ Fairness /\ PeersAnswer

---------------------------------------------------------------------------
(* Properties. *)

(* The session that runLoginWebView returns has been written to the vault by  *)
(* then, so the tray that reads the vault after the child exits finds one.    *)
ReturnedTokenPersisted == outcome \in Token => outcome \in persisted

(* No request but this round's own redirect, with a code and without an       *)
(* error, leads to an exchange or to a vault write (the CSRF check of         *)
(* Finish), whichever rounds and strangers talk to the shared port.           *)
OnlyOwnCallbackExchanged ==
  \A r \in Round : (round[r] \in {"store", "publish"} \/ r \in persisted) 
    => got[r] = [state |-> r, kind |-> "code"]

(* Whichever flow reports first decides: no later success, error or           *)
(* cancellation replaces the verdict of the window.                           *)
FirstVerdictStands == [][result # "unset" => result' = result]_vars

(* A round that was handed to the browser always ends the window, by its      *)
(* session, by its error or by its timeout: the sign-in process, which the    *)
(* tray's event loop is blocked on, cannot be left open by a round.           *)
RoundEndsTheWindow == \A r \in Round : round[r] = "bind" ~> main = "exited"

(* A verdict that is in while the window is there is what the process ends    *)
(* with, whatever the flows still in flight report after w.Destroy; only a    *)
(* process that had none can be hit by their w.Terminate.                     *)
VerdictIsDelivered ==
  \A v \in Verdict \ {"unset"} :
    result = v /\ main \notin {"returned", "exited"} ~> main = "exited" /\ outcome = v

(* The sign-in process is a SignInAttempt. *)
Attempt == INSTANCE SignInAttempt
             WITH slot <- slot, stored <- persisted,
                  outcome <- IF main = "exited" THEN outcome ELSE "running"
IsAttempt == Attempt!Spec

(* What the tray that waits in cmd.Run sees of this process: the vault entry,  *)
(* the last session written, and how it ended (runSignIn exits 0 unless       *)
(* Authenticate returned an error).                                           *)
ExitStatus == IF main # "exited" THEN "window"
              ELSE IF outcome \in {"error", "crash"} THEN "failed" ELSE "ok"
Seen == INSTANCE Tray
          WITH Token <- Token \union {"stale"}, Child <- {"self"}, NoToken <- "absent",
               NoChild <- "none", TrayAccount <- "account", ChildAccount <- "account",
               vault <- [a \in {"account"} |-> slot], vaultUp <- TRUE,
               minted <- persisted \union {"stale"}, expired <- {"stale"},
               child <- [c \in {"self"} |-> ExitStatus],
               saved <- [c \in {"self"} |-> IF slot \in Token THEN slot ELSE "absent"],
               pc <- "signin", waiting <- "self", enabled <- TRUE, authToken <- "absent",
               menu <- {"signin"}, ctxDone <- FALSE, dashboards <- {}, forgotten <- {}

(* All that the sign-in process does to the vault and to the tray are the     *)
(* steps that the tray's model allows its child: each session it obtains is   *)
(* saved once, while the window is open, and the last one saved owns the      *)
(* entry; then it ends, with a status that says nothing about the vault.      *)
ActsAsTrayChild ==
  [][\/ \E t \in Token : Seen!ChildSaves("self", t)
     \/ \E status \in {"ok", "failed"} : Seen!ChildEnds("self", status)]_(Seen!vars)

(* "sign in ok" is logged, and the process exits 0, only with a session.      *)
ExitOkMeansSignedIn ==
  main = "exited" /\ outcome \notin {"error", "crash"} => outcome \in Token
=============================================================================
