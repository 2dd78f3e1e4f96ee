------------------------- MODULE LoginWindowProofs -------------------------
(***************************************************************************)
(* What TLAPS proves of LoginWindow: its safety properties and that it     *)
(* implements SignInAttempt, for any set of rounds.                        *)
(***************************************************************************)
EXTENDS LoginWindow, TLAPS

(* A verdict names a session only after the flow that reports it saved it:   *)
(* ReturnedTokenPersisted is the last conjunct, and is inductive only with   *)
(* what the flows know between their store.Set and their setResult.          *)
VerdictBacked ==
  /\ \A r \in Round : round[r] = "publish" => r \in persisted
  /\ main = "kp_publish" => Keypair \in persisted
  /\ result \in Token => result \in persisted
  /\ ReturnedTokenPersisted

SignInInv == TypeOK /\ VerdictBacked /\ OnlyOwnCallbackExchanged

(* Every variable keeps its type in every step of the sign-in process.       *)
LEMMA TypeStep == TypeOK /\ [Next]_vars => TypeOK'
  <1>. SUFFICES ASSUME TypeOK, [Next]_vars PROVE TypeOK' OBVIOUS
  <1>. USE DEF TypeOK, PageState, MainState, RoundState, Verdict, Token
  <1>1. ASSUME NEW r \in Round, ClickOIDC(r)
       PROVE TypeOK'
    BY <1>1 DEF ClickOIDC, At, Responsive
  <1>2. CASE NavigateToIdP
    BY <1>2 DEF NavigateToIdP, Responsive
  <1>3. CASE BackToLogin
    BY <1>3 DEF BackToLogin, Responsive
  <1>4. CASE ClickKeypair
    BY <1>4 DEF ClickKeypair, Responsive
  <1>5. CASE CloseWindow
    BY <1>5 DEF CloseWindow, Responsive
  <1>6. ASSUME NEW r \in Round, StartOK(r)
       PROVE TypeOK'
    BY <1>6 DEF StartOK, At
  <1>7. ASSUME NEW r \in Round, StartFail(r)
       PROVE TypeOK'
    BY <1>7 DEF StartFail, At
  <1>8. ASSUME NEW r \in Round, NEW k \in Kinds, CallbackArrives(r, k)
       PROVE TypeOK'
    BY <1>8 DEF CallbackArrives, Alive, Listening, Responsive, Receive, Callback, Kinds
  <1>9. ASSUME NEW r \in Round, NEW k \in Kinds, StrayRequest(r, k)
       PROVE TypeOK'
    BY <1>9 DEF StrayRequest, Alive, Listening, Receive, Callback, Kinds
  <1>10. ASSUME NEW r \in Round, Bind(r)
       PROVE TypeOK'
    BY <1>10 DEF Bind, Alive, At, Listening
  <1>11. ASSUME NEW r \in Round, BindFail(r)
       PROVE TypeOK'
    BY <1>11 DEF BindFail, Alive, At
  <1>12. ASSUME NEW r \in Round, AwaitReturns(r)
       PROVE TypeOK'
    BY <1>12 DEF AwaitReturns, Alive, At, Listening
  <1>13. ASSUME NEW r \in Round, AwaitFails(r)
       PROVE TypeOK'
    BY <1>13 DEF AwaitFails, Alive, At, Listening
  <1>14. ASSUME NEW r \in Round, Store(r)
       PROVE TypeOK'
    BY <1>14 DEF Store, Alive, At, Save
  <1>15. ASSUME NEW r \in Round, StoreFail(r)
       PROVE TypeOK'
    BY <1>15 DEF StoreFail, Alive, At
  <1>16. ASSUME NEW r \in Round, Publish(r)
       PROVE TypeOK'
    BY <1>16 DEF Publish, Alive, At, SetResult, Offer
  <1>17. ASSUME NEW r \in Round, PublishError(r)
       PROVE TypeOK'
    BY <1>17 DEF PublishError, Alive, At, SetResult, Offer
  <1>18. ASSUME NEW r \in Round, Finish(r)
       PROVE TypeOK'
    BY <1>18 DEF Finish, Alive, At, Acceptable
  <1>19. ASSUME NEW r \in Round, FinishFail(r)
       PROVE TypeOK'
    BY <1>19 DEF FinishFail, Alive, At
  <1>20. CASE KeypairMint
    BY <1>20 DEF KeypairMint
  <1>21. CASE KeypairRefuse
    BY <1>21 DEF KeypairRefuse
  <1>22. CASE KeypairStore
    BY <1>22 DEF KeypairStore, Save
  <1>23. CASE KeypairStoreFail
    BY <1>23 DEF KeypairStoreFail
  <1>24. CASE KeypairPublish
    BY <1>24 DEF KeypairPublish, Offer
  <1>25. CASE RunReturns
    BY <1>25 DEF RunReturns, Responsive
  <1>26. CASE Return
    BY <1>26 DEF Return
  <1>27. CASE Exit
    BY <1>27 DEF Exit
  <1>28. CASE Cancel
    BY <1>28 DEF Cancel, Alive
  <1>29. CASE CancelSeen
    BY <1>29 DEF CancelSeen, Alive, SetResult, Offer
  <1>30. CASE UNCHANGED vars
    BY <1>30 DEF vars
  <1>. QED
    BY <1>1, <1>2, <1>3, <1>4, <1>5, <1>6, <1>7, <1>8, <1>9, <1>10, <1>11, <1>12, <1>13, <1>14, <1>15, <1>16, <1>17, <1>18, <1>19, <1>20, <1>21, <1>22, <1>23, <1>24, <1>25, <1>26, <1>27, <1>28, <1>29, <1>30 DEF Next, User, Starting, Wire, RoundStep, Exchange, KeypairStep, Ended

(* The sign-in process starts in a state of its type.                        *)
LEMMA TypeInit == Init => TypeOK
  BY DEF Init, TypeOK, PageState, MainState, RoundState, Verdict, Token

(* Every variable of the login window keeps its type.                        *)
THEOREM TypeCorrect == Spec => []TypeOK
  BY TypeInit, TypeStep, PTL DEF Spec

(* A step reports a session only after the vault took it.                    *)
LEMMA VerdictStep == TypeOK /\ VerdictBacked /\ [Next]_vars => VerdictBacked'
  <1>. SUFFICES ASSUME TypeOK, VerdictBacked, [Next]_vars PROVE VerdictBacked' OBVIOUS
  <1>. USE SentinelsDistinct DEF TypeOK, VerdictBacked, ReturnedTokenPersisted, Verdict, Token
  <1>1. ASSUME NEW r \in Round, ClickOIDC(r)
       PROVE VerdictBacked'
    BY <1>1 DEF ClickOIDC, At, Responsive
  <1>2. CASE NavigateToIdP
    BY <1>2 DEF NavigateToIdP, Responsive
  <1>3. CASE BackToLogin
    BY <1>3 DEF BackToLogin, Responsive
  <1>4. CASE ClickKeypair
    BY <1>4 DEF ClickKeypair, Responsive
  <1>5. CASE CloseWindow
    BY <1>5 DEF CloseWindow, Responsive
  <1>6. ASSUME NEW r \in Round, StartOK(r)
       PROVE VerdictBacked'
    BY <1>6 DEF StartOK, At
  <1>7. ASSUME NEW r \in Round, StartFail(r)
       PROVE VerdictBacked'
    BY <1>7 DEF StartFail, At
  <1>8. ASSUME NEW r \in Round, NEW k \in Kinds, CallbackArrives(r, k)
       PROVE VerdictBacked'
    BY <1>8 DEF CallbackArrives, Alive, Listening, Responsive, Receive, Callback, Kinds
  <1>9. ASSUME NEW r \in Round, NEW k \in Kinds, StrayRequest(r, k)
       PROVE VerdictBacked'
    BY <1>9 DEF StrayRequest, Alive, Listening, Receive, Callback, Kinds
  <1>10. ASSUME NEW r \in Round, Bind(r)
       PROVE VerdictBacked'
    BY <1>10 DEF Bind, Alive, At, Listening
  <1>11. ASSUME NEW r \in Round, BindFail(r)
       PROVE VerdictBacked'
    BY <1>11 DEF BindFail, Alive, At
  <1>12. ASSUME NEW r \in Round, AwaitReturns(r)
       PROVE VerdictBacked'
    BY <1>12 DEF AwaitReturns, Alive, At, Listening
  <1>13. ASSUME NEW r \in Round, AwaitFails(r)
       PROVE VerdictBacked'
    BY <1>13 DEF AwaitFails, Alive, At, Listening
  <1>14. ASSUME NEW r \in Round, Store(r)
       PROVE VerdictBacked'
    BY <1>14 DEF Store, Alive, At, Save
  <1>15. ASSUME NEW r \in Round, StoreFail(r)
       PROVE VerdictBacked'
    BY <1>15 DEF StoreFail, Alive, At
  <1>16. ASSUME NEW r \in Round, Publish(r)
       PROVE VerdictBacked'
    BY <1>16 DEF Publish, Alive, At, SetResult, Offer
  <1>17. ASSUME NEW r \in Round, PublishError(r)
       PROVE VerdictBacked'
    BY <1>17 DEF PublishError, Alive, At, SetResult, Offer
  <1>18. ASSUME NEW r \in Round, Finish(r)
       PROVE VerdictBacked'
    BY <1>18 DEF Finish, Alive, At, Acceptable
  <1>19. ASSUME NEW r \in Round, FinishFail(r)
       PROVE VerdictBacked'
    BY <1>19 DEF FinishFail, Alive, At
  <1>20. CASE KeypairMint
    BY <1>20 DEF KeypairMint
  <1>21. CASE KeypairRefuse
    BY <1>21 DEF KeypairRefuse
  <1>22. CASE KeypairStore
    BY <1>22 DEF KeypairStore, Save
  <1>23. CASE KeypairStoreFail
    BY <1>23 DEF KeypairStoreFail
  <1>24. CASE KeypairPublish
    BY <1>24 DEF KeypairPublish, Offer
  <1>25. CASE RunReturns
    BY <1>25 DEF RunReturns, Responsive
  <1>26. CASE Return
    BY <1>26 DEF Return
  <1>27. CASE Exit
    BY <1>27 DEF Exit
  <1>28. CASE Cancel
    BY <1>28 DEF Cancel, Alive
  <1>29. CASE CancelSeen
    BY <1>29 DEF CancelSeen, Alive, SetResult, Offer
  <1>30. CASE UNCHANGED vars
    BY <1>30 DEF vars
  <1>. QED
    BY <1>1, <1>2, <1>3, <1>4, <1>5, <1>6, <1>7, <1>8, <1>9, <1>10, <1>11, <1>12, <1>13, <1>14, <1>15, <1>16, <1>17, <1>18, <1>19, <1>20, <1>21, <1>22, <1>23, <1>24, <1>25, <1>26, <1>27, <1>28, <1>29, <1>30 DEF Next, User, Starting, Wire, RoundStep, Exchange, KeypairStep, Ended

(* A step saves the session of a round only after the round's own redirect.  *)
LEMMA ExchangeStep ==
  TypeOK /\ OnlyOwnCallbackExchanged /\ [Next]_vars => OnlyOwnCallbackExchanged'
  <1>. SUFFICES ASSUME TypeOK, OnlyOwnCallbackExchanged, [Next]_vars
                PROVE  OnlyOwnCallbackExchanged'
    OBVIOUS
  <1>. USE SentinelsDistinct, NoCallbackOutside
       DEF TypeOK, OnlyOwnCallbackExchanged, Callback
  <1>1. ASSUME NEW r \in Round, ClickOIDC(r)
       PROVE OnlyOwnCallbackExchanged'
    BY <1>1 DEF ClickOIDC, At, Responsive
  <1>2. CASE NavigateToIdP
    BY <1>2 DEF NavigateToIdP, Responsive
  <1>3. CASE BackToLogin
    BY <1>3 DEF BackToLogin, Responsive
  <1>4. CASE ClickKeypair
    BY <1>4 DEF ClickKeypair, Responsive
  <1>5. CASE CloseWindow
    BY <1>5 DEF CloseWindow, Responsive
  <1>6. ASSUME NEW r \in Round, StartOK(r)
       PROVE OnlyOwnCallbackExchanged'
    BY <1>6 DEF StartOK, At
  <1>7. ASSUME NEW r \in Round, StartFail(r)
       PROVE OnlyOwnCallbackExchanged'
    BY <1>7 DEF StartFail, At
  <1>8. ASSUME NEW r \in Round, NEW k \in Kinds, CallbackArrives(r, k)
       PROVE OnlyOwnCallbackExchanged'
    BY <1>8 DEF CallbackArrives, Alive, Listening, Responsive, Receive, Callback, Kinds
  <1>9. ASSUME NEW r \in Round, NEW k \in Kinds, StrayRequest(r, k)
       PROVE OnlyOwnCallbackExchanged'
    BY <1>9 DEF StrayRequest, Alive, Listening, Receive, Callback, Kinds
  <1>10. ASSUME NEW r \in Round, Bind(r)
       PROVE OnlyOwnCallbackExchanged'
    BY <1>10 DEF Bind, Alive, At, Listening
  <1>11. ASSUME NEW r \in Round, BindFail(r)
       PROVE OnlyOwnCallbackExchanged'
    BY <1>11 DEF BindFail, Alive, At
  <1>12. ASSUME NEW r \in Round, AwaitReturns(r)
       PROVE OnlyOwnCallbackExchanged'
    BY <1>12 DEF AwaitReturns, Alive, At, Listening
  <1>13. ASSUME NEW r \in Round, AwaitFails(r)
       PROVE OnlyOwnCallbackExchanged'
    BY <1>13 DEF AwaitFails, Alive, At, Listening
  <1>14. ASSUME NEW r \in Round, Store(r)
       PROVE OnlyOwnCallbackExchanged'
    BY <1>14 DEF Store, Alive, At, Save
  <1>15. ASSUME NEW r \in Round, StoreFail(r)
       PROVE OnlyOwnCallbackExchanged'
    BY <1>15 DEF StoreFail, Alive, At
  <1>16. ASSUME NEW r \in Round, Publish(r)
       PROVE OnlyOwnCallbackExchanged'
    BY <1>16 DEF Publish, Alive, At, SetResult, Offer
  <1>17. ASSUME NEW r \in Round, PublishError(r)
       PROVE OnlyOwnCallbackExchanged'
    BY <1>17 DEF PublishError, Alive, At, SetResult, Offer
  <1>18. ASSUME NEW r \in Round, Finish(r)
       PROVE OnlyOwnCallbackExchanged'
    BY <1>18 DEF Finish, Alive, At, Acceptable
  <1>19. ASSUME NEW r \in Round, FinishFail(r)
       PROVE OnlyOwnCallbackExchanged'
    BY <1>19 DEF FinishFail, Alive, At
  <1>20. CASE KeypairMint
    BY <1>20 DEF KeypairMint
  <1>21. CASE KeypairRefuse
    BY <1>21 DEF KeypairRefuse
  <1>22. CASE KeypairStore
    BY <1>22 DEF KeypairStore, Save
  <1>23. CASE KeypairStoreFail
    BY <1>23 DEF KeypairStoreFail
  <1>24. CASE KeypairPublish
    BY <1>24 DEF KeypairPublish, Offer
  <1>25. CASE RunReturns
    BY <1>25 DEF RunReturns, Responsive
  <1>26. CASE Return
    BY <1>26 DEF Return
  <1>27. CASE Exit
    BY <1>27 DEF Exit
  <1>28. CASE Cancel
    BY <1>28 DEF Cancel, Alive
  <1>29. CASE CancelSeen
    BY <1>29 DEF CancelSeen, Alive, SetResult, Offer
  <1>30. CASE UNCHANGED vars
    BY <1>30 DEF vars
  <1>. QED
    BY <1>1, <1>2, <1>3, <1>4, <1>5, <1>6, <1>7, <1>8, <1>9, <1>10, <1>11, <1>12, <1>13, <1>14, <1>15, <1>16, <1>17, <1>18, <1>19, <1>20, <1>21, <1>22, <1>23, <1>24, <1>25, <1>26, <1>27, <1>28, <1>29, <1>30 DEF Next, User, Starting, Wire, RoundStep, Exchange, KeypairStep, Ended

(* The conjuncts of SignInInv hold together, initially and in every step.    *)
LEMMA SignInInvariant == Spec => []SignInInv
  <1>1. Init => SignInInv
    BY TypeInit, SentinelsDistinct
       DEF Init, SignInInv, VerdictBacked, ReturnedTokenPersisted, OnlyOwnCallbackExchanged, Token
  <1>2. SignInInv /\ [Next]_vars => SignInInv'
    BY TypeStep, VerdictStep, ExchangeStep DEF SignInInv
  <1>. QED
    BY <1>1, <1>2, PTL DEF Spec

(* The session that runLoginWebView returns is in the vault's history.       *)
THEOREM ReturnedIsPersisted == Spec => []ReturnedTokenPersisted
  <1>1. SignInInv => ReturnedTokenPersisted
    BY DEF SignInInv, VerdictBacked
  <1>. QED
    BY <1>1, SignInInvariant, PTL

(* No round exchanges or saves anything for a request that is not its own    *)
(* redirect, whatever arrives on the port it shares with the other rounds.   *)
THEOREM ExchangeIsOwn == Spec => []OnlyOwnCallbackExchanged
  <1>1. SignInInv => OnlyOwnCallbackExchanged
    BY DEF SignInInv
  <1>. QED
    BY <1>1, SignInInvariant, PTL

(* setResult is first-come: no step changes a verdict.                       *)
THEOREM VerdictIsFirst == Spec => FirstVerdictStands
  <1>1. [Next]_vars => [result # "unset" => result' = result]_vars
    BY DEF Next, User, Starting, Wire, RoundStep, Exchange, KeypairStep, Ended,
           ClickOIDC, NavigateToIdP, BackToLogin, ClickKeypair, CloseWindow,
           StartOK, StartFail, CallbackArrives, StrayRequest, Bind, BindFail,
           AwaitReturns, AwaitFails, Store, StoreFail, Publish, PublishError,
           Finish, FinishFail, KeypairMint, KeypairRefuse, KeypairStore,
           KeypairStoreFail, KeypairPublish, RunReturns, Return, Exit, Cancel,
           CancelSeen, SetResult, Offer, vars
  <1>. QED
    BY <1>1, PTL DEF Spec, FirstVerdictStands

(* A step of the sign-in process is a step of the attempt, or leaves it as   *)
(* it is.                                                                    *)
LEMMA AttemptStep ==
  SignInInv /\ [Next]_vars => [Attempt!Next]_(Attempt!attemptVars)
  <1>. SUFFICES ASSUME SignInInv, [Next]_vars
                PROVE  [Attempt!Next]_(Attempt!attemptVars)
    OBVIOUS
  <1>. USE SentinelsDistinct DEF SignInInv, TypeOK, VerdictBacked, ReturnedTokenPersisted,
           Verdict, MainState, Attempt!Next, Attempt!attemptVars, Attempt!Persist, Attempt!End,
           Attempt!NoSession
  <1>1. ASSUME NEW r \in Round, ClickOIDC(r)
       PROVE [Attempt!Next]_(Attempt!attemptVars)
    BY <1>1 DEF ClickOIDC, At, Responsive
  <1>2. CASE NavigateToIdP
    BY <1>2 DEF NavigateToIdP, Responsive
  <1>3. CASE BackToLogin
    BY <1>3 DEF BackToLogin, Responsive
  <1>4. CASE ClickKeypair
    BY <1>4 DEF ClickKeypair, Responsive
  <1>5. CASE CloseWindow
    BY <1>5 DEF CloseWindow, Responsive
  <1>6. ASSUME NEW r \in Round, StartOK(r)
       PROVE [Attempt!Next]_(Attempt!attemptVars)
    BY <1>6 DEF StartOK, At
  <1>7. ASSUME NEW r \in Round, StartFail(r)
       PROVE [Attempt!Next]_(Attempt!attemptVars)
    BY <1>7 DEF StartFail, At
  <1>8. ASSUME NEW r \in Round, NEW k \in Kinds, CallbackArrives(r, k)
       PROVE [Attempt!Next]_(Attempt!attemptVars)
    BY <1>8 DEF CallbackArrives, Alive, Listening, Responsive, Receive, Callback, Kinds
  <1>9. ASSUME NEW r \in Round, NEW k \in Kinds, StrayRequest(r, k)
       PROVE [Attempt!Next]_(Attempt!attemptVars)
    BY <1>9 DEF StrayRequest, Alive, Listening, Receive, Callback, Kinds
  <1>10. ASSUME NEW r \in Round, Bind(r)
       PROVE [Attempt!Next]_(Attempt!attemptVars)
    BY <1>10 DEF Bind, Alive, At, Listening
  <1>11. ASSUME NEW r \in Round, BindFail(r)
       PROVE [Attempt!Next]_(Attempt!attemptVars)
    BY <1>11 DEF BindFail, Alive, At
  <1>12. ASSUME NEW r \in Round, AwaitReturns(r)
       PROVE [Attempt!Next]_(Attempt!attemptVars)
    BY <1>12 DEF AwaitReturns, Alive, At, Listening
  <1>13. ASSUME NEW r \in Round, AwaitFails(r)
       PROVE [Attempt!Next]_(Attempt!attemptVars)
    BY <1>13 DEF AwaitFails, Alive, At, Listening
  <1>14. ASSUME NEW r \in Round, Store(r)
       PROVE [Attempt!Next]_(Attempt!attemptVars)
    <2>1. Attempt!Persist(r)
      BY <1>14 DEF Store, Alive, Save
    <2>. QED
      BY <2>1 DEF Token
  <1>15. ASSUME NEW r \in Round, StoreFail(r)
       PROVE [Attempt!Next]_(Attempt!attemptVars)
    BY <1>15 DEF StoreFail, Alive, At
  <1>16. ASSUME NEW r \in Round, Publish(r)
       PROVE [Attempt!Next]_(Attempt!attemptVars)
    BY <1>16 DEF Publish, Alive, At, SetResult, Offer
  <1>17. ASSUME NEW r \in Round, PublishError(r)
       PROVE [Attempt!Next]_(Attempt!attemptVars)
    BY <1>17 DEF PublishError, Alive, At, SetResult, Offer
  <1>18. ASSUME NEW r \in Round, Finish(r)
       PROVE [Attempt!Next]_(Attempt!attemptVars)
    BY <1>18 DEF Finish, Alive, At, Acceptable
  <1>19. ASSUME NEW r \in Round, FinishFail(r)
       PROVE [Attempt!Next]_(Attempt!attemptVars)
    BY <1>19 DEF FinishFail, Alive, At
  <1>20. CASE KeypairMint
    BY <1>20 DEF KeypairMint
  <1>21. CASE KeypairRefuse
    BY <1>21 DEF KeypairRefuse
  <1>22. CASE KeypairStore
    <2>1. Attempt!Persist(Keypair)
      BY <1>22 DEF KeypairStore, Save
    <2>. QED
      BY <2>1 DEF Token
  <1>23. CASE KeypairStoreFail
    BY <1>23 DEF KeypairStoreFail
  <1>24. CASE KeypairPublish
    BY <1>24 DEF KeypairPublish, Offer
  <1>25. CASE RunReturns
    BY <1>25 DEF RunReturns, Responsive
  <1>26. CASE Return
    BY <1>26 DEF Return
  <1>27. CASE Exit
    BY <1>27 DEF Exit
  <1>28. CASE Cancel
    BY <1>28 DEF Cancel, Alive
  <1>29. CASE CancelSeen
    BY <1>29 DEF CancelSeen, Alive, SetResult, Offer
  <1>30. CASE UNCHANGED vars
    BY <1>30 DEF vars
  <1>. QED
    BY <1>1, <1>2, <1>3, <1>4, <1>5, <1>6, <1>7, <1>8, <1>9, <1>10, <1>11, <1>12, <1>13, <1>14, <1>15, <1>16, <1>17, <1>18, <1>19, <1>20, <1>21, <1>22, <1>23, <1>24, <1>25, <1>26, <1>27, <1>28, <1>29, <1>30 DEF Next, User, Starting, Wire, RoundStep, Exchange, KeypairStep, Ended

(* The sign-in process implements the attempt that the tray waits for: it    *)
(* ends once, names only a session it has saved, and saves nothing after.    *)
THEOREM WindowIsAttempt == Spec => IsAttempt
  <1>1. Init => Attempt!Init
    BY DEF Init, Attempt!Init, Attempt!Initial
  <1>. QED
    BY <1>1, AttemptStep, SignInInvariant, PTL DEF Spec, IsAttempt, Attempt!Spec

---------------------------------------------------------------------------
(* The steps that a reader of the vault or of the exit status can see are    *)
(* few: the two that save, and those that end the process.                   *)
SavesOne(t) == /\ Alive /\ t \notin persisted
               /\ Save(t) /\ Alive'

Unseen == UNCHANGED <<slot, persisted, ExitStatus>>

Ends == Alive /\ main' = "exited" /\ UNCHANGED <<slot, persisted>>

(* A session is in persisted only when the flow that obtained it is past its *)
(* store.Set; the keypair binding is past it for good, because the page it   *)
(* leaves behind stays busy.                                                 *)
SavedOnceInv ==
  /\ main \in {"start", "keypair", "kp_store", "kp_publish"} => page = "busy"
  /\ \A r \in Round : r \in persisted => round[r] \in {"publish", "done"}
  /\ Keypair \in persisted =>
       page = "busy" /\ main \in {"kp_publish", "run", "stopped", "returned", "exited"}

(* No flow comes back to its store.Set.                                      *)
LEMMA SavedOnceStep == TypeOK /\ SavedOnceInv /\ [Next]_vars => SavedOnceInv'
  <1>. SUFFICES ASSUME TypeOK, SavedOnceInv, [Next]_vars PROVE SavedOnceInv' OBVIOUS
  <1>. USE SentinelsDistinct DEF TypeOK, SavedOnceInv, Token
  <1>1. ASSUME NEW r \in Round, ClickOIDC(r)
       PROVE SavedOnceInv'
    BY <1>1 DEF ClickOIDC, At, Responsive
  <1>2. CASE NavigateToIdP
    BY <1>2 DEF NavigateToIdP, Responsive
  <1>3. CASE BackToLogin
    BY <1>3 DEF BackToLogin, Responsive
  <1>4. CASE ClickKeypair
    BY <1>4 DEF ClickKeypair, Responsive
  <1>5. CASE CloseWindow
    BY <1>5 DEF CloseWindow, Responsive
  <1>6. ASSUME NEW r \in Round, StartOK(r) \/ StartFail(r)
       PROVE SavedOnceInv'
    BY <1>6 DEF StartOK, StartFail, At
  <1>7. ASSUME NEW r \in Round, NEW k \in Kinds, CallbackArrives(r, k)
       PROVE SavedOnceInv'
    BY <1>7 DEF CallbackArrives, Alive, Listening, Responsive
  <1>8. ASSUME NEW r \in Round, NEW k \in Kinds, StrayRequest(r, k)
       PROVE SavedOnceInv'
    BY <1>8 DEF StrayRequest, Alive, Listening
  <1>9. ASSUME NEW r \in Round, Bind(r) \/ BindFail(r)
       PROVE SavedOnceInv'
    BY <1>9 DEF Bind, BindFail, Alive, At, Listening
  <1>10. ASSUME NEW r \in Round, AwaitReturns(r) \/ AwaitFails(r)
       PROVE SavedOnceInv'
    BY <1>10 DEF AwaitReturns, AwaitFails, Alive, At, Listening
  <1>11. ASSUME NEW r \in Round, Store(r)
       PROVE SavedOnceInv'
    BY <1>11 DEF Store, Alive, At, Save
  <1>12. ASSUME NEW r \in Round, StoreFail(r)
       PROVE SavedOnceInv'
    BY <1>12 DEF StoreFail, Alive, At
  <1>13. ASSUME NEW r \in Round, Publish(r)
       PROVE SavedOnceInv'
    BY <1>13 DEF Publish, Alive, At, SetResult
  <1>14. ASSUME NEW r \in Round, PublishError(r)
       PROVE SavedOnceInv'
    BY <1>14 DEF PublishError, Alive, At, SetResult
  <1>15. ASSUME NEW r \in Round, Finish(r) \/ FinishFail(r)
       PROVE SavedOnceInv'
    BY <1>15 DEF Finish, FinishFail, Alive, At
  <1>16. CASE KeypairMint \/ KeypairRefuse
    BY <1>16 DEF KeypairMint, KeypairRefuse
  <1>17. CASE KeypairStore
    BY <1>17 DEF KeypairStore, Save
  <1>18. CASE KeypairStoreFail
    BY <1>18 DEF KeypairStoreFail
  <1>19. CASE KeypairPublish
    BY <1>19 DEF KeypairPublish
  <1>20. CASE RunReturns
    BY <1>20 DEF RunReturns, Responsive
  <1>21. CASE Return
    BY <1>21 DEF Return
  <1>22. CASE Exit
    BY <1>22 DEF Exit
  <1>23. CASE Cancel
    BY <1>23 DEF Cancel, Alive
  <1>24. CASE CancelSeen
    BY <1>24 DEF CancelSeen, Alive, SetResult
  <1>25. CASE UNCHANGED vars
    BY <1>25 DEF vars
  <1>. QED
    BY <1>1, <1>2, <1>3, <1>4, <1>5, <1>6, <1>7, <1>8, <1>9, <1>10, <1>11, <1>12, <1>13, <1>14, <1>15, <1>16, <1>17, <1>18, <1>19, <1>20, <1>21, <1>22, <1>23, <1>24, <1>25
       DEF Next, User, Starting, Wire, RoundStep, Exchange, KeypairStep, Ended

(* Every step saves one session, ends the process, or cannot be seen.        *)
LEMMA VisibleSteps ==
  TypeOK /\ SavedOnceInv /\ [Next]_vars => (\E t \in Token : SavesOne(t)) \/ Ends \/ Unseen
  <1>. SUFFICES ASSUME TypeOK, SavedOnceInv, [Next]_vars
                PROVE  (\E t \in Token : SavesOne(t)) \/ Ends \/ Unseen
    OBVIOUS
  <1>. USE DEF TypeOK, MainState, Unseen, ExitStatus, Ends, Alive
  <1>1. ASSUME NEW r \in Round, ClickOIDC(r)
       PROVE (\E t \in Token : SavesOne(t)) \/ Ends \/ Unseen
    BY <1>1 DEF ClickOIDC, At, Responsive
  <1>2. CASE NavigateToIdP
    BY <1>2 DEF NavigateToIdP, Responsive
  <1>3. CASE BackToLogin
    BY <1>3 DEF BackToLogin, Responsive
  <1>4. CASE ClickKeypair
    BY <1>4 DEF ClickKeypair, Responsive
  <1>5. CASE CloseWindow
    BY <1>5 DEF CloseWindow, Responsive
  <1>6. ASSUME NEW r \in Round, StartOK(r) \/ StartFail(r)
       PROVE (\E t \in Token : SavesOne(t)) \/ Ends \/ Unseen
    BY <1>6 DEF StartOK, StartFail, At
  <1>7. ASSUME NEW r \in Round, NEW k \in Kinds, CallbackArrives(r, k)
       PROVE (\E t \in Token : SavesOne(t)) \/ Ends \/ Unseen
    BY <1>7 DEF CallbackArrives, Listening, Responsive
  <1>8. ASSUME NEW r \in Round, NEW k \in Kinds, StrayRequest(r, k)
       PROVE (\E t \in Token : SavesOne(t)) \/ Ends \/ Unseen
    BY <1>8 DEF StrayRequest, Listening
  <1>9. ASSUME NEW r \in Round, Bind(r) \/ BindFail(r)
       PROVE (\E t \in Token : SavesOne(t)) \/ Ends \/ Unseen
    BY <1>9 DEF Bind, BindFail, At, Listening
  <1>10. ASSUME NEW r \in Round, AwaitReturns(r) \/ AwaitFails(r)
       PROVE (\E t \in Token : SavesOne(t)) \/ Ends \/ Unseen
    BY <1>10 DEF AwaitReturns, AwaitFails, At, Listening
  <1>11. ASSUME NEW r \in Round, Store(r)
       PROVE (\E t \in Token : SavesOne(t)) \/ Ends \/ Unseen
    <2>1. r \in Token /\ SavesOne(r)
      BY <1>11 DEF Store, SavesOne, SavedOnceInv, Token
    <2>. QED
      BY <2>1
  <1>12. ASSUME NEW r \in Round, StoreFail(r)
       PROVE (\E t \in Token : SavesOne(t)) \/ Ends \/ Unseen
    BY <1>12 DEF StoreFail, At
  <1>13. ASSUME NEW r \in Round, Publish(r)
       PROVE (\E t \in Token : SavesOne(t)) \/ Ends \/ Unseen
    BY <1>13 DEF Publish, At, SetResult
  <1>14. ASSUME NEW r \in Round, PublishError(r)
       PROVE (\E t \in Token : SavesOne(t)) \/ Ends \/ Unseen
    BY <1>14 DEF PublishError, At, SetResult
  <1>15. ASSUME NEW r \in Round, Finish(r) \/ FinishFail(r)
       PROVE (\E t \in Token : SavesOne(t)) \/ Ends \/ Unseen
    BY <1>15 DEF Finish, FinishFail, At
  <1>16. CASE KeypairMint \/ KeypairRefuse
    BY <1>16 DEF KeypairMint, KeypairRefuse
  <1>17. CASE KeypairStore
    <2>1. Keypair \in Token /\ SavesOne(Keypair)
      BY <1>17 DEF KeypairStore, SavesOne, SavedOnceInv, Token
    <2>. QED
      BY <2>1
  <1>18. CASE KeypairStoreFail
    BY <1>18 DEF KeypairStoreFail
  <1>19. CASE KeypairPublish
    BY <1>19 DEF KeypairPublish
  <1>20. CASE RunReturns
    BY <1>20 DEF RunReturns, Responsive
  <1>21. CASE Return
    BY <1>21 DEF Return
  <1>22. CASE Exit
    BY <1>22 DEF Exit
  <1>23. CASE Cancel
    BY <1>23 DEF Cancel
  <1>24. CASE CancelSeen
    BY <1>24 DEF CancelSeen, SetResult
  <1>25. CASE UNCHANGED vars
    BY <1>25 DEF vars
  <1>. QED
    BY <1>1, <1>2, <1>3, <1>4, <1>5, <1>6, <1>7, <1>8, <1>9, <1>10, <1>11, <1>12, <1>13, <1>14, <1>15, <1>16, <1>17, <1>18, <1>19, <1>20, <1>21, <1>22, <1>23, <1>24, <1>25
       DEF Next, User, Starting, Wire, RoundStep, Exchange, KeypairStep, Ended

(* Seen from the tray, the sign-in process does what the model of the tray   *)
(* lets its child do: what is proved of Tray holds with this process in the  *)
(* child's place.                                                            *)
THEOREM WindowIsTrayChild == Spec => ActsAsTrayChild
  <1>1. TypeOK /\ SavedOnceInv /\ [Next]_vars =>
          [\/ \E t \in Token : Seen!ChildSaves("self", t)
           \/ \E status \in {"ok", "failed"} : Seen!ChildEnds("self", status)]_(Seen!vars)
    <2>. SUFFICES ASSUME TypeOK, SavedOnceInv, [Next]_vars
                  PROVE  [\/ \E t \in Token : Seen!ChildSaves("self", t)
                          \/ \E status \in {"ok", "failed"} : Seen!ChildEnds("self", status)
                         ]_(Seen!vars)
      OBVIOUS
    <2>1. ASSUME NEW t \in Token, SavesOne(t) PROVE Seen!ChildSaves("self", t)
      BY <2>1, SentinelsDistinct
         DEF SavesOne, Save, Alive, ExitStatus, Token, Seen!ChildSaves, Seen!trayVars
    <2>2. CASE Ends
      <3>1. ExitStatus = "window" /\ ExitStatus' \in {"ok", "failed"}
        BY <2>2 DEF Ends, Alive, ExitStatus
      <3>2. Seen!ChildEnds("self", ExitStatus')
        BY <2>2, <3>1 DEF Ends, Seen!ChildEnds, Seen!trayVars, Seen!envVars
      <3>. QED
        BY <3>1, <3>2
    <2>3. CASE Unseen
      BY <2>3 DEF Unseen, Seen!vars
    <2>. QED
      BY <2>1, <2>2, <2>3, VisibleSteps
  <1>2. Init => SavedOnceInv
    BY DEF Init, SavedOnceInv
  <1>. QED
    BY <1>1, <1>2, TypeInit, TypeStep, SavedOnceStep, PTL DEF Spec, ActsAsTrayChild

---------------------------------------------------------------------------
(* What RoundEndsTheWindow and VerdictIsDelivered need of every state and    *)
(* step; that the steps are taken is checked by TLC.                         *)

(* A round that was handed to the browser does not come to its end in        *)
(* silence: the window has a verdict by then, its own or an earlier one.     *)
RoundLeavesVerdict ==
  \A r \in Round : round[r] = "done" /\ (current = r \/ got[r] # NoCallback) => result # "unset"

(* runLoginWebView returns the verdict there is, and the late setResult and  *)
(* w.Terminate of another flow replace nothing that was returned.            *)
VerdictNotDropped ==
  [][/\ result # "unset" /\ main # "returned" /\ main' = "returned" => outcome' = result
     /\ outcome # "unset" => outcome' = outcome]_vars

(* The outcome is the verdict, or else a crash that hit a window without one;*)
(* a round that was not handed out is known to nobody.                       *)
EndInv ==
  /\ main \notin {"returned", "exited"} => outcome = "unset"
  /\ outcome # "unset" => outcome = result \/ (outcome = "crash" /\ main = "exited")
  /\ \A r \in Round : round[r] \in {"unused", "starting"} => current # r /\ got[r] = NoCallback
  /\ RoundLeavesVerdict

(* A step that ends a round leaves a verdict, unless the round never began.  *)
LEMMA EndStep == TypeOK /\ EndInv /\ [Next]_vars => EndInv'
  <1>. SUFFICES ASSUME TypeOK, EndInv, [Next]_vars PROVE EndInv' OBVIOUS
  <1>. USE SentinelsDistinct DEF TypeOK, EndInv, RoundLeavesVerdict, Verdict, Token, MainState
  <1>1. ASSUME NEW r \in Round, ClickOIDC(r)
       PROVE EndInv'
    BY <1>1 DEF ClickOIDC, At, Responsive
  <1>2. CASE NavigateToIdP \/ BackToLogin
    BY <1>2 DEF NavigateToIdP, BackToLogin, Responsive
  <1>3. CASE ClickKeypair \/ CloseWindow
    BY <1>3 DEF ClickKeypair, CloseWindow, Responsive
  <1>4. ASSUME NEW r \in Round, StartOK(r)
       PROVE EndInv'
    BY <1>4 DEF StartOK, At
  <1>5. ASSUME NEW r \in Round, StartFail(r)
       PROVE EndInv'
    BY <1>5 DEF StartFail, At
  <1>6. ASSUME NEW r \in Round, NEW k \in Kinds, CallbackArrives(r, k)
       PROVE EndInv'
    BY <1>6 DEF CallbackArrives, Receive, Listening, Responsive
  <1>7. ASSUME NEW r \in Round, NEW k \in Kinds, StrayRequest(r, k)
       PROVE EndInv'
    BY <1>7 DEF StrayRequest, Receive, Listening
  <1>8. ASSUME NEW r \in Round, Bind(r) \/ BindFail(r)
       PROVE EndInv'
    BY <1>8 DEF Bind, BindFail, At
  <1>9. ASSUME NEW r \in Round, AwaitReturns(r) \/ AwaitFails(r)
       PROVE EndInv'
    BY <1>9 DEF AwaitReturns, AwaitFails, At, Listening
  <1>10. ASSUME NEW r \in Round, Store(r) \/ StoreFail(r)
       PROVE EndInv'
    BY <1>10 DEF Store, StoreFail, At
  <1>11. ASSUME NEW r \in Round, Publish(r)
       PROVE EndInv'
    BY <1>11 DEF Publish, Alive, At, SetResult, Offer
  <1>12. ASSUME NEW r \in Round, PublishError(r)
       PROVE EndInv'
    BY <1>12 DEF PublishError, Alive, At, SetResult, Offer
  <1>13. ASSUME NEW r \in Round, Finish(r) \/ FinishFail(r)
       PROVE EndInv'
    BY <1>13 DEF Finish, FinishFail, At
  <1>14. CASE KeypairStep
    BY <1>14 DEF KeypairStep, KeypairMint, KeypairRefuse, KeypairStore, KeypairStoreFail,
           KeypairPublish, Offer
  <1>15. CASE RunReturns \/ Exit
    BY <1>15 DEF RunReturns, Exit, Responsive
  <1>16. CASE Return
    BY <1>16 DEF Return
  <1>17. CASE Cancel
    BY <1>17 DEF Cancel
  <1>18. CASE CancelSeen
    BY <1>18 DEF CancelSeen, Alive, SetResult, Offer
  <1>19. CASE UNCHANGED vars
    BY <1>19 DEF vars
  <1>. QED
    BY <1>1, <1>2, <1>3, <1>4, <1>5, <1>6, <1>7, <1>8, <1>9, <1>10, <1>11, <1>12, <1>13, <1>14, <1>15, <1>16, <1>17, <1>18, <1>19
       DEF Next, User, Starting, Wire, RoundStep, Exchange, Ended

(* The ends of the rounds and of the process are as EndInv says.             *)
LEMMA EndInvariant == Spec => [](TypeOK /\ EndInv)
  <1>1. Init => EndInv
    BY SentinelsDistinct DEF Init, EndInv, RoundLeavesVerdict
  <1>. QED
    BY <1>1, TypeInit, TypeStep, EndStep, PTL DEF Spec

(* A round that has ended has left a verdict, so the run loop will end.      *)
THEOREM RoundHasVerdict == Spec => []RoundLeavesVerdict
  <1>1. EndInv => RoundLeavesVerdict
    BY DEF EndInv
  <1>. QED
    BY <1>1, EndInvariant, PTL

(* The verdict is what is returned, and what is returned stands.             *)
THEOREM VerdictIsReturned == Spec => VerdictNotDropped
  <1>1. TypeOK /\ EndInv /\ [Next]_vars =>
          [/\ result # "unset" /\ main # "returned" /\ main' = "returned" => outcome' = result
           /\ outcome # "unset" => outcome' = outcome]_vars
    <2>. SUFFICES ASSUME TypeOK, EndInv, [Next]_vars
                  PROVE /\ main # "returned" /\ main' = "returned" => outcome' = result
                        /\ outcome # "unset" => outcome' = outcome
      OBVIOUS
    <2>1. CASE Return
      BY <2>1 DEF Return, EndInv
    <2>2. ASSUME NEW v, SetResult(v)
          PROVE  /\ main # "returned" /\ main' = "returned" => outcome' = result
                 /\ outcome # "unset" => outcome' = outcome
      BY <2>2 DEF SetResult, EndInv
    <2>3. CASE Exit
      BY <2>3 DEF Exit
    <2>4. CASE UNCHANGED <<main, outcome>>
      BY <2>4
    <2>5. CASE main' # "returned" /\ UNCHANGED outcome
      BY <2>5
    <2>. QED
      BY <2>1, <2>2, <2>3, <2>4, <2>5
         DEF Next, User, Starting, Wire, RoundStep, Exchange, KeypairStep, Ended,
             ClickOIDC, NavigateToIdP, BackToLogin, ClickKeypair, CloseWindow,
             StartOK, StartFail, CallbackArrives, StrayRequest, Bind, BindFail,
             AwaitReturns, AwaitFails, Store, StoreFail, Publish, PublishError,
             Finish, FinishFail, KeypairMint, KeypairRefuse, KeypairStore,
             KeypairStoreFail, KeypairPublish, RunReturns, Cancel, CancelSeen, vars
  <1>. QED
    BY <1>1, EndInvariant, PTL DEF Spec, VerdictNotDropped
=============================================================================
