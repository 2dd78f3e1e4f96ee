---------------------------- MODULE TrayProofs ----------------------------
(***************************************************************************)
(* What TLAPS proves of Tray, for any sets of sessions and processes.      *)
(***************************************************************************)
EXTENDS Tray, TLAPS

(* What the event loop knows between two clicks: MenuMirrorsSession, kept by *)
(* a menu that offers a sign-in only without a session and a sign-out only   *)
(* with one, whoever built it, by a loop that waits without a session, and by*)
(* a process that has no menu before it is set up.                           *)
MenuInv ==
  /\ MenuMirrorsSession
  /\ "signin" \in menu => authToken = NoToken
  /\ "signout" \in menu => authToken # NoToken
  /\ pc \in {"down", "signin"} => authToken = NoToken
  /\ pc \in {"down", "setup"} => menu = {}

(* Where the sessions are: each in one account, the tray's own copy in no    *)
(* other account than the tray's, the deleted ones nowhere; new ones are     *)
(* minted fresh.                                                             *)
ForgottenInv ==
  /\ forgotten \subseteq minted
  /\ authToken \in minted \union {NoToken}
  /\ \A a \in Account : vault[a] \in minted \union {NoToken}
  /\ \A a \in Account : vault[a] \notin forgotten
  /\ \A a, b \in Account : vault[a] = vault[b] => a = b \/ vault[a] = NoToken
  /\ \A a \in Account : vault[a] = authToken => a = TrayAccount \/ vault[a] = NoToken
  /\ SignedOutStaysForgotten

(* Every variable keeps its type in a step of the tray, of a child or of the *)
(* host, given that a session is signed out of only while there is one.      *)
LEMMA TypeStep == TypeOK /\ MenuInv /\ [Next]_vars => TypeOK'
  <1>. SUFFICES ASSUME TypeOK, MenuInv, [Next]_vars PROVE TypeOK' OBVIOUS
  <1>. USE NoTokenOutside, NoChildOutside
       DEF TypeOK, MenuInv, Session, Account, Item, envVars, trayVars, childVars
  <1>1. ASSUME NEW auth \in BOOLEAN, Start(auth)
       PROVE TypeOK'
    BY <1>1 DEF Start, Cached, Usable
  <1>2. CASE Ready \/ SetupFails
    BY <1>2 DEF Ready, SetupFails, MenuFor
  <1>3. CASE OpenDashboard
    BY <1>3 DEF OpenDashboard
  <1>4. CASE SignOut
    BY <1>4 DEF SignOut, Forget, SignedOutMenu
  <1>5. CASE Quit \/ Shutdown \/ Crash
    BY <1>5 DEF Quit, Shutdown, Crash, Gone
  <1>6. ASSUME NEW c \in Child, ClickSignIn(c)
       PROVE TypeOK'
    BY <1>6 DEF ClickSignIn
  <1>7. CASE Signal
    BY <1>7 DEF Signal
  <1>8. CASE SignedIn
    BY <1>8 DEF SignedIn, SignedInMenu, Usable
  <1>9. CASE NotSignedIn
    BY <1>9 DEF NotSignedIn
  <1>10. ASSUME NEW c \in Child, ChildStep(c)
       PROVE TypeOK'
    BY <1>10 DEF ChildStep, ChildCached, ChildWindow, ChildEnds, OrphanReaped
  <1>11. ASSUME NEW c \in Child, NEW t \in Token, ChildSaves(c, t)
       PROVE TypeOK'
    BY <1>11 DEF ChildSaves
  <1>12. ASSUME NEW t \in Session, CloseDashboard(t)
       PROVE TypeOK'
    BY <1>12 DEF CloseDashboard
  <1>13. ASSUME NEW t \in Token, Expire(t)
       PROVE TypeOK'
    BY <1>13 DEF Expire
  <1>14. CASE VaultToggles
    BY <1>14 DEF VaultToggles
  <1>15. CASE UNCHANGED vars
    BY <1>15 DEF vars
  <1>. QED
    BY <1>1, <1>2, <1>3, <1>4, <1>5, <1>6, <1>7, <1>8, <1>9, <1>10, <1>11, <1>12, <1>13, <1>14, <1>15
       DEF Next, Click

(* Every step that changes the session changes the menu with it.             *)
LEMMA MenuStep == TypeOK /\ MenuInv /\ [Next]_vars => MenuInv'
  <1>. SUFFICES ASSUME TypeOK, MenuInv, [Next]_vars PROVE MenuInv' OBVIOUS
  <1>. USE NoTokenOutside
       DEF TypeOK, MenuInv, MenuMirrorsSession, Session, Account, Item, envVars, trayVars, childVars
  <1>1. ASSUME NEW auth \in BOOLEAN, Start(auth)
       PROVE MenuInv'
    BY <1>1 DEF Start, Cached, Usable
  <1>2. CASE Ready \/ SetupFails
    BY <1>2 DEF Ready, SetupFails, MenuFor
  <1>3. CASE OpenDashboard
    BY <1>3 DEF OpenDashboard
  <1>4. CASE SignOut
    BY <1>4 DEF SignOut, Forget, SignedOutMenu
  <1>5. CASE Quit \/ Shutdown \/ Crash
    BY <1>5 DEF Quit, Shutdown, Crash, Gone
  <1>6. ASSUME NEW c \in Child, ClickSignIn(c)
       PROVE MenuInv'
    BY <1>6 DEF ClickSignIn
  <1>7. CASE Signal
    BY <1>7 DEF Signal
  <1>8. CASE SignedIn
    BY <1>8 DEF SignedIn, SignedInMenu, Usable
  <1>9. CASE NotSignedIn
    BY <1>9 DEF NotSignedIn
  <1>10. ASSUME NEW c \in Child, ChildStep(c)
       PROVE MenuInv'
    <2>1. UNCHANGED <<pc, enabled, authToken, menu>>
      BY <1>10 DEF ChildStep, ChildCached, ChildWindow, ChildEnds, OrphanReaped
    <2>. QED
      BY <2>1
  <1>11. ASSUME NEW c \in Child, NEW t \in Token, ChildSaves(c, t)
       PROVE MenuInv'
    BY <1>11 DEF ChildSaves
  <1>12. ASSUME NEW t \in Session, CloseDashboard(t)
       PROVE MenuInv'
    BY <1>12 DEF CloseDashboard
  <1>13. ASSUME NEW t \in Token, Expire(t)
       PROVE MenuInv'
    BY <1>13 DEF Expire
  <1>14. CASE VaultToggles
    BY <1>14 DEF VaultToggles
  <1>15. CASE UNCHANGED vars
    BY <1>15 DEF vars
  <1>. QED
    BY <1>1, <1>2, <1>3, <1>4, <1>5, <1>6, <1>7, <1>8, <1>9, <1>10, <1>11, <1>12, <1>13, <1>14, <1>15
       DEF Next, Click

(* Type correctness and the menu's invariant hold together.                  *)
LEMMA MenuInvariant == Spec => [](TypeOK /\ MenuInv)
  <1>1. Init => TypeOK /\ MenuInv
    BY NoTokenOutside
       DEF Init, TypeOK, MenuInv, MenuMirrorsSession, Session, Account, Item
  <1>2. (TypeOK /\ MenuInv) /\ [Next]_vars => (TypeOK /\ MenuInv)'
    BY TypeStep, MenuStep
  <1>. QED
    BY <1>1, <1>2, PTL DEF Spec

(* Every variable of the tray, its children and the vault keeps its type.    *)
THEOREM TypeCorrect == Spec => []TypeOK
  BY MenuInvariant, PTL

(* The gates of the menu agree with the session, over any number of          *)
(* sign-ins, sign-outs, failures, crashes and restarts.                      *)
THEOREM MenuMirrors == Spec => []MenuMirrorsSession
  <1>1. MenuInv => MenuMirrorsSession
    BY DEF MenuInv
  <1>. QED
    BY <1>1, MenuInvariant, PTL

(* The session in memory is replaced only after it was given up.             *)
THEOREM NoSwap == Spec => NoSessionSwap
  <1>1. TypeOK /\ MenuInv /\ [Next]_vars
          => [authToken # NoToken => authToken' \in {authToken, NoToken}]_vars
    BY DEF MenuInv, Next, Click, Start, Ready, SetupFails, OpenDashboard, SignOut, Forget, Quit, Shutdown,
           Crash, Gone, ClickSignIn, Signal, SignedIn, NotSignedIn, ChildStep, ChildCached,
           ChildWindow, ChildEnds, OrphanReaped, ChildSaves, CloseDashboard, Expire,
           VaultToggles, vars, envVars, trayVars, childVars
  <1>. QED
    BY <1>1, MenuInvariant, PTL DEF Spec, NoSessionSwap

(* A sign-in that saved a live session under the tray's own account and      *)
(* exited 0 signs the tray in: the reload after cmd.Run finds it.            *)
THEOREM SignInReloaded == TrayAccount = ChildAccount => (Spec => SignInTakesEffect)
  <1>. SUFFICES ASSUME TrayAccount = ChildAccount PROVE Spec => SignInTakesEffect OBVIOUS
  <1>1. [Next]_vars =>
          [pc = "signin" /\ pc' = "loop" /\ child[waiting] = "ok" /\ vaultUp
             /\ saved[waiting] \in Token \ expired /\ vault[ChildAccount] = saved[waiting]
           => authToken' = saved[waiting]]_vars
    BY NoTokenOutside
       DEF Next, Click, Start, Ready, SetupFails, OpenDashboard, SignOut, Forget, Quit, Shutdown,
           Crash, Gone, ClickSignIn, Signal, SignedIn, NotSignedIn, ChildStep, ChildCached,
           ChildWindow, ChildEnds, OrphanReaped, ChildSaves, CloseDashboard, Expire,
           VaultToggles, Usable, vars, envVars, trayVars, childVars
  <1>. QED
    BY <1>1, PTL DEF Spec, SignInTakesEffect

(* A session that a sign-out deleted stays out of the tray and of the vault. *)
LEMMA ForgottenStep ==
  ASSUME TypeOK, MenuInv, ForgottenInv, [Next]_vars
  PROVE  ForgottenInv'
  <1>. USE NoTokenOutside
       DEF TypeOK, MenuInv, ForgottenInv, SignedOutStaysForgotten, Session, Account,
           envVars, trayVars, childVars
  <1>1. ASSUME NEW auth \in BOOLEAN, Start(auth)
       PROVE ForgottenInv'
    BY <1>1 DEF Start, Cached, Usable
  <1>2. CASE Ready \/ SetupFails
    BY <1>2 DEF Ready, SetupFails, MenuFor
  <1>3. CASE OpenDashboard
    BY <1>3 DEF OpenDashboard
  <1>4. CASE SignOut
    BY <1>4 DEF SignOut, Forget, SignedOutMenu
  <1>5. CASE Quit \/ Shutdown \/ Crash
    BY <1>5 DEF Quit, Shutdown, Crash, Gone
  <1>6. ASSUME NEW c \in Child, ClickSignIn(c)
       PROVE ForgottenInv'
    BY <1>6 DEF ClickSignIn
  <1>7. CASE Signal
    BY <1>7 DEF Signal
  <1>8. CASE SignedIn
    BY <1>8 DEF SignedIn, SignedInMenu, Usable
  <1>9. CASE NotSignedIn
    BY <1>9 DEF NotSignedIn
  <1>10. ASSUME NEW c \in Child, ChildStep(c)
       PROVE ForgottenInv'
    BY <1>10 DEF ChildStep, ChildCached, ChildWindow, ChildEnds, OrphanReaped
  <1>11. ASSUME NEW c \in Child, NEW t \in Token, ChildSaves(c, t)
       PROVE ForgottenInv'
    BY <1>11 DEF ChildSaves
  <1>12. ASSUME NEW t \in Session, CloseDashboard(t)
       PROVE ForgottenInv'
    BY <1>12 DEF CloseDashboard
  <1>13. ASSUME NEW t \in Token, Expire(t)
       PROVE ForgottenInv'
    BY <1>13 DEF Expire
  <1>14. CASE VaultToggles
    BY <1>14 DEF VaultToggles
  <1>15. CASE UNCHANGED vars
    BY <1>15 DEF vars
  <1>. QED
    BY <1>1, <1>2, <1>3, <1>4, <1>5, <1>6, <1>7, <1>8, <1>9, <1>10, <1>11, <1>12, <1>13, <1>14, <1>15
       DEF Next, Click

(* A sign-out whose Delete went through is final: no tray ever again holds   *)
(* the session.                                                              *)
THEOREM SignOutForgets == Spec => []SignedOutStaysForgotten
  <1>1. Init => ForgottenInv
    BY NoTokenOutside DEF Init, ForgottenInv, SignedOutStaysForgotten
  <1>2. TypeOK /\ MenuInv /\ ForgottenInv /\ [Next]_vars => ForgottenInv'
    BY ForgottenStep
  <1>3. ForgottenInv => SignedOutStaysForgotten
    BY DEF ForgottenInv
  <1>. QED
    BY <1>1, <1>2, <1>3, MenuInvariant, PTL DEF Spec

(* Open Dashboard never hands on an empty session, nor a deleted one.        *)
THEOREM DashboardGate == Spec => DashboardsCarryLiveSignIn
  <1>1. TypeOK /\ MenuInv /\ SignedOutStaysForgotten /\ [Next]_vars
          => [enabled => dashboards' \ dashboards \subseteq Token \ forgotten]_vars
    BY NoTokenOutside
       DEF TypeOK, Session, MenuInv, MenuMirrorsSession, SignedOutStaysForgotten,
           Next, Click, Start, Ready, SetupFails, OpenDashboard, SignOut, Forget, Quit, Shutdown,
           Crash, Gone, ClickSignIn, Signal, SignedIn, NotSignedIn, ChildStep, ChildCached,
           ChildWindow, ChildEnds, OrphanReaped, ChildSaves, CloseDashboard, Expire,
           VaultToggles, vars, envVars, trayVars, childVars
  <1>. QED
    BY <1>1, MenuInvariant, SignOutForgets, PTL DEF Spec, DashboardsCarryLiveSignIn
=============================================================================
