-------------------------------- MODULE Tray --------------------------------
(***************************************************************************)
(* The menu-bar process (main and runTray in main.go and tray.go), its     *)
(* session, the sign-in processes it spawns and waits for, and the         *)
(* dashboards it hands the session to.                                     *)
(*                                                                         *)
(* The event loop of onReady is one thread: while it waits for a sign-in   *)
(* process it serves no click and no signal.  Its children are separate    *)
(* processes that nothing ties to it: they outlive a tray that dies.       *)
(* Of a sign-in process only its visible steps are used: it may save       *)
(* sessions while its window is open and then ends, with exit status 0 or  *)
(* not, whatever it saved.  LoginWindow takes no others (ActsAsTrayChild). *)
(***************************************************************************)
EXTENDS Naturals, FiniteSets

CONSTANTS Token,          \* bearer tokens, one per session that is ever minted
          Child,          \* sign-in processes
          TrayAccount,    \* the vault entry named by the tray's own --config
          ChildAccount,   \* the one named by the default config its children read
          NoToken, NoChild

Account == {TrayAccount, ChildAccount}
Session == Token \union {NoToken}

ASSUME NoTokenOutside == NoToken \notin Token
ASSUME NoChildOutside == NoChild \notin Child

VARIABLES
  vault,      \* the session saved under each account
  vaultUp,    \* is the host vault reachable
  minted,     \* the sessions issued so far
  expired,    \* those whose ExpiresAt is near or past
  pc,         \* "down", "setup", "loop", "signin" (inside cmd.Run), "error" (onSetupError)
  enabled,    \* authCfg.Enabled() of the running tray
  authToken,  \* the loop-local copy of the session
  menu,       \* which of the three items can be clicked
  ctxDone,    \* SIGINT or SIGTERM was received by the running tray
  waiting,    \* the child that cmd.Run waits for
  child,      \* "free", "starting", "window", "ok" (exit 0) or "failed"
  saved,      \* the last session that a sign-in process has written
  dashboards, \* the sessions that open dashboard windows carry
  forgotten   \* every session that a sign-out has deleted

vars == <<vault, vaultUp, minted, expired, pc, enabled, authToken, menu, ctxDone,
          waiting, child, saved, dashboards, forgotten>>
envVars == <<vault, vaultUp, minted, expired>>
trayVars == <<pc, enabled, authToken, menu, ctxDone, waiting>>
childVars == <<child, saved>>

Item == {"open", "signin", "signout"}

TypeOK ==
  /\ vault \in [Account -> Session]
  /\ vaultUp \in BOOLEAN
  /\ minted \subseteq Token
  /\ expired \subseteq minted
  /\ pc \in {"down", "setup", "loop", "signin", "error"}
  /\ enabled \in BOOLEAN
  /\ authToken \in Session
  /\ menu \subseteq Item
  /\ ctxDone \in BOOLEAN
  /\ waiting \in Child \union {NoChild}
  /\ child \in [Child -> {"free", "starting", "window", "ok", "failed"}]
  /\ saved \in [Child -> Session]
  /\ dashboards \subseteq Session
  /\ forgotten \subseteq Token

Init ==
  /\ vault = [a \in Account |-> NoToken]
  /\ vaultUp = TRUE
  /\ minted = {} /\ expired = {}
  /\ pc = "down" /\ enabled = FALSE /\ authToken = NoToken /\ menu = {}
  /\ ctxDone = FALSE /\ waiting = NoChild
  /\ child = [c \in Child |-> "free"]
  /\ saved = [c \in Child |-> NoToken]
  /\ dashboards = {} /\ forgotten = {}

---------------------------------------------------------------------------
(* Get, then the three tests every reader of the vault makes: an entry, not   *)
(* Expired(), with a Bearer().  An unreachable vault reads as no entry.       *)
Usable(a) == vaultUp /\ vault[a] # NoToken /\ vault[a] \notin expired

(* Mutant of Cached: a miss hands on the account name for a bearer token.      *)
CachedOrAccount(a) == IF Usable(a) THEN vault[a] ELSE a

Cached(a) == IF Usable(a) THEN vault[a] ELSE NoToken

(* Mutant of MenuFor: Sign in is not hidden when there is a session.          *)
MenuSignInAlways(auth, t) == IF ~auth THEN {"open"}
                             ELSE IF t = NoToken THEN {"signin"} ELSE Item

(* The items of a menu built for session t: no item of the sign-in pair       *)
(* exists without auth, and the dashboard is gated only with it.              *)
MenuFor(auth, t) == IF ~auth THEN {"open"}
                    ELSE IF t = NoToken THEN {"signin"} ELSE {"open", "signout"}

(* main: the config and the cached session, read once, before anything is set *)
(* up; what becomes of the vault meanwhile is not seen.                       *)
Start(auth) ==
  /\ pc = "down"
  /\ enabled' = auth
  /\ authToken' = IF auth THEN Cached(TrayAccount) ELSE NoToken
  /\ pc' = "setup"
  /\ UNCHANGED <<envVars, menu, ctxDone, waiting, childVars, dashboards, forgotten>>

(* setupShell succeeds (TrayStartup has its steps) and onReady builds the menu.*)
Ready ==
  /\ pc = "setup"
  /\ menu' = MenuFor(enabled, authToken)
  /\ pc' = "loop"
  /\ UNCHANGED <<envVars, enabled, authToken, ctxDone, waiting, childVars, dashboards, forgotten>>

(* setupShell fails: a menu with the error and Quit only.                     *)
SetupFails ==
  /\ pc = "setup"
  /\ pc' = "error"
  /\ UNCHANGED <<envVars, enabled, authToken, menu, ctxDone, waiting, childVars, dashboards,
                 forgotten>>

(* The process is gone, and with it everything it held in memory.             *)
Gone == /\ pc' = "down"
        /\ enabled' = FALSE /\ authToken' = NoToken /\ menu' = {}
        /\ ctxDone' = FALSE /\ waiting' = NoChild
        /\ UNCHANGED <<envVars, childVars, dashboards, forgotten>>

Quit == pc \in {"loop", "error"} /\ Gone

(* Mutant of Shutdown: the error menu waits for Quit alone.                    *)
ShutdownOfLoop == pc = "loop" /\ ctxDone /\ Gone

(* The ctx.Done() branch of the selects.                                      *)
Shutdown == pc \in {"loop", "error"} /\ ctxDone /\ Gone

(* A panic, a kill or a logout: a sign-in process may be left running.        *)
Crash == pc # "down" /\ Gone

Signal == /\ pc # "down" /\ ~ctxDone
          /\ ctxDone' = TRUE
          /\ UNCHANGED <<envVars, pc, enabled, authToken, menu, waiting, childVars,
                         dashboards, forgotten>>

(* openDashboard: the session at the time of the click goes to the new        *)
(* process, which keeps it whatever happens to the tray's copy.               *)
OpenDashboard ==
  /\ pc = "loop" /\ "open" \in menu
  /\ dashboards' = dashboards \union {authToken}
  /\ UNCHANGED <<envVars, trayVars, childVars, forgotten>>

CloseDashboard(t) ==
  /\ t \in dashboards
  /\ dashboards' = dashboards \ {t}
  /\ UNCHANGED <<envVars, trayVars, childVars, forgotten>>

(* spawnSignInAndReload starts `--sign-in` and waits in cmd.Run.              *)
ClickSignIn(c) ==
  /\ pc = "loop" /\ "signin" \in menu /\ child[c] = "free"
  /\ pc' = "signin" /\ waiting' = c
  /\ child' = [child EXCEPT ![c] = "starting"]
  /\ saved' = [saved EXCEPT ![c] = NoToken]
  /\ UNCHANGED <<envVars, enabled, authToken, menu, ctxDone, dashboards, forgotten>>

(* mSignIn.Hide, mSignOut.Show, mOpen.Enable                                  *)
SignedInMenu == (menu \ {"signin"}) \union {"open", "signout"}
(* mSignOut.Hide, mSignIn.Show, mOpen.Disable                                 *)
SignedOutMenu == (menu \ {"open", "signout"}) \union {"signin"}

(* Mutant of SignedIn: the token read back is not tested.                      *)
SignedInUntested ==
  /\ pc = "signin" /\ child[waiting] = "ok"
  /\ authToken' = Cached(TrayAccount)
  /\ menu' = SignedInMenu
  /\ pc' = "loop" /\ waiting' = NoChild
  /\ child' = [child EXCEPT ![waiting] = "free"]
  /\ UNCHANGED <<envVars, enabled, ctxDone, saved, dashboards, forgotten>>

(* Mutant of SignedIn: the menu is switched but the vault is not read back.    *)
SignedInNoReload ==
  /\ pc = "signin" /\ child[waiting] = "ok" /\ Usable(TrayAccount)
  /\ menu' = SignedInMenu
  /\ pc' = "loop" /\ waiting' = NoChild
  /\ child' = [child EXCEPT ![waiting] = "free"]
  /\ UNCHANGED <<envVars, enabled, authToken, ctxDone, saved, dashboards, forgotten>>

(* Exit status 0 and a usable session: it becomes the tray's.                 *)
SignedIn ==
  /\ pc = "signin" /\ child[waiting] = "ok" /\ Usable(TrayAccount)
  /\ authToken' = vault[TrayAccount]
  /\ menu' = SignedInMenu
  /\ pc' = "loop" /\ waiting' = NoChild
  /\ child' = [child EXCEPT ![waiting] = "free"]
  /\ UNCHANGED <<envVars, enabled, ctxDone, saved, dashboards, forgotten>>

(* Another exit status, or no usable session: nothing changes in the menu.    *)
NotSignedIn ==
  /\ pc = "signin"
  /\ \/ child[waiting] = "failed"
     \/ child[waiting] = "ok" /\ ~Usable(TrayAccount)
  /\ pc' = "loop" /\ waiting' = NoChild
  /\ child' = [child EXCEPT ![waiting] = "free"]
  /\ UNCHANGED <<envVars, enabled, authToken, menu, ctxDone, saved, dashboards, forgotten>>

(* What Delete does; its failure is logged only.                              *)
Forget(t) == IF vaultUp THEN /\ vault' = [vault EXCEPT ![TrayAccount] = NoToken]
                             /\ forgotten' = forgotten \union {t}
                        ELSE UNCHANGED <<vault, forgotten>>

(* Mutant of SignOut: only the tray's own copy is forgotten.                   *)
SignOutInMemory ==
  /\ pc = "loop" /\ "signout" \in menu
  /\ forgotten' = forgotten \union {authToken}
  /\ authToken' = NoToken /\ menu' = SignedOutMenu
  /\ UNCHANGED <<envVars, pc, enabled, ctxDone, waiting, childVars, dashboards>>

(* Mutant of SignOut: without mOpen.Disable.                                   *)
SignOutOpenStays ==
  /\ pc = "loop" /\ "signout" \in menu
  /\ Forget(authToken)
  /\ authToken' = NoToken /\ menu' = (menu \ {"signout"}) \union {"signin"}
  /\ UNCHANGED <<vaultUp, minted, expired, pc, enabled, ctxDone, waiting, childVars, dashboards>>

(* Sign out: the tray forgets its own copy whether Delete succeeds or not.    *)
SignOut ==
  /\ pc = "loop" /\ "signout" \in menu
  /\ Forget(authToken)
  /\ authToken' = NoToken /\ menu' = SignedOutMenu
  /\ UNCHANGED <<vaultUp, minted, expired, pc, enabled, ctxDone, waiting, childVars, dashboards>>

---------------------------------------------------------------------------
(* The sign-in process (runSignIn, Authenticate). *)

(* The cached session is good: Authenticate returns it without a window.      *)
ChildCached(c) ==
  /\ child[c] = "starting" /\ Usable(ChildAccount)
  /\ child' = [child EXCEPT ![c] = "ok"]
  /\ UNCHANGED <<envVars, trayVars, saved, dashboards, forgotten>>

ChildWindow(c) ==
  /\ child[c] = "starting" /\ ~Usable(ChildAccount)
  /\ child' = [child EXCEPT ![c] = "window"]
  /\ UNCHANGED <<envVars, trayVars, saved, dashboards, forgotten>>

(* A flow of the window obtains a session and saves it.                       *)
ChildSaves(c, t) ==
  /\ child[c] = "window" /\ vaultUp /\ t \in Token \ minted
  /\ minted' = minted \union {t}
  /\ vault' = [vault EXCEPT ![ChildAccount] = t]
  /\ saved' = [saved EXCEPT ![c] = t]
  /\ UNCHANGED <<vaultUp, expired, trayVars, child, dashboards, forgotten>>

(* Closed, signed in, or an error; log.Fatalf on an unreadable config.        *)
ChildEnds(c, status) ==
  /\ \/ child[c] = "window"
     \/ child[c] = "starting" /\ status = "failed"
  /\ child' = [child EXCEPT ![c] = status]
  /\ UNCHANGED <<envVars, trayVars, saved, dashboards, forgotten>>

(* The exit status of an orphan is read by nobody.                            *)
OrphanReaped(c) ==
  /\ child[c] \in {"ok", "failed"} /\ waiting # c
  /\ child' = [child EXCEPT ![c] = "free"]
  /\ UNCHANGED <<envVars, trayVars, saved, dashboards, forgotten>>

---------------------------------------------------------------------------
(* Time and the host. *)

Expire(t) ==
  /\ t \in minted \ expired
  /\ expired' = expired \union {t}
  /\ UNCHANGED <<vault, vaultUp, minted, trayVars, childVars, dashboards, forgotten>>

VaultToggles ==
  /\ vaultUp' = ~vaultUp
  /\ UNCHANGED <<vault, minted, expired, trayVars, childVars, dashboards, forgotten>>

---------------------------------------------------------------------------
Click == OpenDashboard \/ SignOut \/ Quit \/ \E c \in Child : ClickSignIn(c)

ChildStep(c) == \/ ChildCached(c) \/ ChildWindow(c)
                \/ \E status \in {"ok", "failed"} : ChildEnds(c, status)
                \/ OrphanReaped(c)

Next ==
  \/ \E auth \in BOOLEAN : Start(auth)
  \/ Ready \/ SetupFails
  \/ Click
  \/ Shutdown \/ Crash \/ Signal
  \/ SignedIn \/ NotSignedIn
  \/ \E c \in Child : ChildStep(c) \/ \E t \in Token : ChildSaves(c, t)
  \/ \E t \in Session : CloseDashboard(t)
  \/ \E t \in Token : Expire(t)
  \/ VaultToggles

Spec == Init /\ [][Next]_vars

(* Go's select chooses at random among its ready branches, so a ready          *)
(* ctx.Done() is served in spite of a stream of clicks: SF(Shutdown).  Setup   *)
(* ends, and the loop resumes when its child does.  That the user deals with   *)
(* an open sign-in window (closes it or signs in) is an assumption.            *)
Fairness == /\ WF_vars(Ready \/ SetupFails)
            /\ SF_vars(Shutdown)
            /\ WF_vars(SignedIn \/ NotSignedIn)
UserEndsSignIn == \A c \in Child : WF_vars(ChildStep(c))
LiveSpec == Spec /\ Fairness /\ UserEndsSignIn

---------------------------------------------------------------------------
(* Properties. *)

(* The three gates agree with the session in memory, across sign-in, sign-out,*)
(* failures of both and restarts: with auth configured a dashboard can be     *)
(* opened, and a sign-out made, exactly with a session, and a sign-in exactly *)
(* without one.                                                               *)
MenuMirrorsSession ==
  pc \in {"loop", "signin"} /\ enabled =>
    /\ "open" \in menu <=> authToken # NoToken
    /\ "signout" \in menu <=> authToken # NoToken
    /\ "signin" \in menu <=> authToken = NoToken

(* Sign out, "Forget the cached session": once its Delete went through, the   *)
(* session is not picked up again, by this tray, a later one or a sign-in,    *)
(* whichever orphans of earlier trays are still saving sessions.              *)
SignedOutStaysForgotten == authToken \notin forgotten

(* Every window that a tray with auth opens carries a session, and never one  *)
(* that was signed out of before: the gate on Open Dashboard.                 *)
DashboardsCarryLiveSignIn ==
  [][enabled => dashboards' \ dashboards \subseteq Token \ forgotten]_vars

(* The user's identity never changes under them: a tray that holds a session  *)
(* keeps this one until it has none.                                          *)
NoSessionSwap ==
  [][authToken # NoToken => authToken' \in {authToken, NoToken}]_vars

(* On success the new token is in Keychain and the tray reads it back: after  *)
(* a sign-in that saved a live session and exited 0, the tray is signed in.   *)
SignInTakesEffect ==
  [][pc = "signin" /\ pc' = "loop" /\ child[waiting] = "ok" /\ vaultUp
       /\ saved[waiting] \in Token \ expired /\ vault[ChildAccount] = saved[waiting]
     => authToken' = saved[waiting]]_vars

(* A signal ends the tray, whatever is clicked and whichever sign-in is open, *)
(* provided the sign-in windows end.                                          *)
SignalEndsTray == ctxDone ~> pc = "down"
=============================================================================
