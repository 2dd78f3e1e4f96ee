---------------------------- MODULE TrayStartup ----------------------------
(***************************************************************************)
(* How the tray is set up and ends (runTray and setupShell in tray.go,     *)
(* MeshDialer in wgmesh.go): what is acquired in which order, what each    *)
(* failure releases and what runs on behind the error tray.                *)
(*                                                                         *)
(* The setup is one thread.  The tunnel's closer, the gateway and the      *)
(* control server are goroutines bound to the context, which a signal or   *)
(* the end of systray.Run finishes; the process may exit before they see   *)
(* it.  Of the tray between setup and exit see Tray, which this module     *)
(* implements.                                                             *)
(***************************************************************************)
EXTENDS WireGuardUAPI

CONSTANTS WGConfigs,  \* what the files given with --wg-config may hold
          NoWG        \* no such file given

ASSUME NoWGOutside == NoWG \notin WGConfigs
ASSUME WGConfigsType == \A c \in WGConfigs : IsConfig(c)

VARIABLES
  at,       \* the main thread, by the step it is about to make
  wg,       \* the WireGuard config
  dev,      \* its device: "none", "open", "up", "closed"
  closer,   \* a goroutine waits for the context to close the device
  gateway,  \* sh.Run: "off", "running", "stopped"
  control,  \* the control server listens
  error,    \* the step that failed
  ctxDone

vars == <<at, wg, dev, closer, gateway, control, error, ctxDone>>
goroutines == <<closer, gateway, control>>

MeshStep == {"wgconfig", "addrs", "render", "apply", "up"}
Step == {"config", "shell", "listen"} \union MeshStep

TypeOK ==
  /\ at \in Step \union {"down", "closer", "gateway", "tray", "error", "exiting"}
  /\ wg \in WGConfigs \union {NoWG}
  /\ dev \in {"none", "open", "up", "closed"}
  /\ closer \in BOOLEAN
  /\ gateway \in {"off", "running", "stopped"}
  /\ control \in BOOLEAN
  /\ error \in Step \union {"none"}
  /\ at = "error" => error # "none"
  /\ ctxDone \in BOOLEAN

Init == /\ at = "down" /\ wg = NoWG /\ dev = "none"
        /\ closer = FALSE /\ gateway = "off" /\ control = FALSE
        /\ error = "none" /\ ctxDone = FALSE

---------------------------------------------------------------------------
(* setupShell and MeshDialer.  Nothing in them looks at the context.         *)

Start == /\ at = "down" /\ at' = "config"
         /\ wg' \in WGConfigs \union {NoWG}
         /\ UNCHANGED <<dev, goroutines, error, ctxDone>>

Goto(a, b) == at = a /\ at' = b /\ UNCHANGED <<wg, error, ctxDone>>

(* Mutant of FailAt: the error is dropped on the way to the menu.             *)
FailAtSilently(a) == at = a /\ at' = "error" /\ UNCHANGED <<wg, error, ctxDone>>

FailAt(a) == at = a /\ error' = a /\ at' = "error" /\ UNCHANGED <<wg, ctxDone>>

LoadConfig == /\ Goto("config", IF wg = NoWG THEN "shell" ELSE "wgconfig")
              /\ UNCHANGED <<dev, goroutines>>

LoadWGConfig == Goto("wgconfig", "addrs") /\ UNCHANGED <<dev, goroutines>>

(* The addresses parse; tun and device are made.                              *)
Device == Goto("addrs", "render") /\ dev' = "open" /\ UNCHANGED goroutines

Render == /\ Goto("render", "apply") /\ Renders(wg)
          /\ UNCHANGED <<dev, goroutines>>

Apply == Goto("apply", "up") /\ UNCHANGED <<dev, goroutines>>

Up == Goto("up", "closer") /\ dev' = "up" /\ UNCHANGED goroutines

Closer == Goto("closer", "shell") /\ closer' = TRUE /\ UNCHANGED <<dev, gateway, control>>

NewShell == Goto("shell", "gateway") /\ UNCHANGED <<dev, goroutines>>

RunGateway == /\ Goto("gateway", "listen") /\ gateway' = "running"
              /\ UNCHANGED <<dev, closer, control>>

Listen == Goto("listen", "tray") /\ control' = TRUE /\ UNCHANGED <<dev, closer, gateway>>

(* Nothing has been acquired, or what has been is left running.               *)
Fail == /\ \E a \in {"config", "wgconfig", "addrs", "shell", "listen"} : FailAt(a)
        /\ UNCHANGED <<dev, goroutines>>

(* Mutant of FailDevice: an early return without dev.Close.                   *)
FailDeviceOpen == /\ \/ FailAt("render") /\ ~Renders(wg)
                     \/ FailAt("apply")
                     \/ FailAt("up")
                  /\ UNCHANGED <<dev, goroutines>>

(* MeshDialer closes the device itself.                                       *)
FailDevice == /\ \/ FailAt("render") /\ ~Renders(wg)
                 \/ FailAt("apply")
                 \/ FailAt("up")
              /\ dev' = "closed" /\ UNCHANGED goroutines

---------------------------------------------------------------------------
(* The goroutines. *)

(* Mutant of CloseMesh: MeshDialer's closer is deferred in setupShell.        *)
CloseMeshDeferred == /\ closer /\ at \in {"tray", "error"}
                     /\ closer' = FALSE /\ dev' = "closed"
                     /\ UNCHANGED <<at, wg, gateway, control, error, ctxDone>>

CloseMesh == /\ closer /\ ctxDone
             /\ closer' = FALSE /\ dev' = "closed"
             /\ UNCHANGED <<at, wg, gateway, control, error, ctxDone>>

(* Run returns at the end of the context or with an error, which is logged.   *)
GatewayStops == /\ gateway = "running" /\ gateway' = "stopped"
                /\ UNCHANGED <<at, wg, dev, closer, control, error, ctxDone>>

ControlStops == /\ control /\ ctxDone /\ control' = FALSE
                /\ UNCHANGED <<at, wg, dev, closer, gateway, error, ctxDone>>

---------------------------------------------------------------------------
(* The end. *)

Signal == /\ at # "down" /\ ~ctxDone /\ ctxDone' = TRUE
          /\ UNCHANGED <<at, wg, dev, goroutines, error>>

(* Quit is clicked, or the menu sees the context: systray.Quit, and cancel on *)
(* the way out of systray.Run.                                                *)
Quit == /\ at \in {"tray", "error"}
        /\ at' = "exiting" /\ ctxDone' = TRUE
        /\ UNCHANGED <<wg, dev, goroutines, error>>

(* Whatever runs ends with the process.                                       *)
Gone == /\ at' = "down" /\ wg' = NoWG /\ dev' = "none"
        /\ closer' = FALSE /\ gateway' = "off" /\ control' = FALSE
        /\ error' = "none" /\ ctxDone' = FALSE

(* Mutant of Exit: runTray does not return after the error tray.              *)
ExitFallsThrough ==
  at = "exiting" /\ IF error = "none" THEN Gone
                    ELSE at' = "tray" /\ UNCHANGED <<wg, dev, goroutines, error, ctxDone>>

Exit == at = "exiting" /\ Gone

Crash == at # "down" /\ Gone

---------------------------------------------------------------------------
Setup == LoadConfig \/ LoadWGConfig \/ Device \/ Render \/ Apply \/ Up \/ Closer
           \/ NewShell \/ RunGateway \/ Listen \/ Fail \/ FailDevice

Next == \/ Start \/ Setup
        \/ CloseMesh \/ GatewayStops \/ ControlStops
        \/ Signal \/ Quit \/ Exit \/ Crash

Spec == Init /\ [][Next]_vars

---------------------------------------------------------------------------
(* Properties. *)

(* A failure in MeshDialer leaves no device, one after it leaves the tunnel   *)
(* with a goroutine that will close it, and only a control server that cannot *)
(* listen leaves a gateway behind the error tray.                             *)
FailureReleases ==
  /\ dev \in {"open", "up"} => closer \/ at \in {"render", "apply", "up", "closer"}
  /\ at = "error" /\ dev \in {"open", "up"} => error \in {"shell", "listen"}
  /\ at = "error" /\ gateway # "off" => error = "listen"

(* "The resulting dialer reaches every DC's weft-webui on its mesh address":  *)
(* a gateway that was given the mesh dialer runs over a tunnel that is up,    *)
(* also behind an error tray, until the context ends.                         *)
GatewayHasTunnel ==
  gateway = "running" /\ wg # NoWG /\ ~ctxDone => dev = "up" /\ closer

(* Line by line, a device that is up has got the peers of its config, each    *)
(* with its own preshared key, endpoint, keepalive and addresses.             *)
ConfiguredAsWritten ==
  dev = "up" => Renders(wg) /\ IpcSet(uapiConfig(wg)) = Meaning(wg)

(* The life of the tray as Tray has it, here without auth, where its setup is *)
(* one step: it ends with a menu or with the error menu, and the process with *)
(* a click, a signal or a crash.                                              *)
Life == INSTANCE Tray WITH
  Token <- {}, Child <- {}, TrayAccount <- "account", ChildAccount <- "account",
  NoToken <- "none", NoChild <- "none",
  vault <- [a \in {"account"} |-> "none"], vaultUp <- TRUE, minted <- {}, expired <- {},
  pc <- CASE at = "down" -> "down"
          [] at = "tray" \/ (at = "exiting" /\ error = "none") -> "loop"
          [] at = "error" \/ (at = "exiting" /\ error # "none") -> "error"
          [] OTHER -> "setup",
  enabled <- FALSE, authToken <- "none",
  menu <- IF at = "tray" \/ (at = "exiting" /\ error = "none") THEN {"open"} ELSE {},
  waiting <- "none", child <- [c \in {} |-> "free"], saved <- [c \in {} |-> "none"],
  dashboards <- {}, forgotten <- {}

IsTrayLife == Life!Spec
=============================================================================
