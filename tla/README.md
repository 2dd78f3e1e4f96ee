# A TLA+ model of weft-loom-app-osx

`weft-loom-app-osx` is the macOS menu-bar client of a weft cluster: a tray icon
that finds a reachable datacenter, a sign-in window that obtains a session from
an identity provider (or with a dev keypair), and dashboard windows that show
the cluster's web page with this session. It is one binary that runs as several
processes: the tray spawns `--sign-in` and `--dashboard` children, and the
command line offers `--print-pubkey` and `--store-ssh-passphrase`. The
processes share nothing but the host vault (an external library), the macOS
Keychain, the environment of a child, its exit status, and a local control
socket.

The transport (SSH dialling, failover, the gateway proxy, the control socket and
its poller) is in the library `weft-app-core`, which this repository imports.
It is modelled only where the code here relies on it.

    module                 what it is
    SignInAttempt          abstract: what one sign-in process promises the tray
    LoginWindow            the sign-in process: window, OIDC rounds, keypair flow
    Tray                   the menu-bar process, its session and its children
    Dashboard              the dashboard process and its datacenter chip
    KeypairStore           the dev keypair in the vault, used by several processes
    SSHPassphrase          the passphrase entry in the macOS Keychain
    ClusterMenu            the tray's cluster items, the loop they feed, the title
    TrayStartup            the tray's setup, its failures and its end
    WireGuardUAPI          operators: the device configuration and its meaning
    LegacySignIn           the sign-in with an injected picker
    <module>Proofs         theorems about the module, with their proofs
    MC<module>             symmetry sets, configs and functions for a run

They fit together as follows. LoginWindow implements SignInAttempt, and takes no
step that Tray does not let its sign-in processes take. TrayStartup extends WireGuardUAPI and
implements Tray, in which the setup is one step. ClusterMenu shares the event
loop with Tray: it keeps of a sign-in only that it blocks the loop, and Tray
leaves the cluster items out. The others meet in the vault or not at all.

`PROJECT.json` has the line-by-line correspondence (`map`), the runs, the
mutants (a plausible bug for every property, which its run must notice), the
hazards and the findings.

## 1. Inventory

### Sign-in window: `auth_login.go`, `login.html`, `auth_oidc.go`, `auth_keypair.go`, `auth_openpubkey.go`

*State.* The page the window shows; the verdict `result/resultErr/resultSet`
under a mutex; one goroutine, listener and one-shot callback channel per OIDC
round; the context; the vault entry.
*Operations.* The buttons of the page (OIDC, keypair, OpenPubkey), back
navigation and closing; discovery, binding the redirect port, receiving the
callback, the five-minute timeout, checking the state nonce, exchanging the
code, saving the session, reporting it.
*Interaction.* The page calls Go bindings, which run on the window's thread;
the goroutines report through `setResult`, which queues the end of the run
loop; the listener is an HTTP server on a fixed local port that any program may
talk to.
*What is hard.* Several flows can be in flight, each may succeed, fail or hang,
and the first to report ends the process and takes the others with it. The user
can close the window at any moment. All rounds share one port.
*Correct when* the session it reports has been saved, no answer but a round's
own is exchanged, the first verdict stands, and a round always ends the window.

### Tray session and sign-in supervision: `main.go`, `tray.go`, `auth.go`, `keychain.go`, `vault.go`

*State.* `authToken`, a copy of the bearer token made at start and after each
sign-in; the three menu items; the vault entry; the running children.
*Operations.* Start (also with an error menu), Sign in (spawn and wait), Sign
out, Open dashboard, Quit, SIGINT/SIGTERM, expiry of a session.
*Interaction.* `cmd.Run` blocks the event loop for as long as a sign-in window
is open. The dashboard gets the token in its environment and keeps it.
*What is hard.* Copies of one session live in four places (vault, tray, child,
dashboards) with no notification between them; the vault may be unreachable;
the tray may die while a child runs, and the child then saves into the vault of
a later tray; the child's exit status and what it saved are independent.
*Correct when* the menu agrees with the session, a session that was signed out
does not come back, nobody's identity changes without a sign-out, a successful
sign-in takes effect, and a signal ends the tray.

### Dashboard process: `dashboard.go`

*State.* The seed of the chip, fixed when the window opens; the poller's last
answer; the notices dispatched to the window's thread; the page.
*Operations.* Seed, poll, dispatch a notice, load, reload, close.
*What is hard.* A one-shot read and a poller that reports changes only, a queue
in between, and a page that ignores notices until it has loaded.
*Correct when* the chip never goes back to an older datacenter and a switch
reaches it.

### Dev keypair store: `auth_keypair.go` (`loadOrCreateKeypair`), `keypair.go`

*State.* One vault entry per account. *Operations.* Read, generate on a miss,
write; no call deletes. *What is hard.* Read and write are separate calls of
processes that share nothing; an unreachable vault and an absent entry are the
same answer. *Correct when* no key is handed out that was not saved, and the
key that was registered with the server stays the one that signs.

### SSH passphrase: `ssh_passphrase_darwin.go`, `main.go`

*State.* One Keychain item per key file. *Operations.* Prompt, delete, create
an access control, add; read at the tray's start. *What is hard.* Replacement
is a delete whose status is thrown away, and an add. *Correct when* a run that
reports success has really replaced the entry.

### Cluster switching and status menu: `tray.go` (188-216, 303-364)

*State.* One forwarder goroutine per cluster item; `switchCh`, with one place
per cluster; `lastActive` and the title. *Operations.* A click, forwarding it,
switching; the two-second tick. *Interaction.* systray hands a click to a
goroutine that waits for one and drops it otherwise; the event loop receives
from `switchCh` unless it is in `cmd.Run`; the supervisor, a library, chooses
the active datacenter. *What is hard.* While a sign-in window is open clicks
pile up: in the channel, in the blocked forwarders, and then nowhere. The title
is changed on a difference from what was remembered only. *Correct when* no
click that was taken is lost, the last one wins, the backlog is bounded, and the
title comes to name what is active.

### Start-up and mesh: `tray.go` (`runTray`, `setupShell`, `onSetupError`), `wgmesh.go`

*State.* The userspace WireGuard device, the goroutine that closes it, the
gateway, the control server, the context. *Operations.* Loading two configs,
making the device, rendering and applying its configuration, bringing it up,
starting the shell, the gateway and the control server; a failure of any of
these; signal, quit, exit. *What is hard.* Resources acquired one after the
other, of which some are released by the failing function, some by the context
and some by the end of the process; an error tray in front of what is left.
*Correct when* no failure loses an open device, the tunnel is there as long as a
gateway dials through it, and the device gets what the config says.

### Legacy sign-in picker: `auth.go` (`Authenticate`, `runOIDC`), `auth_darwin.go`

*State.* Two goroutines (loopback listener, web window), two channels of one
value, an outer and an inner `select`, two timers. *Operations.* Choosing a
method; whichever goroutine delivers a callback first wins; one error is
forgiven. *Interaction.* Taken with an injected picker only: the shipped binary
passes none, and nothing calls `defaultPicker`. *What is hard.* Each goroutine
may deliver, fail, or (the window) end silently, in any order with the others
and with the end of the context. *Correct when* only its own callback is
accepted, it gives up only when there is none, nobody is left at a full channel,
no `select` without a timer is left alone, and it ends.

### Not modelled

- **Token expiry arithmetic** (`auth_oidc.go` 213-215): `expires_in` times a
  second in 64 bits, without a bound. Tray lets a session expire at any time,
  which includes at once, so the consequence is modelled and the multiplication
  is not: the code states no bound that could be checked.
- **Configuration loading**: one JSON file, read once per process; that it cannot
  be read is a step of TrayStartup, which vault account it names a constant of
  Tray. The default account and service names are data.
- **Datacenters submenu**: every line is repainted from the supervisor's answer
  at each tick; there is nothing to be stale.
- **Transport, gateway, supervisor**: not in this repository. ClusterMenu has the
  part of the supervisor that the title depends on, and calls it external.
- **`signOutAndRelaunch`, `sshPassphraseDelete`**: have no caller.
- **Packaging, icons, version, activation policy**: build tools, constants and
  a single AppKit call, with no state to get wrong.

## 2. How the modules correspond to the code

**LoginWindow.** One action per step another thread can observe. `main` is the
program counter of the main thread, `round[r]` that of the goroutine of round
`r`, `page` what the window shows. `weftStartOIDC` is `ClickOIDC` followed by
`StartOK` or `StartFail` (discovery is a network call and time passes on the
blocked thread); `weftSignInKeypair` is `ClickKeypair` to `KeypairPublish`. The
goroutine is `Bind`, `AwaitReturns`, `Finish`, `Store`, `Publish`, each with
its failure. `Receive` is the HTTP handler with its non-blocking send on a
channel of one. A nonce is represented by the round that drew it, a session by
the round (or the keypair flow) that obtained it. `AwaitFails` is the timer and
the context, which the code's `select` may choose although a callback is ready.
`SetResult` includes the `w.Terminate` behind it: after the deferred
`w.Destroy` this is a call on freed memory, so the process may die. This is the
one undefined behaviour of the model, and it is a choice.

**SignInAttempt** says what the tray needs to know of all this: sessions may be
saved while the attempt runs; it ends once; it names no session that it has not
saved; nothing is saved afterwards. LoginWindow implements it with `slot` and
`persisted` as they are and `outcome` hidden until the process has exited
(`IsAttempt`; theorem `WindowIsAttempt`).

**Tray.** Uses of a sign-in process only what can be seen of it: `ChildSaves` any
number of times while the window is open, then `ChildEnds` with either status.
That a LoginWindow does nothing else is `ActsAsTrayChild` (theorem
`WindowIsTrayChild`): `Seen` is Tray with one child, whose window is open until
the process exits, whose status is the exit status of `runSignIn`, and whose
vault entry is `slot`, a stale one being an expired session. As a LoginWindow
reads nothing that others write, the two modules compose: what holds of Tray
holds with LoginWindows in its children's places.
The start of the process is `Start`, which reads config and vault, and then
`Ready` or `SetupFails`: while the shell is being set up an orphan may save or a
session expire, and the menu is built from what `Start` has read.
`ChildCached` is the early return of `Authenticate`. The tray's part is `Start`
to `SignOut`; `Cached` is `Get` with the three tests every reader applies
(an entry, not expired, a bearer). `Crash` leaves the children running; a later
`Start` meets them. `forgotten` is a history variable: the sessions whose
sign-out deleted the entry. Two constants name the vault accounts of the tray
and of its children, because the child is started without the tray's
`--config`.

**Dashboard.** A datacenter is the number of switches so far, so "newer" is
"larger". Polling is `FirstPoll`, which only remembers, and `Poll`. `queue` is
the window thread's dispatch queue; `Notice` evaluates its head, in vain if the
page has not loaded.

**KeypairStore**, **SSHPassphrase.** One action per call to the vault or
Keychain, any number of processes, each of which may be killed between two of
them. `vaultUp` and `unlocked` change at any time. `serial` in KeypairStore and
`standing` in SSHPassphrase are history variables: no two calls have overlapped
and the vault has always answered; the runs that reported success with no
delete since.

**ClusterMenu.** The channel and the forwarders blocked on it are one sequence,
`line`: its first entries, one per cluster, are in `switchCh`, the others wait in
`switchCh <- name`, and Go serves blocked senders in order of arrival. `taken` is
the time between the receipt of a click and its send, so two clicks may reach
the channel in either order; `Click` needs a forwarder in its `select`,
`ClickDropped` is the default branch of systray's send. `SignIn` and `SignInEnds`
are the event loop in `spawnSignInAndReload`; the other branches of its `select`
touch nothing here. `Reselect` is what the supervisor promises. `wanted` and
`clean` are history: the last click, and whether it raced an earlier one.

**TrayStartup, WireGuardUAPI.** `at` is the place of the main thread, named
after the step that comes next, with `error` the step that failed. `Fail` is the
steps that release nothing, `FailDevice` the three that close the device.
`uapiConfig` is a sequence of key-value pairs, one per line; `IpcLines` is a
device reading them, from its documented protocol, and `IpcSet` the peers that a
new device has after it; `Meaning` is what a config means without any order of
lines. `IsConfig` is what `LoadWGConfig` returns, but for a negative keepalive, which
the code renders as none. The refinement maps everything up to
`Listen` to Tray's `setup`, with auth off, as the setup does not depend on it.

**LegacySignIn.** `pc` is the main thread in `Authenticate` and `runOIDC`;
`wait` and `wait2` are its two `select`s. The listener is `awaitCallback` and the
goroutine around it, the window `OpenAuthWebView` and its goroutine; each sends
once, in `ListenerSends` and `WindowSends`. A callback is the answer to this
round or any other, and `Accepted` is the test `Finish` makes, which the run
`login` checks in detail (`OnlyOwnCallbackExchanged`). A window that is
closed sends nothing, as its goroutine skips an empty URL. LegacySignIn does
*not* implement SignInAttempt: a vault that refuses the write is logged and the
token returned all the same, unlike in the login window.

## 3. What is checked

Runs that pass:

| run | instance | properties and what they say |
|---|---|---|
| `login` | 2 rounds and the keypair flow, strangers on the port, the context may end | `ReturnedTokenPersisted`: a returned session is in the vault before the tray looks. `OnlyOwnCallbackExchanged`: no other request, redirect or error leads to an exchange. `FirstVerdictStands`: no later report replaces the verdict. `IsAttempt`: implements SignInAttempt. `ActsAsTrayChild`: each session is saved once, over what was there, and before the exit. `RoundEndsTheWindow`: a round handed to the browser ends the process. `VerdictIsDelivered`: a verdict that is in while the window is there is what the process ends with, so the late `w.Terminate` of another round cannot cost it |
| `tray` | 2 sessions, 2 sign-in processes, any number of restarts, an unreliable vault | `MenuMirrorsSession`: the three items agree with the session. `SignedOutStaysForgotten`: a deleted session never comes back. `NoSessionSwap`: no session replaces another. `SignInTakesEffect`: a sign-in that worked signs the tray in. `DashboardsCarryLiveSignIn`: no anonymous and no signed-out dashboard is opened. `SignalEndsTray` |
| `dashboard` | 4 switches, reloads | `ChipMovesForward`: no notice is shown after a newer one (the same one twice would not be noticed, nor would it show). `SwitchReachesChip`: a switch under a loaded, watched page is shown |
| `keypair` | 3 calls, 3 keys, kills, an unreliable vault | `HandedKeyWasStored`; `OneKeypairInSeries` and `EntryKeptInSeries`: one key, and a damaged entry is left alone, as long as calls do not overlap and the vault answers |
| `cluster_menu` | 2 clusters with a datacenter each, any number of clicks, sign-ins and failures | `LastClickWins`: a drained queue leaves the cluster clicked last. `BacklogBounded`: at most twice as many late switches as there are clusters, and at most one more than that number to one cluster. `NoClickLost`: no step loses a taken click, or merges it with another one on the same cluster or on another. `TakenClicksAreServed`: it is carried out. `TitleFollows`: the title settles on a datacenter of the selected cluster, or on none when none is up |
| `tray_startup` | every config of up to two peers over 2 keys, 2 addresses and bad keys, every failure, any number of restarts | `FailureReleases`: what is open behind an error tray, and who closes it. `GatewayHasTunnel`: the tunnel is up under a gateway until the context ends. `ConfiguredAsWritten`: the lines give the device the peers of the config. `IsTrayLife`: implements Tray |
| `legacy_sign_in` | one attempt, all three methods, any callbacks, the context may end | `FirstWaitIsAnswered`: the first `select`, without a timer, is not left waiting by a listener that has ended. `BailsOnlyWithoutCallback`: two errors end it only when no callback is on its way. `SendersAreFree`: no goroutine is left at a full channel. `AttemptEnds` |
| `ssh_passphrase` | 3 store runs, 2 trays, 3 passphrases | `SuccessReplaced`: success means the new passphrase is the entry and no other standing run says the same |

Each module has one type invariant, `TypeOK`, checked in its passing run.

Runs that end in a counterexample, each for a sentence of the code that the code
does not keep:

| run | the sentence | what happens |
|---|---|---|
| `login_exit_ok` | `w.Run` "blocks until setResult"; "sign in ok" | closing the window ends `w.Run` without a result: the zero token and a nil error are reported as success |
| `tray_config` | "on success the new token is in Keychain and we read it back" | with `--config`, the child saves under the account of the default config |
| `dashboard_chip` | the chip "stays accurate after a switch" | a switch between the seed and the first poll is in neither (the trace: seed, switch, first poll, page with the old datacenter); a notice before the page has loaded is lost. Failed seeds, which leave the chip empty until the first notice, do not count |
| `keypair_replaced` | a new pair is persisted "on miss" | an unreachable vault counts as a miss, and so does a first use by two processes: a saved key is replaced |

Known behaviours of the models that no run names:

- A round that is in flight when the user closes the login window calls
  `w.Terminate` after `w.Destroy`, although "webview.Terminate is safe to call
  from any goroutine" (`auth_login.go` 81-83): `SetResult`'s outcome `"crash"`. `VerdictIsDelivered` says whom it cannot hit.
- "Visibility depends on whether a non-expired token is currently in our
  in-memory cache" (`tray.go` 157-159), but expiry is tested when the token is
  read and never again: after `Expire` the menu offers Sign out and Open
  Dashboard for a dead session.
- "We'll still record a zero-length payload" (`ssh_passphrase_darwin.go`
  173-174), but `&passphrase[0]` is evaluated a line before the length check:
  `TypeNothing` panics.
- An issuer that never answers leaves a round, and its window, open
  (`http.DefaultClient` has no timeout); a second round that cannot bind the port
  ends the window under the first; an error of one round may end the process
  when another has saved its session, so that the exit status and the vault
  disagree. The first is assumed away by `PeersAnswer`, the other two are
  permitted by all properties here.
- The login page announces success before the session is saved; signing out with
  an unreachable vault leaves the saved session for the next start (which is why
  `SignedOutStaysForgotten` speaks of the sign-outs whose delete went through);
  open dashboards keep their session across a sign-out; a tray that starts
  between the delete and the add of a passphrase finds none.
- A cluster click that was dropped, or that raced an earlier one to the channel,
  may not be the last switch although it was the last click, which is why
  `LastClickWins` excludes both. A forwarder that is blocked does not see the
  context; the process ends around it.
- When the control server cannot listen, gateway and mesh keep running behind
  the error tray until it is quit; after that, whether the closer runs before
  the process is gone is a race that the code leaves open (`Exit` may come first).
- In the legacy path, a user who closes the window without a redirect waits for
  the listener's five minutes and then for five more; in the second `select` the
  context is not looked at; a window that is still open when the listener wins is
  left open, holding `pickerMu`; the goroutine in `Pick` sends to a channel that
  nobody reads. Whether closing a Cocoa window ends its modal loop is left
  open: no step of the user is fair.

### Bounds

- *Two rounds* of OIDC: rounds interact through the port, the page's current
  URL, the verdict and the vault slot, each of which involves two at a time; the
  keypair flow and the context watcher are further reporters.
- *Two sessions and two sign-in processes*: the smallest with a replaced
  session and an orphan beside the child of a new tray. A child slot is used
  again when its process has gone, so the number of sign-ins is not bounded by
  `Child`; sessions are, as each is minted once.
- *Four switches*: two before and two after a reload or first poll; notices
  pile up to four in the queue.
- *Three keypair calls and keys; three store runs*: two that overlap and one
  before or after.
- *Two clusters with a datacenter each*: with two, a forwarder can be blocked
  while the other is free, the channel can be full, and a title can name the
  wrong cluster. Clicks are not bounded: the blocking bounds the queue.
- *Configs of up to two peers*, which may share a key or an address: lines of a
  peer depend on the key before them, and an address on the peer that names it
  last.
- *One legacy attempt*: attempts of one process do not overlap. The kinds of
  callback are two, its own and any other.
- The violating runs use the smallest instance that shows the behaviour, and
  leave out what does not matter to it (`Cancellable = FALSE`: the shipped
  binary gives the window a context that never ends).
- Symmetry is used in `keypair` and `ssh_passphrase` only, which have no
  liveness properties.

Deadlock is checked in every run. States where the process has ended stutter
explicitly (`Ended`, `Closed`, `AllDone`). `Start` brings a tray that is down
up again, in Tray and TrayStartup.

### Fairness

- *LoginWindow.* `Fairness`: the Go scheduler runs every goroutine (the timer
  of the callback wait is part of `RoundStep`), and the run loop drains its
  queue. `RunReturns` is strongly fair, as the thread is not idle while it
  executes a binding; a queued `Terminate` is behind a finite number of them.
  `PeersAnswer` is an assumption about the world: discovery, exchange and
  assertion use an HTTP client without a timeout, so with a peer that never
  answers `RoundEndsTheWindow` does not hold. No user action is fair.
- *Tray.* `Fairness`: `select` picks at random among the ready branches, so a
  finished context is served in spite of clicks (strong fairness, as the loop
  leaves the `select` for each click), and the loop resumes when its child has
  ended. `UserEndsSignIn` is an assumption about the user: without it a signal
  waits behind an open sign-in window for ever, which is what the code does.
- *ClusterMenu.* Forwarders and the ticker run; `Receive` is strongly fair, as
  the loop's `select` picks at random among its ready branches and each sign-in
  leaves the `select`. Assumptions: `UserEndsSignIn`, as in Tray, and
  `SupervisorReselects`, that the supervisor leaves a datacenter that is down or
  in another cluster.
- *LegacySignIn.* Goroutines run and the two timers fire (`AwaitFails`,
  `OuterTimeout`); `PeersAnswer` as for the login window. The user owes nothing.
- *Dashboard.* The poller polls, the run loop drains, the gateway serves the
  page. Nothing is assumed of switches, reloads or closing.

## 4. What is proved

For every value of the constants that satisfies their assumptions (sentinels
are distinct; flags are Boolean):

| module | theorems | the inductive invariant, and why it is needed |
|---|---|---|
| `LoginWindowProofs` | `TypeCorrect`, `ReturnedIsPersisted`, `ExchangeIsOwn`, `VerdictIsFirst`, `WindowIsAttempt`, `WindowIsTrayChild`, `RoundHasVerdict`, `VerdictIsReturned` | `SignInInv`: a flow that is about to report its session has saved it, hence so is the session of the verdict, and hence that of the outcome; a round that is saving, or has saved, holds its own callback. The outcome is a copy of the verdict, so `ReturnedTokenPersisted` alone is not inductive. The refinement uses the same invariant. `SavedOnceInv`: a session is in the vault's history only when its flow is past its `store.Set`, which for the keypair needs that the page stays busy behind it; so every step saves one new session, ends the process or cannot be seen (`VisibleSteps`). `EndInv`: the outcome is the verdict or a crash without one, and a round nobody was told of holds no callback |
| `TrayProofs` | `TypeCorrect`, `MenuMirrors`, `NoSwap`, `SignInReloaded`, `SignOutForgets`, `DashboardGate` | `MenuInv`: an item of the sign-in pair is shown only in the matching case (also without auth and in the error menu), and a tray that waits for a sign-in has no session; from it follow the gates, and that nothing but a sign-out or the end of the process takes a session away. `ForgottenInv`: where the sessions are, each in one account, the deleted ones in none, new ones minted fresh; without it an orphan's save, or a copy in the vault, could bring a deleted session back. `SignInReloaded` assumes `TrayAccount = ChildAccount`; `tray_config` shows that it must |
| `DashboardProofs` | `TypeCorrect`, `ChipForward`, `NoticesArrive` | `OrderInv`: chip and seed, pending notices, last poll and active datacenter are in ascending order; that the head of the queue is not older than the chip needs the order of the whole queue, and that a page load is not older needs the seed's place in it. `NoticeInv`: the end of the queue is what the poller saw last, and before its first poll a page shows its seed only |
| `KeypairProofs` | `TypeCorrect`, `HandedIsStored`, `SerialOneKeypair`, `SerialEntryKept` | `SavedInv`: every key handed out was an entry. `SerialInv`: while the history is serial the vault answers, at most one call runs, there is no entry when one is about to write, and every key handed out is the entry |
| `SSHPassphraseProofs` | `TypeCorrect`, `SuccessIsReplacement` | `StandingInv`: with a run standing there is an entry, so no second add succeeds without a delete; a run past the prompt has typed a passphrase, so what it adds is an entry |
| `ClusterMenuProofs` | `TypeCorrect`, `LastClick`, `Backlog`, `ClicksAreKept`, `TitleSeen` | `CleanInv`: the last click is the only one a forwarder holds, or else the last in the queue, or else selected. `BlockedInv`: beyond the channel's places each cluster occurs once, and not while its forwarder holds a click; so the blocked part is an injection into the clusters whose forwarders hold nothing, whence the bound on all clicks, and adds at most one to those of a cluster in the channel, whence the other, for any finite number of clusters. `ClicksAreKept` and `TitleSeen` need the types only: a click moves from the forwarder to the end of the queue, and from its head to `selected`; how often a cluster is in the queue is counted by `CountAppended` and `CountTail` |
| `TrayStartupProofs` | `TypeCorrect`, `FailuresRelease`, `TunnelUnderGateway`, `WrittenIsMeant`, `DeviceConfigured`, `StartupIsTrayLife` | `HoldsInv`: which resources there are at each place of the main thread; in particular no closer before the device is up, so none closes what the thread still sets up. The refinement needs that an error is recorded exactly behind the error tray, and that the process exits with its context finished. For the device, see below |
| `LegacySignInProofs` | `TypeCorrect`, `BailsWithoutCallback`, `SendersFree`, `FirstWaitAnswered` | `SendersInv`: a count of messages. A goroutine sends one as it ends, so what main has taken and what the channels hold is at most the number that have ended; two errors taken, or one message taken and one in a channel, leave nobody to send. `MainInv`: what main has in hand at each place. `FirstWaitAnswered` is inductive with these: main leaves the first `select` with the first message it takes |

Each proof has one step per action. The inductive invariants hold on the
instances of the passing runs.

**The device gets what the config says** (`WrittenIsMeant`, `DeviceConfigured`).
For every config that `IsConfig` admits, with any number of peers and addresses,
the lines of `uapiConfig` read by `IpcSet` give its `Meaning`; hence a device that
is up has it (`ConfiguredAsWritten`), as `ConfigInv` says: past `render` the keys
of the config could be rendered. The assumption is `WGConfigsType`, that the
files hold configs of this type. The argument is an induction
made without an operator as a parameter: `NatSetInduction` is about a set of
numbers, and follows from `WFMin` and `NatLessThanWellFounded`, by which the rest
of the naturals would have a least element. With it: the fold of `IpcLines` exists
and is unique, so reading two texts one after the other is reading both
(`RunExists`, `RunUnique`, `IpcLinesConcat`); the address lines of a peer give it
all of its addresses and take them from the peers before it
(`LinesOfAddresses`, `LinesOfPeer`); and after the lines of the first `n` peers the
device is `Upto(ps, n)`, the meaning of these `n` with the last as the current
one (`UptoStep`, `PeersWritten`). That `Upto` has the addresses of every peer, and
not only of the current one, is what makes it inductive: a later peer may take
an address away from an earlier one.

**What the liveness properties need of every state** is proved, without the
fairness: a round that has ended has left a verdict and the verdict is what is
returned (`RoundHasVerdict`, `VerdictIsReturned`), no click and no notice is lost
on its way (`ClicksAreKept`, `NoticesArrive`), the title is never older than what
was remembered for it (`TitleSeen`), and the first `select` of the legacy path
is not left alone by a listener that has ended (`FirstWaitAnswered`).
`NoticesArrive` also says how far the chip can be trusted although
`dashboard_chip` fails: it is right as soon as it has moved from its seed.

Only model-checked: the liveness properties (`RoundEndsTheWindow`,
`VerdictIsDelivered`, `SignalEndsTray`, `SwitchReachesChip`, `TakenClicksAreServed`,
`TitleFollows`, `AttemptEnds`), which rest on fairness and on actions being
enabled and are out of the prover's reach; and everything about the violating
runs. Every safety property of a passing run is a theorem. The refinements are
safety refinements; SignInAttempt and `Tray!Spec` state no liveness.

## 5. Plan

Done, in this order: LoginWindow with SignInAttempt, Tray, Dashboard,
KeypairStore, SSHPassphrase, ClusterMenu, LegacySignIn, TrayStartup with
WireGuardUAPI, and the proofs of each. Left:

1. One event loop: a composition of Tray and ClusterMenu. ClusterMenu's sign-in
   may begin and end at any time, so it allows whatever Tray does; what is missing
   is the mapping. (LoginWindow and Tray are composed by `ActsAsTrayChild`.)
2. The expiry arithmetic, scaled down to a small width, should the code come to
   state a bound for `expires_in`.

The number of runs is kept small, one per question.
