------------------------- MODULE TrayStartupProofs -------------------------
(***************************************************************************)
(* What TLAPS proves of TrayStartup, for any set of configurations: the    *)
(* resources of its steps, the configuration of the device, and that it is *)
(* a life of Tray.                                                         *)
(***************************************************************************)
EXTENDS TrayStartup, SequenceTheorems, WellFoundedInduction, TLAPS

(* Where the main thread stands tells which resources there are: no device   *)
(* before MeshDialer makes one, one that is up when its closer is started,   *)
(* with its closer, never there before, from then on until the context ends, *)
(* no gateway before the shell is there; and whether a step has failed.      *)
HoldsInv ==
  /\ FailureReleases
  /\ GatewayHasTunnel
  /\ at \in {"down", "config", "wgconfig", "addrs"} => dev = "none"
  /\ at = "closer" => dev = "up"
  /\ closer => at \in {"shell", "gateway", "listen", "tray", "error", "exiting"}
  /\ at \in {"shell", "gateway", "listen", "tray"} /\ wg # NoWG /\ ~ctxDone
       => dev = "up" /\ closer
  /\ at \notin {"listen", "tray", "error", "exiting"} => gateway = "off"
  /\ at \notin {"error", "exiting"} => error = "none"
  /\ at = "exiting" => ctxDone

(* Every variable keeps its type in every step.                              *)
LEMMA TypeStep == TypeOK /\ [Next]_vars => TypeOK'
  <1>. SUFFICES ASSUME TypeOK, [Next]_vars PROVE TypeOK' OBVIOUS
  <1>. USE DEF TypeOK, Step, MeshStep, Goto, FailAt, goroutines
  <1>1. CASE Start
    BY <1>1 DEF Start
  <1>2. CASE LoadConfig \/ LoadWGConfig \/ Device \/ Render \/ Apply
    BY <1>2 DEF LoadConfig, LoadWGConfig, Device, Render, Apply
  <1>3. CASE Up \/ Closer \/ NewShell \/ RunGateway \/ Listen
    BY <1>3 DEF Up, Closer, NewShell, RunGateway, Listen
  <1>4. CASE Fail \/ FailDevice
    BY <1>4 DEF Fail, FailDevice
  <1>5. CASE CloseMesh \/ GatewayStops \/ ControlStops
    BY <1>5 DEF CloseMesh, GatewayStops, ControlStops
  <1>6. CASE Signal \/ Quit
    BY <1>6 DEF Signal, Quit
  <1>7. CASE Exit \/ Crash
    BY <1>7 DEF Exit, Crash, Gone
  <1>8. CASE UNCHANGED vars
    BY <1>8 DEF vars
  <1>. QED
    BY <1>1, <1>2, <1>3, <1>4, <1>5, <1>6, <1>7, <1>8 DEF Next, Setup

(* Every step takes and releases what the new place of the main thread says. *)
LEMMA HoldsStep == TypeOK /\ HoldsInv /\ [Next]_vars => HoldsInv'
  <1>. SUFFICES ASSUME TypeOK, HoldsInv, [Next]_vars PROVE HoldsInv' OBVIOUS
  <1>. USE DEF TypeOK, HoldsInv, FailureReleases, GatewayHasTunnel, Step, MeshStep, Goto, FailAt,
              goroutines
  <1>1. CASE Start
    BY <1>1 DEF Start
  <1>2. CASE LoadConfig \/ LoadWGConfig \/ Device \/ Render \/ Apply
    BY <1>2 DEF LoadConfig, LoadWGConfig, Device, Render, Apply
  <1>3. CASE Up \/ Closer \/ NewShell \/ RunGateway \/ Listen
    BY <1>3 DEF Up, Closer, NewShell, RunGateway, Listen
  <1>4. CASE Fail
    BY <1>4 DEF Fail
  <1>5. CASE FailDevice
    BY <1>5 DEF FailDevice
  <1>6. CASE CloseMesh
    BY <1>6 DEF CloseMesh
  <1>7. CASE GatewayStops
    BY <1>7 DEF GatewayStops
  <1>8. CASE ControlStops
    BY <1>8 DEF ControlStops
  <1>9. CASE Signal \/ Quit
    BY <1>9 DEF Signal, Quit
  <1>10. CASE Exit \/ Crash
    BY <1>10 DEF Exit, Crash, Gone
  <1>11. CASE UNCHANGED vars
    BY <1>11 DEF vars
  <1>. QED
    BY <1>1, <1>2, <1>3, <1>4, <1>5, <1>6, <1>7, <1>8, <1>9, <1>10, <1>11 DEF Next, Setup

(* Type correctness and the resources' invariant hold together.              *)
LEMMA HoldsInvariant == Spec => [](TypeOK /\ HoldsInv)
  <1>1. Init => TypeOK /\ HoldsInv
    BY DEF Init, TypeOK, HoldsInv, FailureReleases, GatewayHasTunnel, Step, MeshStep
  <1>2. (TypeOK /\ HoldsInv) /\ [Next]_vars => (TypeOK /\ HoldsInv)'
    BY TypeStep, HoldsStep
  <1>. QED
    BY <1>1, <1>2, PTL DEF Spec

(* Every variable of the setup and its goroutines keeps its type.            *)
THEOREM TypeCorrect == Spec => []TypeOK
  BY HoldsInvariant, PTL

(* Whichever step fails, an open device has somebody who will close it, and  *)
(* only a control server that cannot listen leaves a gateway.                *)
THEOREM FailuresRelease == Spec => []FailureReleases
  <1>1. HoldsInv => FailureReleases
    BY DEF HoldsInv
  <1>. QED
    BY <1>1, HoldsInvariant, PTL

(* A gateway with the mesh dialer has the tunnel as long as the context.     *)
THEOREM TunnelUnderGateway == Spec => []GatewayHasTunnel
  <1>1. HoldsInv => GatewayHasTunnel
    BY DEF HoldsInv
  <1>. QED
    BY <1>1, HoldsInvariant, PTL

---------------------------------------------------------------------------
(* The device and the text: what IpcSet makes of uapiConfig(c), by induction  *)
(* over the lines and over the peers.                                         *)

(* Induction over the naturals, for a set instead of a predicate.            *)
LEMMA NatSetInduction ==
  ASSUME NEW S, 0 \in S, \A n \in Nat : n \in S => n + 1 \in S
  PROVE  \A n \in Nat : n \in S
  <1>. DEFINE T == Nat \ S
  <1>1. SUFFICES ASSUME T # {} PROVE FALSE
    OBVIOUS
  <1>2. PICK m \in T : \A y \in T : ~(<<y, m>> \in OpToRel(<, Nat))
    <2>1. T \subseteq Nat
      OBVIOUS
    <2>. HIDE DEF T
    <2>. QED
      BY <1>1, <2>1, NatLessThanWellFounded, WFMin
  <1>3. m \in Nat /\ m # 0 /\ m - 1 \in Nat /\ m - 1 + 1 = m
    OBVIOUS
  <1>4. m - 1 \in T
    BY <1>3
  <1>5. <<m - 1, m>> \in OpToRel(<, Nat)
    BY <1>3 DEF OpToRel
  <1>. QED
    BY <1>2, <1>4, <1>5

(* A set of naturals with a bound has a last entry.                          *)
LEMMA LastEntryIs ==
  ASSUME NEW n \in Nat, NEW S, S \subseteq 1 .. n, S # {}
  PROVE  LastEntry(S) \in S /\ \A j \in S : j <= LastEntry(S)
  <1>. DEFINE T == {m \in Nat : \A j \in S : j <= m}
  <1>1. n \in T
    OBVIOUS
  <1>2. PICK m \in T : \A y \in T : ~(<<y, m>> \in OpToRel(<, Nat))
    <2>1. T \subseteq Nat /\ T # {}
      BY <1>1
    <2>. HIDE DEF T
    <2>. QED
      BY <2>1, NatLessThanWellFounded, WFMin
  <1>3. m \in S
    <2>. SUFFICES ASSUME m \notin S PROVE FALSE
      OBVIOUS
    <2>0. PICK j \in S : j <= m /\ j # m
      OBVIOUS
    <2>1. m \in Nat /\ m # 0 /\ m - 1 \in Nat
      BY <2>0
    <2>2. m - 1 \in T
      BY <2>1
    <2>3. <<m - 1, m>> \in OpToRel(<, Nat)
      BY <2>1 DEF OpToRel
    <2>. QED
      BY <1>2, <2>2, <2>3
  <1>. QED
    BY <1>3 DEF LastEntry

(* The bound itself, when it is in the set, is the last entry.                *)
LEMMA LastEntryOf ==
  ASSUME NEW n \in Nat, NEW S, S \subseteq 1 .. n, n \in S
  PROVE  LastEntry(S) = n
  <1>1. LastEntry(S) \in S /\ \A j \in S : j <= LastEntry(S)
    BY LastEntryIs
  <1>. DEFINE m == LastEntry(S)
  <1>2. m \in S /\ n <= m
    BY <1>1
  <1>. HIDE DEF m
  <1>3. m = n
    BY <1>2
  <1>. QED
    BY <1>3 DEF m

(* f is the device after each of the first n lines, from d.                   *)
IsRun(f, d, lines, n) ==
  f = [j \in 0 .. n |-> IF j = 0 THEN d ELSE IpcLine(f[j - 1], lines[j][1], lines[j][2])]

(* The recursion of IpcLines has a function, for any lines.                   *)
LEMMA RunExists ==
  ASSUME NEW d, NEW lines, NEW N \in Nat
  PROVE  \E f : IsRun(f, d, lines, N)
  <1>. DEFINE S == {n \in Nat : \E f : IsRun(f, d, lines, n)}
  <1>1. 0 \in S
    <2>. DEFINE f == [j \in 0 .. 0 |-> d]
    <2>1. IsRun(f, d, lines, 0)
      BY DEF IsRun
    <2>. QED
      BY <2>1
  <1>2. ASSUME NEW n \in Nat, n \in S PROVE n + 1 \in S
    <2>1. PICK f : IsRun(f, d, lines, n)
      BY <1>2
    <2>. DEFINE g == [j \in 0 .. n + 1 |->
                        IF j = n + 1 THEN IpcLine(f[n], lines[n + 1][1], lines[n + 1][2])
                        ELSE f[j]]
    <2>2. g[0] = d
      BY <2>1 DEF IsRun
    <2>3. ASSUME NEW j \in 1 .. n
          PROVE  g[j] = IpcLine(g[j - 1], lines[j][1], lines[j][2])
      BY <2>1 DEF IsRun
    <2>4. g[n + 1] = IpcLine(g[n], lines[n + 1][1], lines[n + 1][2])
      OBVIOUS
    <2>5. DOMAIN g = 0 .. n + 1
      OBVIOUS
    <2>6. IsRun(g, d, lines, n + 1)
      <3>. HIDE DEF g
      <3>1. ASSUME NEW j \in 0 .. n + 1
            PROVE  g[j] = IF j = 0 THEN d ELSE IpcLine(g[j - 1], lines[j][1], lines[j][2])
        BY <2>2, <2>3, <2>4
      <3>2. g = [j \in 0 .. n + 1 |-> g[j]]
        BY DEF g
      <3>. QED
        BY <3>1, <3>2 DEF IsRun
    <2>. QED
      BY <2>6
  <1>. HIDE DEF S
  <1>3. N \in S
    BY <1>1, <1>2, NatSetInduction
  <1>. QED
    BY <1>3 DEF S

(* A function that satisfies the recursion line by line is that function.     *)
LEMMA RunIf ==
  ASSUME NEW d, NEW lines, NEW N \in Nat, NEW f, f = [j \in 0 .. N |-> f[j]], f[0] = d,
         \A j \in 1 .. N : f[j] = IpcLine(f[j - 1], lines[j][1], lines[j][2])
  PROVE  IsRun(f, d, lines, N)
  <1>1. ASSUME NEW j \in 0 .. N
        PROVE  f[j] = IF j = 0 THEN d ELSE IpcLine(f[j - 1], lines[j][1], lines[j][2])
    OBVIOUS
  <1>. QED
    BY <1>1 DEF IsRun

(* There is only one.                                                         *)
LEMMA RunUnique ==
  ASSUME NEW d, NEW lines, NEW N \in Nat, NEW f, NEW g,
         IsRun(f, d, lines, N), IsRun(g, d, lines, N)
  PROVE  f[N] = g[N]
  <1>. DEFINE S == {n \in Nat : n <= N => f[n] = g[n]}
  <1>1. 0 \in S
    BY DEF IsRun
  <1>2. ASSUME NEW n \in Nat, n \in S PROVE n + 1 \in S
    <2>. SUFFICES ASSUME n + 1 <= N PROVE f[n + 1] = g[n + 1]
      OBVIOUS
    <2>1. f[n + 1] = IpcLine(f[n], lines[n + 1][1], lines[n + 1][2])
      BY DEF IsRun
    <2>2. g[n + 1] = IpcLine(g[n], lines[n + 1][1], lines[n + 1][2])
      BY DEF IsRun
    <2>. QED
      BY <1>2, <2>1, <2>2
  <1>. HIDE DEF S
  <1>3. N \in S
    BY <1>1, <1>2, NatSetInduction
  <1>. QED
    BY <1>3 DEF S

(* So IpcLines is what any function of that kind ends with.                   *)
LEMMA IpcLinesIs ==
  ASSUME NEW d, NEW lines, NEW N, NEW g, N \in Nat, Len(lines) = N, IsRun(g, d, lines, N)
  PROVE  IpcLines(d, lines) = g[N]
  <1>. DEFINE f == CHOOSE f : IsRun(f, d, lines, N)
  <1>1. IsRun(f, d, lines, N)
    BY RunExists
  <1>2. IpcLines(d, lines) = f[N]
    BY DEF IpcLines, IsRun
  <1>. HIDE DEF f
  <1>. QED
    BY <1>1, <1>2, RunUnique

(* The device reads a text as it reads its two halves, one after the other.   *)
LEMMA IpcLinesConcat ==
  ASSUME NEW d, NEW L, NEW s, NEW t, s \in Seq(L), t \in Seq(L)
  PROVE  IpcLines(d, s \o t) = IpcLines(IpcLines(d, s), t)
  <1>. DEFINE m == Len(s)
              n == Len(t)
              u == s \o t
  <1>1. /\ m \in Nat /\ n \in Nat /\ Len(s) = m /\ Len(t) = n /\ Len(u) = m + n
        /\ \A j \in 1 .. m : u[j] = s[j]
        /\ \A j \in m + 1 .. m + n : u[j] = t[j - m]
    BY LenProperties, ConcatProperties
  <1>2. PICK f : IsRun(f, d, s, m)
    BY <1>1, RunExists
  <1>3. PICK h : IsRun(h, f[m], t, n)
    BY <1>1, RunExists
  <1>. DEFINE g == [j \in 0 .. m + n |-> IF j <= m THEN f[j] ELSE h[j - m]]
  <1>. HIDE DEF m, n, u
  <1>4. IpcLines(d, s) = f[m]
    BY <1>1, <1>2, IpcLinesIs
  <1>5. IpcLines(f[m], t) = h[n]
    BY <1>1, <1>3, IpcLinesIs
  <1>6. g[0] = d
    BY <1>1, <1>2 DEF IsRun
  <1>7. ASSUME NEW j \in 1 .. m + n
        PROVE  g[j] = IpcLine(g[j - 1], u[j][1], u[j][2])
    <2>1. CASE j <= m
      <3>1. g[j] = f[j] /\ g[j - 1] = f[j - 1] /\ u[j] = s[j]
        BY <1>1, <2>1
      <3>. QED
        BY <1>1, <1>2, <2>1, <3>1 DEF IsRun
    <2>2. CASE j > m
      <3>1. j - m \in 1 .. n /\ u[j] = t[j - m]
        BY <1>1, <2>2
      <3>2. g[j] = h[j - m]
        BY <1>1, <2>2
      <3>3. g[j - 1] = h[j - m - 1]
        <4>1. CASE j = m + 1
          <5>1. h[0] = f[m]
            BY <1>1, <1>3 DEF IsRun
          <5>. QED
            BY <1>1, <4>1, <5>1
        <4>2. CASE j > m + 1
          BY <1>1, <4>2
        <4>. QED
          BY <1>1, <2>2, <4>1, <4>2
      <3>4. h[j - m] = IpcLine(h[j - m - 1], t[j - m][1], t[j - m][2])
        BY <1>1, <1>3, <3>1 DEF IsRun
      <3>. QED
        BY <3>1, <3>2, <3>3, <3>4
    <2>. QED
      BY <1>1, <2>1, <2>2
  <1>8. g[m + n] = IpcLines(f[m], t)
    <2>1. CASE n = 0
      <3>1. h[0] = f[m]
        BY <1>1, <1>3 DEF IsRun
      <3>. QED
        BY <1>1, <1>5, <2>1, <3>1
    <2>2. CASE n # 0
      BY <1>1, <1>5, <2>2
    <2>. QED
      BY <2>1, <2>2
  <1>9. m + n \in Nat /\ g = [j \in 0 .. m + n |-> g[j]]
    BY <1>1
  <1>. HIDE DEF g
  <1>10. IsRun(g, d, u, m + n)
    BY <1>6, <1>7, <1>9, RunIf
  <1>11. IpcLines(d, u) = g[m + n]
    BY <1>1, <1>9, <1>10, IpcLinesIs
  <1>. QED
    BY <1>4, <1>8, <1>11 DEF u

(* No line leaves the device as it is.                                        *)
LEMMA IpcLinesNone == \A d : IpcLines(d, <<>>) = d
  <1>. SUFFICES ASSUME NEW d PROVE IpcLines(d, <<>>) = d
    OBVIOUS
  <1>1. PICK f : IsRun(f, d, <<>>, 0)
    BY RunExists
  <1>2. IpcLines(d, <<>>) = f[0]
    BY <1>1, IpcLinesIs
  <1>. QED
    BY <1>1, <1>2 DEF IsRun

(* A text of one line is that line.                                           *)
LEMMA IpcLinesOne ==
  ASSUME NEW d, NEW key, NEW value
  PROVE  IpcLines(d, <<<<key, value>>>>) = IpcLine(d, key, value)
  <1>. DEFINE lines == <<<<key, value>>>>
  <1>1. Len(lines) = 1 /\ lines[1][1] = key /\ lines[1][2] = value
    OBVIOUS
  <1>. HIDE DEF lines
  <1>2. PICK f : IsRun(f, d, lines, 1)
    BY RunExists
  <1>3. IpcLines(d, lines) = f[1]
    BY <1>1, <1>2, IpcLinesIs
  <1>4. f[1] = IpcLine(d, key, value)
    BY <1>1, <1>2 DEF IsRun
  <1>. QED
    BY <1>3, <1>4 DEF lines

(* An optional field is one line or none.                                     *)
LEMMA IpcLinesGiven ==
  ASSUME NEW d, NEW key, NEW value, NEW none
  PROVE  IpcLines(d, Given(key, value, none))
           = IF value = none THEN d ELSE IpcLine(d, key, value)
  BY IpcLinesNone, IpcLinesOne DEF Given

---------------------------------------------------------------------------

(* A device by the fields of its peers, K, each a function of their keys.     *)
Dev(current, K, psk, endpoint, keepalive, ips) ==
  [current |-> current,
   peers |-> [k \in K |-> [psk |-> psk[k], endpoint |-> endpoint[k],
                           keepalive |-> keepalive[k], ips |-> ips[k]]]]

Put(f, K, key, value) == [k \in K |-> IF k = key THEN value ELSE f[k]]
Known(f, K, key, none) == [k \in K \union {key} |-> IF k \in K THEN f[k] ELSE none]
Move(f, K, key, ips) == [k \in K |-> IF k = key THEN f[k] \union ips ELSE f[k] \ ips]

(* A public_key line adds the peer, or names the one that is there.           *)
LEMMA LineOfKey ==
  ASSUME NEW cur, NEW K, NEW a, NEW b, NEW c, NEW e, NEW v
  PROVE  IpcLine(Dev(cur, K, a, b, c, e), "public_key", v)
           = Dev(v, K \union {v}, Known(a, K, v, Absent), Known(b, K, v, Absent),
                 Known(c, K, v, 0), Known(e, K, v, {}))
  BY DEF IpcLine, Dev, Known, Fresh

(* The line of a field changes that field of the current peer only.           *)
LEMMA LineOfField ==
  ASSUME NEW K, NEW cur, NEW a, NEW b, NEW c, NEW e, NEW v, cur \in K
  PROVE  /\ IpcLine(Dev(cur, K, a, b, c, e), "preshared_key", v)
              = Dev(cur, K, Put(a, K, cur, v), b, c, e)
         /\ IpcLine(Dev(cur, K, a, b, c, e), "endpoint", v)
              = Dev(cur, K, a, Put(b, K, cur, v), c, e)
         /\ IpcLine(Dev(cur, K, a, b, c, e), "persistent_keepalive_interval", v)
              = Dev(cur, K, a, b, Put(c, K, cur, v), e)
  <1>. DEFINE P == [k \in K |-> [psk |-> a[k], endpoint |-> b[k], keepalive |-> c[k], ips |-> e[k]]]
              d == [current |-> cur, peers |-> P]
  <1>1. /\ IpcLine(d, "preshared_key", v) = [d EXCEPT !.peers[cur].psk = v]
        /\ IpcLine(d, "endpoint", v) = [d EXCEPT !.peers[cur].endpoint = v]
        /\ IpcLine(d, "persistent_keepalive_interval", v) = [d EXCEPT !.peers[cur].keepalive = v]
    <2>1. d.current = cur /\ d.peers = P /\ DOMAIN P = K
      OBVIOUS
    <2>. HIDE DEF d, P
    <2>. QED
      BY <2>1 DEF IpcLine
  <1>2. /\ [d EXCEPT !.peers[cur].psk = v] = [current |-> cur, peers |-> [P EXCEPT ![cur].psk = v]]
        /\ [d EXCEPT !.peers[cur].endpoint = v]
             = [current |-> cur, peers |-> [P EXCEPT ![cur].endpoint = v]]
        /\ [d EXCEPT !.peers[cur].keepalive = v]
             = [current |-> cur, peers |-> [P EXCEPT ![cur].keepalive = v]]
    <2>. HIDE DEF P
    <2>. QED
      OBVIOUS
  <1>3. [P EXCEPT ![cur].psk = v]
          = [k \in K |-> [psk |-> Put(a, K, cur, v)[k], endpoint |-> b[k],
                          keepalive |-> c[k], ips |-> e[k]]]
    <2>. DEFINE Q == [P EXCEPT ![cur].psk = v]
    <2>1. \A k \in K : Q[k] = IF k = cur THEN [P[k] EXCEPT !.psk = v] ELSE P[k]
      OBVIOUS
    <2>2. Q = [k \in K |-> Q[k]]
      OBVIOUS
    <2>. HIDE DEF Q
    <2>3. Q = [k \in K |-> IF k = cur THEN [P[k] EXCEPT !.psk = v] ELSE P[k]]
      BY <2>1, <2>2
    <2>. QED
      BY <2>3 DEF Put, Q
  <1>4. [P EXCEPT ![cur].endpoint = v]
          = [k \in K |-> [psk |-> a[k], endpoint |-> Put(b, K, cur, v)[k],
                          keepalive |-> c[k], ips |-> e[k]]]
    <2>. DEFINE Q == [P EXCEPT ![cur].endpoint = v]
    <2>1. \A k \in K : Q[k] = IF k = cur THEN [P[k] EXCEPT !.endpoint = v] ELSE P[k]
      OBVIOUS
    <2>2. Q = [k \in K |-> Q[k]]
      OBVIOUS
    <2>. HIDE DEF Q
    <2>3. Q = [k \in K |-> IF k = cur THEN [P[k] EXCEPT !.endpoint = v] ELSE P[k]]
      BY <2>1, <2>2
    <2>. QED
      BY <2>3 DEF Put, Q
  <1>5. [P EXCEPT ![cur].keepalive = v]
          = [k \in K |-> [psk |-> a[k], endpoint |-> b[k],
                          keepalive |-> Put(c, K, cur, v)[k], ips |-> e[k]]]
    <2>. DEFINE Q == [P EXCEPT ![cur].keepalive = v]
    <2>1. \A k \in K : Q[k] = IF k = cur THEN [P[k] EXCEPT !.keepalive = v] ELSE P[k]
      OBVIOUS
    <2>2. Q = [k \in K |-> Q[k]]
      OBVIOUS
    <2>. HIDE DEF Q
    <2>3. Q = [k \in K |-> IF k = cur THEN [P[k] EXCEPT !.keepalive = v] ELSE P[k]]
      BY <2>1, <2>2
    <2>. QED
      BY <2>3 DEF Put, Q
  <1>. HIDE DEF P
  <1>. QED
    BY <1>1, <1>2, <1>3, <1>4, <1>5 DEF Dev, P

(* The preshared_key line.                                                    *)
LEMMA LineOfPsk ==
  ASSUME NEW K, NEW cur, NEW a, NEW b, NEW c, NEW e, NEW v, cur \in K
  PROVE  IpcLine(Dev(cur, K, a, b, c, e), "preshared_key", v)
           = Dev(cur, K, Put(a, K, cur, v), b, c, e)
  BY LineOfField

(* The endpoint line.                                                         *)
LEMMA LineOfEndpoint ==
  ASSUME NEW K, NEW cur, NEW a, NEW b, NEW c, NEW e, NEW v, cur \in K
  PROVE  IpcLine(Dev(cur, K, a, b, c, e), "endpoint", v)
           = Dev(cur, K, a, Put(b, K, cur, v), c, e)
  BY LineOfField

(* The persistent_keepalive_interval line.                                    *)
LEMMA LineOfKeepalive ==
  ASSUME NEW K, NEW cur, NEW a, NEW b, NEW c, NEW e, NEW v, cur \in K
  PROVE  IpcLine(Dev(cur, K, a, b, c, e), "persistent_keepalive_interval", v)
           = Dev(cur, K, a, b, Put(c, K, cur, v), e)
  BY LineOfField

(* An allowed_ip line gives the address to the current peer and takes it from *)
(* the others.                                                                *)
LEMMA LineOfAddress ==
  ASSUME NEW K, NEW cur, NEW a, NEW b, NEW c, NEW e, NEW v, cur \in K
  PROVE  IpcLine(Dev(cur, K, a, b, c, e), "allowed_ip", v)
           = Dev(cur, K, a, b, c, Move(e, K, cur, {v}))
  <1>. DEFINE P == [k \in K |-> [psk |-> a[k], endpoint |-> b[k], keepalive |-> c[k], ips |-> e[k]]]
              d == [current |-> cur, peers |-> P]
              Q == [k \in K |-> [P[k] EXCEPT
                      !.ips = IF k = cur THEN P[k].ips \union {v} ELSE P[k].ips \ {v}]]
  <1>1. IpcLine(d, "allowed_ip", v) = [d EXCEPT !.peers = Q]
    <2>1. d.current = cur /\ d.peers = P /\ DOMAIN P = K
      OBVIOUS
    <2>. HIDE DEF d, P
    <2>. QED
      BY <2>1 DEF IpcLine
  <1>2. [d EXCEPT !.peers = Q] = [current |-> cur, peers |-> Q]
    <2>. HIDE DEF P, Q
    <2>. QED
      OBVIOUS
  <1>3. Q = [k \in K |-> [psk |-> a[k], endpoint |-> b[k],
                          keepalive |-> c[k], ips |-> Move(e, K, cur, {v})[k]]]
    BY DEF Move
  <1>. HIDE DEF P, Q
  <1>. QED
    BY <1>1, <1>2, <1>3 DEF Dev, P

(* The private_key line is about no peer.                                     *)
LEMMA LineOfPrivate == \A d, v : IpcLine(d, "private_key", v) = d
  BY DEF IpcLine

AddressLines(ips) == [i \in DOMAIN ips |-> <<"allowed_ip", ips[i]>>]

(* The addresses of a peer, line by line, are given to it together.           *)
LEMMA LinesOfAddresses ==
  ASSUME NEW K, NEW cur, NEW a, NEW b, NEW c, NEW e, NEW V, NEW ips,
         cur \in K, ips \in Seq(V)
  PROVE  IpcLines(Dev(cur, K, a, b, c, e), AddressLines(ips))
           = Dev(cur, K, a, b, c, Move(e, K, cur, {ips[j] : j \in DOMAIN ips}))
  <1>. DEFINE N == Len(ips)
              upto(n) == Dev(cur, K, a, b, c, Move(e, K, cur, {ips[j] : j \in 1 .. n}))
              g == [n \in 0 .. N |-> upto(n)]
              lines == AddressLines(ips)
  <1>1. /\ N \in Nat /\ DOMAIN ips = 1 .. N /\ Len(lines) = N
        /\ \A j \in 1 .. N : lines[j][1] = "allowed_ip" /\ lines[j][2] = ips[j]
    BY LenProperties DEF AddressLines
  <1>2. upto(0) = Dev(cur, K, a, b, c, e)
    <2>. DEFINE X == {ips[j] : j \in 1 .. 0}
    <2>1. X = {}
      OBVIOUS
    <2>. HIDE DEF X
    <2>2. \A k \in K : Move(e, K, cur, X)[k] = e[k]
      BY <2>1 DEF Move
    <2>3. Dev(cur, K, a, b, c, Move(e, K, cur, X)) = Dev(cur, K, a, b, c, e)
      BY <2>2 DEF Dev
    <2>. QED
      BY <2>3 DEF X
  <1>3. ASSUME NEW j \in 1 .. N
        PROVE  upto(j) = IpcLine(upto(j - 1), "allowed_ip", ips[j])
    <2>. DEFINE X == {ips[i] : i \in 1 .. j - 1}
                Y == {ips[i] : i \in 1 .. j}
    <2>1. Y = X \union {ips[j]}
      BY <1>1
    <2>. HIDE DEF X, Y
    <2>2. IpcLine(Dev(cur, K, a, b, c, Move(e, K, cur, X)), "allowed_ip", ips[j])
            = Dev(cur, K, a, b, c, Move(Move(e, K, cur, X), K, cur, {ips[j]}))
      BY LineOfAddress
    <2>3. \A k \in K : Move(Move(e, K, cur, X), K, cur, {ips[j]})[k] = Move(e, K, cur, Y)[k]
      BY <2>1 DEF Move
    <2>4. Dev(cur, K, a, b, c, Move(Move(e, K, cur, X), K, cur, {ips[j]}))
            = Dev(cur, K, a, b, c, Move(e, K, cur, Y))
      BY <2>3 DEF Dev
    <2>. QED
      BY <2>2, <2>4 DEF X, Y
  <1>. HIDE DEF upto, lines, N
  <1>4. IsRun(g, Dev(cur, K, a, b, c, e), lines, N)
    <2>1. g = [j \in 0 .. N |-> g[j]] /\ g[0] = Dev(cur, K, a, b, c, e)
      BY <1>1, <1>2
    <2>2. ASSUME NEW j \in 1 .. N PROVE g[j] = IpcLine(g[j - 1], lines[j][1], lines[j][2])
      <3>1. g[j] = upto(j) /\ g[j - 1] = upto(j - 1)
        BY <1>1
      <3>. QED
        BY <1>1, <1>3, <3>1
    <2>. HIDE DEF g
    <2>. QED
      BY <1>1, <2>1, <2>2, RunIf
  <1>5. g[N] = upto(N)
    BY <1>1
  <1>. HIDE DEF g
  <1>6. IpcLines(Dev(cur, K, a, b, c, e), lines) = g[N]
    BY <1>1, <1>4, IpcLinesIs
  <1>. QED
    BY <1>1, <1>5, <1>6 DEF lines, upto

PutGiven(f, K, key, value, none) == IF value = none THEN f ELSE Put(f, K, key, value)

Keyword == {"private_key", "public_key", "preshared_key", "endpoint",
            "persistent_keepalive_interval", "allowed_ip"}

PeerIn(V, p) ==
  /\ p.public \in V /\ p.psk \in V /\ p.endpoint \in V /\ p.keepalive \in V
  /\ p.ips \in Seq(V)

(* What is rendered of a peer is a sequence of lines.                         *)
LEMMA PeerLinesSeq ==
  ASSUME NEW V, NEW p, PeerIn(V, p)
  PROVE  /\ PeerLines(p) \in Seq(Keyword \X V)
         /\ <<<<"public_key", p.public>>>> \in Seq(Keyword \X V)
         /\ Given("preshared_key", p.psk, Absent) \in Seq(Keyword \X V)
         /\ Given("endpoint", p.endpoint, Absent) \in Seq(Keyword \X V)
         /\ Given("persistent_keepalive_interval", p.keepalive, 0) \in Seq(Keyword \X V)
         /\ AddressLines(p.ips) \in Seq(Keyword \X V)
  <1>. DEFINE L == Keyword \X V
  <1>1. \A key \in Keyword, v \in V : <<<<key, v>>>> \in Seq(L)
    OBVIOUS
  <1>2. ASSUME NEW key \in Keyword, NEW v \in V, NEW none PROVE Given(key, v, none) \in Seq(L)
    <2>1. <<<<key, v>>>> \in Seq(L) /\ <<>> \in Seq(L)
      BY <1>1, EmptySeq
    <2>. QED
      BY <2>1 DEF Given
  <1>3. /\ Given("preshared_key", p.psk, Absent) \in Seq(L)
        /\ Given("endpoint", p.endpoint, Absent) \in Seq(L)
        /\ Given("persistent_keepalive_interval", p.keepalive, 0) \in Seq(L)
        /\ <<<<"public_key", p.public>>>> \in Seq(L)
    <2>1. /\ "preshared_key" \in Keyword /\ "endpoint" \in Keyword
          /\ "persistent_keepalive_interval" \in Keyword /\ "public_key" \in Keyword
      BY DEF Keyword
    <2>. HIDE DEF L
    <2>. QED
      BY <1>1, <1>2, <2>1 DEF PeerIn
  <1>4. AddressLines(p.ips) \in Seq(L)
    <2>1. Len(p.ips) \in Nat /\ DOMAIN p.ips = 1 .. Len(p.ips)
            /\ \A j \in 1 .. Len(p.ips) : p.ips[j] \in V
      BY LenProperties, ElementOfSeq DEF PeerIn
    <2>2. AddressLines(p.ips) \in [1 .. Len(p.ips) -> L]
      BY <2>1 DEF AddressLines, Keyword
    <2>. QED
      BY <2>1, <2>2, SeqDef
  <1>5. PeerLines(p) \in Seq(L)
    <2>1. PeerLines(p) = (((<<<<"public_key", p.public>>>>
              \o Given("preshared_key", p.psk, Absent))
              \o Given("endpoint", p.endpoint, Absent))
              \o Given("persistent_keepalive_interval", p.keepalive, 0))
              \o AddressLines(p.ips)
      BY DEF PeerLines, AddressLines
    <2>. HIDE DEF L
    <2>. QED
      BY <1>3, <1>4, <2>1, ConcatProperties
  <1>. QED
    BY <1>3, <1>4, <1>5

(* The lines of a peer, in the order uapiConfig writes them, set its fields   *)
(* and no other's.                                                            *)
LEMMA LinesOfPeer ==
  ASSUME NEW cur, NEW K, NEW a, NEW b, NEW c, NEW e, NEW V, NEW p, PeerIn(V, p),
         NEW K1, K1 = K \union {p.public}
  PROVE  IpcLines(Dev(cur, K, a, b, c, e), PeerLines(p))
           = Dev(p.public, K1,
                 PutGiven(Known(a, K, p.public, Absent), K1, p.public, p.psk, Absent),
                 PutGiven(Known(b, K, p.public, Absent), K1, p.public, p.endpoint, Absent),
                 PutGiven(Known(c, K, p.public, 0), K1, p.public, p.keepalive, 0),
                 Move(Known(e, K, p.public, {}), K1, p.public,
                      {p.ips[j] : j \in DOMAIN p.ips}))
  <1>. DEFINE L == Keyword \X V
              key == p.public
              s1 == <<<<"public_key", key>>>>
              s2 == Given("preshared_key", p.psk, Absent)
              s3 == Given("endpoint", p.endpoint, Absent)
              s4 == Given("persistent_keepalive_interval", p.keepalive, 0)
              s5 == AddressLines(p.ips)
              d0 == Dev(cur, K, a, b, c, e)
              a1 == Known(a, K, key, Absent)
              b1 == Known(b, K, key, Absent)
              c1 == Known(c, K, key, 0)
              e1 == Known(e, K, key, {})
              a2 == PutGiven(a1, K1, key, p.psk, Absent)
              b2 == PutGiven(b1, K1, key, p.endpoint, Absent)
              c2 == PutGiven(c1, K1, key, p.keepalive, 0)
              e2 == Move(e1, K1, key, {p.ips[j] : j \in DOMAIN p.ips})
  <1>1. /\ s1 \in Seq(L) /\ s2 \in Seq(L) /\ s3 \in Seq(L) /\ s4 \in Seq(L) /\ s5 \in Seq(L)
    BY PeerLinesSeq
  <1>2. PeerLines(p) = (((s1 \o s2) \o s3) \o s4) \o s5
    BY DEF PeerLines, AddressLines
  <1>3. IpcLines(d0, s1) = Dev(key, K1, a1, b1, c1, e1)
    BY IpcLinesOne, LineOfKey
  <1>4. key \in K1
    OBVIOUS
  <1>5. p.ips \in Seq(V)
    BY DEF PeerIn
  <1>. HIDE DEF a1, b1, c1, e1
  <1>6. IpcLines(Dev(key, K1, a1, b1, c1, e1), s2) = Dev(key, K1, a2, b1, c1, e1)
    BY <1>4, IpcLinesGiven, LineOfPsk DEF PutGiven
  <1>. HIDE DEF a2
  <1>7. IpcLines(Dev(key, K1, a2, b1, c1, e1), s3) = Dev(key, K1, a2, b2, c1, e1)
    BY <1>4, IpcLinesGiven, LineOfEndpoint DEF PutGiven
  <1>. HIDE DEF b2
  <1>8. IpcLines(Dev(key, K1, a2, b2, c1, e1), s4) = Dev(key, K1, a2, b2, c2, e1)
    BY <1>4, IpcLinesGiven, LineOfKeepalive DEF PutGiven
  <1>. HIDE DEF c2
  <1>9. IpcLines(Dev(key, K1, a2, b2, c2, e1), s5) = Dev(key, K1, a2, b2, c2, e2)
    BY <1>4, <1>5, LinesOfAddresses
  <1>. HIDE DEF e2, s1, s2, s3, s4, s5, d0, L
  <1>. DEFINE s12 == s1 \o s2
              s123 == s12 \o s3
              s1234 == s123 \o s4
  <1>10. s12 \in Seq(L) /\ s123 \in Seq(L) /\ s1234 \in Seq(L)
    BY <1>1, ConcatProperties
  <1>11. IpcLines(d0, s12) = Dev(key, K1, a2, b1, c1, e1)
    BY <1>1, <1>3, <1>6, IpcLinesConcat
  <1>. HIDE DEF s12
  <1>12. IpcLines(d0, s123) = Dev(key, K1, a2, b2, c1, e1)
    BY <1>1, <1>7, <1>10, <1>11, IpcLinesConcat
  <1>. HIDE DEF s123
  <1>13. IpcLines(d0, s1234) = Dev(key, K1, a2, b2, c2, e1)
    BY <1>1, <1>8, <1>10, <1>12, IpcLinesConcat
  <1>. HIDE DEF s1234
  <1>14. IpcLines(d0, s1234 \o s5) = Dev(key, K1, a2, b2, c2, e2)
    BY <1>1, <1>9, <1>10, <1>13, IpcLinesConcat
  <1>. QED
    BY <1>2, <1>14 DEF s1234, s123, s12, d0, a2, b2, c2, e2, a1, b1, c1, e1

---------------------------------------------------------------------------
(* What the first n peers mean. *)

KeysIn(ps, n) == {ps[i].public : i \in 1 .. n}

Entries(ps, n, k, field, none) == {i \in 1 .. n : ps[i].public = k /\ ps[i][field] # none}

Entry(ps, n, k, field, none) ==
  IF Entries(ps, n, k, field, none) = {} THEN none
  ELSE ps[LastEntry(Entries(ps, n, k, field, none))][field]

Addresses(p) == {p.ips[j] : j \in DOMAIN p.ips}

ListingIn(ps, n, ip) == {i \in 1 .. n : \E j \in DOMAIN ps[i].ips : ps[i].ips[j] = ip}

AllowedIn(ps, n, k) ==
  {ip \in UNION {Addresses(ps[i]) : i \in 1 .. n} : ps[LastEntry(ListingIn(ps, n, ip))].public = k}

Fields(ps, n, field, none) == [k \in KeysIn(ps, n) |-> Entry(ps, n, k, field, none)]
AllAllowed(ps, n) == [k \in KeysIn(ps, n) |-> AllowedIn(ps, n, k)]

Upto(ps, n) ==
  Dev(IF n = 0 THEN Absent ELSE ps[n].public, KeysIn(ps, n),
      Fields(ps, n, "psk", Absent), Fields(ps, n, "endpoint", Absent),
      Fields(ps, n, "keepalive", 0), AllAllowed(ps, n))

(* The next peer adds its key.                                                *)
LEMMA KeysStep ==
  ASSUME NEW ps, NEW n, n \in Nat
  PROVE  KeysIn(ps, n + 1) = KeysIn(ps, n) \union {ps[n + 1].public}
  <1>1. 1 .. n + 1 = 1 .. n \union {n + 1}
    OBVIOUS
  <1>. QED
    BY <1>1 DEF KeysIn

(* What the next peer leaves out is as the peers before it have it.           *)
LEMMA EntryStep ==
  ASSUME NEW ps, NEW n, NEW k, NEW field, NEW none, n \in Nat
  PROVE  Entry(ps, n + 1, k, field, none)
           = IF ps[n + 1].public = k /\ ps[n + 1][field] # none THEN ps[n + 1][field]
             ELSE Entry(ps, n, k, field, none)
  <1>. DEFINE S == Entries(ps, n + 1, k, field, none)
  <1>1. CASE ps[n + 1].public = k /\ ps[n + 1][field] # none
    <2>1. S \subseteq 1 .. n + 1 /\ n + 1 \in S /\ n + 1 \in Nat
      BY <1>1 DEF Entries
    <2>. HIDE DEF S
    <2>2. LastEntry(S) = n + 1
      BY <2>1, LastEntryOf
    <2>. QED
      BY <1>1, <2>1, <2>2 DEF Entry, S
  <1>2. CASE ~(ps[n + 1].public = k /\ ps[n + 1][field] # none)
    <2>1. S = Entries(ps, n, k, field, none)
      BY <1>2 DEF Entries
    <2>. HIDE DEF S
    <2>. QED
      BY <1>2, <2>1 DEF Entry, S
  <1>. QED
    BY <1>1, <1>2

(* Of a key that no peer has nothing is given.                                *)
LEMMA EntryNone ==
  ASSUME NEW ps, NEW n, NEW k, NEW field, NEW none, k \notin KeysIn(ps, n)
  PROVE  Entry(ps, n, k, field, none) = none
  BY DEF Entry, Entries, KeysIn

(* The line of a field, or none, makes the field what the peers so far mean.  *)
LEMMA FieldsStep ==
  ASSUME NEW ps, NEW n, NEW field, NEW none, NEW k,
         n \in Nat, k \in KeysIn(ps, n + 1)
  PROVE  PutGiven(Known(Fields(ps, n, field, none), KeysIn(ps, n), ps[n + 1].public, none),
                  KeysIn(ps, n + 1), ps[n + 1].public, ps[n + 1][field], none)[k]
           = Fields(ps, n + 1, field, none)[k]
  <1>. DEFINE key == ps[n + 1].public
              K == KeysIn(ps, n)
              v == ps[n + 1][field]
              F == Fields(ps, n, field, none)
              old == IF k \in K THEN Entry(ps, n, k, field, none) ELSE none
  <1>1. old = Entry(ps, n, k, field, none)
    BY EntryNone
  <1>2. Entry(ps, n + 1, k, field, none) = IF key = k /\ v # none THEN v ELSE old
    BY <1>1, EntryStep
  <1>3. k \in K \union {key} /\ KeysIn(ps, n + 1) = K \union {key}
    BY KeysStep
  <1>4. \A x \in K : F[x] = Entry(ps, n, x, field, none)
    BY DEF Fields
  <1>5. Fields(ps, n + 1, field, none)[k] = Entry(ps, n + 1, k, field, none)
    BY DEF Fields
  <1>. HIDE DEF key, K, v, F
  <1>6. Known(F, K, key, none)[k] = old
    BY <1>3, <1>4 DEF Known
  <1>7. PutGiven(Known(F, K, key, none), K \union {key}, key, v, none)[k]
          = IF key = k /\ v # none THEN v ELSE old
    BY <1>3, <1>6 DEF PutGiven, Put
  <1>. QED
    BY <1>2, <1>3, <1>5, <1>7 DEF key, K, v, F

(* The addresses of the next peer are its own from then on.                   *)
LEMMA AllowedStep ==
  ASSUME NEW ps, NEW n, NEW k, n \in Nat
  PROVE  AllowedIn(ps, n + 1, k)
           = IF k = ps[n + 1].public THEN AllowedIn(ps, n, k) \union Addresses(ps[n + 1])
             ELSE AllowedIn(ps, n, k) \ Addresses(ps[n + 1])
  <1>1. ASSUME NEW ip \in Addresses(ps[n + 1])
        PROVE  LastEntry(ListingIn(ps, n + 1, ip)) = n + 1
    <2>. DEFINE S == ListingIn(ps, n + 1, ip)
    <2>1. S \subseteq 1 .. n + 1 /\ n + 1 \in S /\ n + 1 \in Nat
      BY DEF ListingIn, Addresses
    <2>. HIDE DEF S
    <2>2. LastEntry(S) = n + 1
      BY <2>1, LastEntryOf
    <2>. QED
      BY <2>2 DEF S
  <1>2. ASSUME NEW ip, ip \notin Addresses(ps[n + 1])
        PROVE  ListingIn(ps, n + 1, ip) = ListingIn(ps, n, ip)
    BY <1>2 DEF ListingIn, Addresses
  <1>3. UNION {Addresses(ps[i]) : i \in 1 .. n + 1}
          = (UNION {Addresses(ps[i]) : i \in 1 .. n}) \union Addresses(ps[n + 1])
    <2>1. 1 .. n + 1 = 1 .. n \union {n + 1}
      OBVIOUS
    <2>. QED
      BY <2>1
  <1>. DEFINE U == UNION {Addresses(ps[i]) : i \in 1 .. n}
              A == Addresses(ps[n + 1])
              last(m, ip) == ps[LastEntry(ListingIn(ps, m, ip))].public
  <1>4. /\ AllowedIn(ps, n + 1, k) = {ip \in U \union A : last(n + 1, ip) = k}
        /\ AllowedIn(ps, n, k) = {ip \in U : last(n, ip) = k}
    BY <1>3 DEF AllowedIn
  <1>5. /\ \A ip \in A : last(n + 1, ip) = ps[n + 1].public
        /\ \A ip : ip \notin A => last(n + 1, ip) = last(n, ip)
    BY <1>1, <1>2
  <1>. HIDE DEF U, A, last
  <1>. QED
    BY <1>4, <1>5 DEF A

(* A key that no peer has has no address.                                     *)
LEMMA AllowedNone ==
  ASSUME NEW ps, NEW n, NEW k, n \in Nat, k \notin KeysIn(ps, n)
  PROVE  AllowedIn(ps, n, k) = {}
  <1>. SUFFICES ASSUME NEW ip \in AllowedIn(ps, n, k) PROVE FALSE
    OBVIOUS
  <1>. DEFINE S == ListingIn(ps, n, ip)
  <1>1. S \subseteq 1 .. n /\ S # {}
    BY DEF AllowedIn, ListingIn, Addresses
  <1>. HIDE DEF S
  <1>2. LastEntry(S) \in 1 .. n
    BY <1>1, LastEntryIs
  <1>3. ps[LastEntry(S)].public = k
    BY DEF AllowedIn, S
  <1>. QED
    BY <1>2, <1>3 DEF KeysIn

(* The address lines make the addresses what the peers so far mean.           *)
LEMMA AllAllowedStep ==
  ASSUME NEW ps, NEW n, NEW k, n \in Nat, k \in KeysIn(ps, n + 1)
  PROVE  Move(Known(AllAllowed(ps, n), KeysIn(ps, n), ps[n + 1].public, {}),
              KeysIn(ps, n + 1), ps[n + 1].public, Addresses(ps[n + 1]))[k]
           = AllAllowed(ps, n + 1)[k]
  <1>. DEFINE key == ps[n + 1].public
              K == KeysIn(ps, n)
              F == AllAllowed(ps, n)
              A == Addresses(ps[n + 1])
              old == AllowedIn(ps, n, k)
  <1>1. k \notin K => old = {}
    BY AllowedNone
  <1>2. AllowedIn(ps, n + 1, k) = IF k = key THEN old \union A ELSE old \ A
    BY AllowedStep
  <1>3. k \in K \union {key} /\ KeysIn(ps, n + 1) = K \union {key}
    BY KeysStep
  <1>4. k \in K => F[k] = old
    BY DEF AllAllowed
  <1>5. AllAllowed(ps, n + 1)[k] = AllowedIn(ps, n + 1, k)
    BY DEF AllAllowed
  <1>. HIDE DEF key, K, F, A, old
  <1>6. Known(F, K, key, {})[k] = old
    BY <1>1, <1>3, <1>4 DEF Known
  <1>7. Move(Known(F, K, key, {}), K \union {key}, key, A)[k]
          = IF k = key THEN old \union A ELSE old \ A
    BY <1>3, <1>6 DEF Move
  <1>. QED
    BY <1>2, <1>3, <1>5, <1>7 DEF key, K, F, A

---------------------------------------------------------------------------

(* f is the text of the first 1 to n sequences.                               *)
IsText(f, seqs, n) ==
  f = [i \in 1 .. n |-> IF i = 1 THEN seqs[i] ELSE f[i - 1] \o seqs[i]]

(* The recursion of FlattenSeq has a function, for any sequences.             *)
LEMMA TextExists ==
  ASSUME NEW seqs, NEW N, N \in Nat
  PROVE  \E f : IsText(f, seqs, N)
  <1>. DEFINE S == {n \in Nat : \E f : IsText(f, seqs, n)}
  <1>1. 0 \in S
    <2>. DEFINE f == [i \in 1 .. 0 |-> <<>>]
    <2>1. IsText(f, seqs, 0)
      BY DEF IsText
    <2>. QED
      BY <2>1
  <1>2. ASSUME NEW n \in Nat, n \in S PROVE n + 1 \in S
    <2>1. PICK f : IsText(f, seqs, n)
      BY <1>2
    <2>. DEFINE g == [i \in 1 .. n + 1 |->
                        IF i = 1 THEN seqs[1]
                        ELSE IF i = n + 1 THEN f[n] \o seqs[n + 1] ELSE f[i]]
    <2>2. ASSUME NEW i \in 1 .. n + 1
          PROVE  g[i] = IF i = 1 THEN seqs[i] ELSE g[i - 1] \o seqs[i]
      <3>1. CASE i = 1
        BY <3>1
      <3>2. CASE i # 1
        <4>1. i - 1 \in 1 .. n /\ g[i - 1] = f[i - 1]
          BY <2>1, <3>2 DEF IsText
        <4>2. CASE i = n + 1
          <5>1. n + 1 # 1 /\ n + 1 \in 1 .. n + 1
            BY <3>2, <4>2
          <5>2. g[n + 1] = f[n] \o seqs[n + 1]
            BY <5>1
          <5>3. i - 1 = n
            BY <4>2
          <5>. QED
            BY <3>2, <4>1, <4>2, <5>2, <5>3
        <4>3. CASE i # n + 1
          <5>1. i \in 1 .. n /\ g[i] = f[i]
            BY <3>2, <4>3
          <5>2. f[i] = f[i - 1] \o seqs[i]
            BY <2>1, <3>2, <5>1 DEF IsText
          <5>. QED
            BY <3>2, <4>1, <5>1, <5>2
        <4>. QED
          BY <4>2, <4>3
      <3>. QED
        BY <3>1, <3>2
    <2>3. g = [i \in 1 .. n + 1 |-> g[i]]
      OBVIOUS
    <2>. HIDE DEF g
    <2>4. IsText(g, seqs, n + 1)
      BY <2>2, <2>3 DEF IsText
    <2>. QED
      BY <2>4
  <1>. HIDE DEF S
  <1>3. N \in S
    BY <1>1, <1>2, NatSetInduction
  <1>. QED
    BY <1>3 DEF S

(* FlattenSeq is what it ends with.                                           *)
LEMMA FlattenIs ==
  ASSUME NEW seqs, NEW N, N \in Nat, N # 0, Len(seqs) = N
  PROVE  \E f : IsText(f, seqs, N) /\ FlattenSeq(seqs) = f[N]
  <1>. DEFINE f == CHOOSE f : IsText(f, seqs, N)
  <1>1. IsText(f, seqs, N)
    BY TextExists
  <1>2. FlattenSeq(seqs) = f[N]
    BY DEF FlattenSeq, IsText
  <1>. HIDE DEF f
  <1>. QED
    BY <1>1, <1>2

(* The lines of the next peer take the device from what the peers before it   *)
(* mean to what they mean with it.                                            *)
LEMMA UptoStep ==
  ASSUME NEW V, NEW ps, NEW n, n \in Nat, PeerIn(V, ps[n + 1])
  PROVE  IpcLines(Upto(ps, n), PeerLines(ps[n + 1])) = Upto(ps, n + 1)
  <1>. DEFINE p == ps[n + 1]
              K == KeysIn(ps, n)
              K1 == KeysIn(ps, n + 1)
              cur == IF n = 0 THEN Absent ELSE ps[n].public
              a == Fields(ps, n, "psk", Absent)
              b == Fields(ps, n, "endpoint", Absent)
              c == Fields(ps, n, "keepalive", 0)
              e == AllAllowed(ps, n)
              a1 == PutGiven(Known(a, K, p.public, Absent), K1, p.public, p.psk, Absent)
              b1 == PutGiven(Known(b, K, p.public, Absent), K1, p.public, p.endpoint, Absent)
              c1 == PutGiven(Known(c, K, p.public, 0), K1, p.public, p.keepalive, 0)
              e1 == Move(Known(e, K, p.public, {}), K1, p.public, Addresses(p))
  <1>1. K1 = K \union {p.public}
    BY KeysStep
  <1>2. IpcLines(Upto(ps, n), PeerLines(p)) = Dev(p.public, K1, a1, b1, c1, e1)
    <2>1. Upto(ps, n) = Dev(cur, K, a, b, c, e)
      BY DEF Upto
    <2>2. PeerIn(V, p)
      OBVIOUS
    <2>. HIDE DEF p, K, K1, cur, a, b, c, e
    <2>. QED
      BY <1>1, <2>1, <2>2, LinesOfPeer DEF Addresses
  <1>3. ASSUME NEW k \in K1
        PROVE  /\ a1[k] = Fields(ps, n + 1, "psk", Absent)[k]
               /\ b1[k] = Fields(ps, n + 1, "endpoint", Absent)[k]
               /\ c1[k] = Fields(ps, n + 1, "keepalive", 0)[k]
               /\ e1[k] = AllAllowed(ps, n + 1)[k]
    <2>1. a1[k] = Fields(ps, n + 1, "psk", Absent)[k]
      BY FieldsStep
    <2>2. b1[k] = Fields(ps, n + 1, "endpoint", Absent)[k]
      <3>1. PICK field : field = "endpoint"
        OBVIOUS
      <3>. DEFINE v == ps[n + 1][field]
      <3>2. PutGiven(Known(Fields(ps, n, field, Absent), K, p.public, Absent), K1, p.public, v,
                     Absent)[k]
              = Fields(ps, n + 1, field, Absent)[k]
        BY FieldsStep
      <3>3. v = p.endpoint
        BY <3>1
      <3>. HIDE DEF v, p, K, K1
      <3>. QED
        BY <3>1, <3>2, <3>3
    <2>3. c1[k] = Fields(ps, n + 1, "keepalive", 0)[k]
      BY FieldsStep
    <2>4. e1[k] = AllAllowed(ps, n + 1)[k]
      BY AllAllowedStep
    <2>. QED
      BY <2>1, <2>2, <2>3, <2>4
  <1>. HIDE DEF K1, a1, b1, c1, e1
  <1>4. Upto(ps, n + 1)
          = Dev(p.public, K1, Fields(ps, n + 1, "psk", Absent),
                Fields(ps, n + 1, "endpoint", Absent), Fields(ps, n + 1, "keepalive", 0),
                AllAllowed(ps, n + 1))
    BY DEF Upto, K1
  <1>. QED
    BY <1>2, <1>3, <1>4 DEF Dev

(* By induction over the peers, the lines of all of them make the device what *)
(* they mean.                                                                 *)
LEMMA PeersWritten ==
  ASSUME NEW V, NEW ps, NEW N, N \in Nat, DOMAIN ps = 1 .. N,
         \A i \in 1 .. N : PeerIn(V, ps[i])
  PROVE  /\ FlattenSeq([i \in DOMAIN ps |-> PeerLines(ps[i])]) \in Seq(Keyword \X V)
         /\ IpcLines(NewDevice, FlattenSeq([i \in DOMAIN ps |-> PeerLines(ps[i])])) = Upto(ps, N)
  <1>. DEFINE L == Keyword \X V
              seqs == [i \in DOMAIN ps |-> PeerLines(ps[i])]
  <1>1. Len(seqs) = N
    OBVIOUS
  <1>2. \A i \in 1 .. N : seqs[i] = PeerLines(ps[i]) /\ seqs[i] \in Seq(L)
    BY PeerLinesSeq
  <1>3. NewDevice = Upto(ps, 0)
    <2>1. 1 .. 0 = {} 
      OBVIOUS
    <2>. QED
      BY <2>1 DEF NewDevice, Upto, Dev, KeysIn
  <1>. HIDE DEF seqs, L
  <1>4. CASE N = 0
    <2>1. FlattenSeq(seqs) = <<>>
      BY <1>1, <1>4 DEF FlattenSeq, seqs
    <2>. QED
      BY <1>3, <1>4, <2>1, IpcLinesNone, EmptySeq DEF seqs, L
  <1>5. CASE N # 0
    <2>1. PICK f : IsText(f, seqs, N) /\ FlattenSeq(seqs) = f[N]
      BY <1>1, <1>5, FlattenIs
    <2>. DEFINE S == {n \in Nat : n + 1 \in 1 .. N =>
                        f[n + 1] \in Seq(L) /\ IpcLines(NewDevice, f[n + 1]) = Upto(ps, n + 1)}
    <2>2. 0 \in S
      <3>1. f[1] = PeerLines(ps[1]) /\ f[1] \in Seq(L)
        BY <1>2, <1>5, <2>1 DEF IsText
      <3>2. PICK m \in Nat : m = 0
        OBVIOUS
      <3>3. PeerIn(V, ps[m + 1])
        BY <1>5, <3>2
      <3>4. IpcLines(Upto(ps, m), PeerLines(ps[m + 1])) = Upto(ps, m + 1)
        BY <3>3, UptoStep
      <3>. QED
        BY <1>3, <3>1, <3>2, <3>4
    <2>3. ASSUME NEW n \in Nat, n \in S PROVE n + 1 \in S
      <3>. SUFFICES ASSUME n + 2 \in 1 .. N
                    PROVE  f[n + 2] \in Seq(L) /\ IpcLines(NewDevice, f[n + 2]) = Upto(ps, n + 2)
        OBVIOUS
      <3>1. n + 1 \in 1 .. N /\ n + 1 \in Nat
        OBVIOUS
      <3>2. f[n + 1] \in Seq(L) /\ IpcLines(NewDevice, f[n + 1]) = Upto(ps, n + 1)
        BY <2>3, <3>1
      <3>3. f[n + 2] = f[n + 1] \o seqs[n + 2]
        <4>. DEFINE m == n + 2
        <4>1. m \in 1 .. N /\ m # 1 /\ m - 1 = n + 1
          OBVIOUS
        <4>. HIDE DEF m
        <4>2. f[m] = f[m - 1] \o seqs[m]
          BY <2>1, <4>1 DEF IsText
        <4>. QED
          BY <4>1, <4>2 DEF m
      <3>4. seqs[n + 2] = PeerLines(ps[n + 2]) /\ seqs[n + 2] \in Seq(L)
        BY <1>2
      <3>5. IpcLines(Upto(ps, n + 1), PeerLines(ps[n + 2])) = Upto(ps, n + 2)
        <4>. DEFINE m == n + 1
        <4>1. m \in Nat /\ m + 1 = n + 2 /\ PeerIn(V, ps[m + 1])
          OBVIOUS
        <4>. HIDE DEF m
        <4>2. IpcLines(Upto(ps, m), PeerLines(ps[m + 1])) = Upto(ps, m + 1)
          BY <4>1, UptoStep
        <4>. QED
          BY <4>1, <4>2 DEF m
      <3>. QED
        BY <3>2, <3>3, <3>4, <3>5, ConcatProperties, IpcLinesConcat
    <2>. HIDE DEF S
    <2>4. N - 1 \in S
      BY <1>5, <2>2, <2>3, NatSetInduction
    <2>. QED
      BY <1>5, <2>1, <2>4 DEF S, seqs, L
  <1>. QED
    BY <1>4, <1>5

(* What wireguard-go makes of the text that uapiConfig renders of a config is *)
(* what the config means, for every config: as many peers as there are, with  *)
(* the same key, the same address or none.                                    *)
THEOREM WrittenIsMeant ==
  ASSUME NEW c, IsConfig(c)
  PROVE  IpcSet(uapiConfig(c)) = Meaning(c)
  <1>. DEFINE ps == c.peers
              V == {c.private}
                     \union {ps[i].public : i \in DOMAIN ps} \union {ps[i].psk : i \in DOMAIN ps}
                     \union {ps[i].endpoint : i \in DOMAIN ps}
                     \union {ps[i].keepalive : i \in DOMAIN ps}
                     \union (UNION {Range(ps[i].ips) : i \in DOMAIN ps})
              text == FlattenSeq([i \in DOMAIN ps |-> PeerLines(ps[i])])
              head == <<<<"private_key", c.private>>>>
              L == Keyword \X V
  <1>1. PICK N \in Nat : DOMAIN ps = 1 .. N
    BY LenProperties DEF IsConfig
  <1>2. ASSUME NEW i \in DOMAIN ps PROVE PeerIn(V, ps[i])
    <2>1. ps[i].ips \in Seq(Range(ps[i].ips)) /\ Range(ps[i].ips) \subseteq V
      BY DEF IsConfig
    <2>2. ps[i].public \in V /\ ps[i].psk \in V /\ ps[i].endpoint \in V /\ ps[i].keepalive \in V
      OBVIOUS
    <2>. HIDE DEF V
    <2>. QED
      BY <2>1, <2>2, SeqMonotonic DEF PeerIn
  <1>3. c.private \in V
    OBVIOUS
  <1>. HIDE DEF V
  <1>4. text \in Seq(L) /\ IpcLines(NewDevice, text) = Upto(ps, N)
    BY <1>1, <1>2, PeersWritten
  <1>5. head \in Seq(L)
    BY <1>3 DEF Keyword
  <1>6. uapiConfig(c) = head \o text
    BY DEF uapiConfig
  <1>7. IpcLines(NewDevice, head) = NewDevice
    BY IpcLinesOne, LineOfPrivate
  <1>8. IpcSet(uapiConfig(c)) = Upto(ps, N).peers
    <2>. HIDE DEF head, text, L, ps
    <2>. QED
      BY <1>4, <1>5, <1>6, <1>7, IpcLinesConcat DEF IpcSet
  <1>9. \A k, ip : AllowedIPs(c, k) = AllowedIn(ps, N, k)
    BY <1>1 DEF AllowedIPs, AllowedIn, Addresses, Listing, ListingIn
  <1>10. \A k, field, none : FieldOf(c, k, field, none) = Entry(ps, N, k, field, none)
    BY <1>1 DEF FieldOf, Entry, Entries
  <1>11. {ps[i].public : i \in DOMAIN ps} = KeysIn(ps, N)
    BY <1>1 DEF KeysIn
  <1>12. Meaning(c) = [k \in KeysIn(ps, N) |->
                        [psk |-> Entry(ps, N, k, "psk", Absent),
                         endpoint |-> Entry(ps, N, k, "endpoint", Absent),
                         keepalive |-> Entry(ps, N, k, "keepalive", 0),
                         ips |-> AllowedIn(ps, N, k)]]
    BY <1>9, <1>10, <1>11 DEF Meaning
  <1>13. Upto(ps, N).peers = [k \in KeysIn(ps, N) |->
                        [psk |-> Entry(ps, N, k, "psk", Absent),
                         endpoint |-> Entry(ps, N, k, "endpoint", Absent),
                         keepalive |-> Entry(ps, N, k, "keepalive", 0),
                         ips |-> AllowedIn(ps, N, k)]]
    BY DEF Upto, Dev, Fields, AllAllowed
  <1>. QED
    BY <1>8, <1>12, <1>13

---------------------------------------------------------------------------
(* The device has got its config.                                            *)

(* Past LoadConfig there is a config when MeshDialer runs, past Render it     *)
(* renders, and a device that is up was made from it.                         *)
ConfigInv ==
  /\ at \in MeshStep \union {"closer"} => wg \in WGConfigs
  /\ at \in {"apply", "up", "closer"} => Renders(wg)
  /\ dev = "up" => wg \in WGConfigs /\ Renders(wg)

(* Only Start and the end of the process change the config, and only Up makes *)
(* a device that is up.                                                       *)
LEMMA ConfigStep == TypeOK /\ HoldsInv /\ ConfigInv /\ [Next]_vars => ConfigInv'
  <1>. SUFFICES ASSUME TypeOK, HoldsInv, ConfigInv, [Next]_vars PROVE ConfigInv' OBVIOUS
  <1>. USE DEF TypeOK, HoldsInv, ConfigInv, Step, MeshStep, Goto, FailAt, goroutines
  <1>1. CASE Start
    BY <1>1 DEF Start
  <1>2. CASE LoadConfig \/ LoadWGConfig \/ Device \/ Render \/ Apply
    BY <1>2 DEF LoadConfig, LoadWGConfig, Device, Render, Apply
  <1>3. CASE Up \/ Closer \/ NewShell \/ RunGateway \/ Listen
    BY <1>3 DEF Up, Closer, NewShell, RunGateway, Listen
  <1>4. CASE Fail \/ FailDevice
    BY <1>4 DEF Fail, FailDevice
  <1>5. CASE CloseMesh \/ GatewayStops \/ ControlStops
    BY <1>5 DEF CloseMesh, GatewayStops, ControlStops
  <1>6. CASE Signal \/ Quit
    BY <1>6 DEF Signal, Quit
  <1>7. CASE Exit \/ Crash
    BY <1>7 DEF Exit, Crash, Gone
  <1>8. CASE UNCHANGED vars
    BY <1>8 DEF vars
  <1>. QED
    BY <1>1, <1>2, <1>3, <1>4, <1>5, <1>6, <1>7, <1>8 DEF Next, Setup

(* A device that is up has what its config means, peer by peer.               *)
THEOREM DeviceConfigured == Spec => []ConfiguredAsWritten
  <1>1. Init => ConfigInv
    BY DEF Init, ConfigInv, MeshStep
  <1>2. ConfigInv => ConfiguredAsWritten
    BY WGConfigsType, WrittenIsMeant DEF ConfigInv, ConfiguredAsWritten
  <1>. QED
    BY <1>1, <1>2, ConfigStep, HoldsInvariant, PTL DEF Spec

---------------------------------------------------------------------------
(* The whole setup is one step of Tray.                                      *)

(* The process that is down is that of Tray.                                 *)
LEMMA LifeInit == Init => Life!Init
  BY DEF Init, Life!Init, Life!Account

(* Each step is the one of Tray that its name says, or none.                 *)
LEMMA LifeStep == TypeOK /\ HoldsInv /\ [Next]_vars => [Life!Next]_(Life!vars)
  <1>. SUFFICES ASSUME TypeOK, HoldsInv, [Next]_vars PROVE [Life!Next]_(Life!vars) OBVIOUS
  <1>. USE DEF TypeOK, HoldsInv, Step, MeshStep, Life!envVars, Life!trayVars, Life!childVars
  <1>1. CASE Start
    <2>1. Life!Start(FALSE)
      BY <1>1 DEF Start, Life!Start
    <2>. QED
      BY <2>1 DEF Life!Next
  <1>2. CASE LoadConfig \/ LoadWGConfig \/ Device \/ Render \/ Apply \/ Up \/ Closer
               \/ NewShell \/ RunGateway
    <2>1. UNCHANGED Life!vars
      BY <1>2 DEF LoadConfig, LoadWGConfig, Device, Render, Apply, Up, Closer, NewShell,
                  RunGateway, Goto, Life!vars
    <2>. QED
      BY <2>1
  <1>3. CASE Listen
    <2>1. Life!Ready
      BY <1>3 DEF Listen, Goto, Life!Ready, Life!MenuFor
    <2>. QED
      BY <2>1 DEF Life!Next
  <1>4. CASE Fail \/ FailDevice
    <2>1. Life!SetupFails
      BY <1>4 DEF Fail, FailDevice, FailAt, Life!SetupFails
    <2>. QED
      BY <2>1 DEF Life!Next
  <1>5. CASE CloseMesh \/ GatewayStops \/ ControlStops
    <2>1. UNCHANGED Life!vars
      BY <1>5 DEF CloseMesh, GatewayStops, ControlStops, Life!vars
    <2>. QED
      BY <2>1
  <1>6. CASE Signal
    <2>1. Life!Signal
      BY <1>6 DEF Signal, Life!Signal
    <2>. QED
      BY <2>1 DEF Life!Next
  <1>7. CASE Quit
    <2>1. CASE ctxDone
      BY <1>7, <2>1 DEF Quit, Life!vars
    <2>2. CASE ~ctxDone
      <3>1. Life!Signal
        BY <1>7, <2>2 DEF Quit, Life!Signal
      <3>. QED
        BY <3>1 DEF Life!Next
    <2>. QED
      BY <2>1, <2>2
  <1>8. CASE Exit
    <2>1. Life!Shutdown
      BY <1>8 DEF Exit, Gone, Life!Shutdown, Life!Gone
    <2>. QED
      BY <2>1 DEF Life!Next
  <1>9. CASE Crash
    <2>1. Life!Crash
      BY <1>9 DEF Crash, Gone, Life!Crash, Life!Gone
    <2>. QED
      BY <2>1 DEF Life!Next
  <1>10. CASE UNCHANGED vars
    BY <1>10 DEF vars, Life!vars
  <1>. QED
    BY <1>1, <1>2, <1>3, <1>4, <1>5, <1>6, <1>7, <1>8, <1>9, <1>10 DEF Next, Setup

(* The setup, its failures and its end are a tray as Tray describes it.      *)
THEOREM StartupIsTrayLife == Spec => IsTrayLife
  BY LifeInit, LifeStep, HoldsInvariant, PTL DEF Spec, IsTrayLife, Life!Spec
=============================================================================
