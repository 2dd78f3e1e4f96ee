--------------------------- MODULE WireGuardUAPI ---------------------------
(***************************************************************************)
(* The configuration that uapiConfig (wgmesh.go) renders for the WireGuard *)
(* device, and what the device makes of it.  The format is line by line:   *)
(* a public_key line names the peer that the lines after it are about, so  *)
(* the order in which the fields of a peer are rendered matters.           *)
(***************************************************************************)
EXTENDS Naturals, Sequences, SequencesExt

CONSTANTS Absent,  \* an optional field that is left out
          Bad      \* a key that is not base64

(* Of a config: [private, peers], where a peer has the fields public, psk,    *)
(* endpoint, keepalive (0 for none; the code takes a negative one for none    *)
(* too, which is left out) and ips, a sequence.                               *)
IsConfig(c) == /\ c.peers \in Seq(Range(c.peers))
               /\ \A i \in DOMAIN c.peers : c.peers[i].ips \in Seq(Range(c.peers[i].ips))

(* uapiConfig returns an error, and no text, for any key that does not decode.*)
Renders(c) == /\ c.private # Bad
              /\ \A i \in DOMAIN c.peers : c.peers[i].public # Bad /\ c.peers[i].psk # Bad

Given(key, value, none) == IF value = none THEN <<>> ELSE <<<<key, value>>>>

(* Mutant of PeerLines: the key of the peer comes after its preshared key.    *)
PeerLinesKeySecond(p) ==
  Given("preshared_key", p.psk, Absent)
    \o <<<<"public_key", p.public>>>>
    \o Given("endpoint", p.endpoint, Absent)
    \o Given("persistent_keepalive_interval", p.keepalive, 0)
    \o [i \in DOMAIN p.ips |-> <<"allowed_ip", p.ips[i]>>]

PeerLines(p) ==
  <<<<"public_key", p.public>>>>
    \o Given("preshared_key", p.psk, Absent)
    \o Given("endpoint", p.endpoint, Absent)
    \o Given("persistent_keepalive_interval", p.keepalive, 0)
    \o [i \in DOMAIN p.ips |-> <<"allowed_ip", p.ips[i]>>]

uapiConfig(c) ==
  <<<<"private_key", c.private>>>>
    \o FlattenSeq([i \in DOMAIN c.peers |-> PeerLines(c.peers[i])])

---------------------------------------------------------------------------
(* The device: its peers, as a function of their keys, after each line.      *)

Fresh == [psk |-> Absent, endpoint |-> Absent, keepalive |-> 0, ips |-> {}]

(* A peer is made when its key is named first, and an address belongs to the  *)
(* peer that was given it last.                                               *)
IpcLine(d, key, value) ==
  CASE key = "private_key" -> d
    [] key = "public_key" ->
         [current |-> value,
          peers |-> [k \in DOMAIN d.peers \union {value} |->
                       IF k \in DOMAIN d.peers THEN d.peers[k] ELSE Fresh]]
    [] key = "preshared_key" -> [d EXCEPT !.peers[d.current].psk = value]
    [] key = "endpoint" -> [d EXCEPT !.peers[d.current].endpoint = value]
    [] key = "persistent_keepalive_interval" ->
         [d EXCEPT !.peers[d.current].keepalive = value]
    [] key = "allowed_ip" ->
         [d EXCEPT !.peers = [k \in DOMAIN d.peers |->
            [d.peers[k] EXCEPT !.ips = IF k = d.current THEN @ \union {value} ELSE @ \ {value}]]]

(* What the device is after the lines, from what it is before them.           *)
IpcLines(d, lines) ==
  LET after[n \in 0 .. Len(lines)] ==
        IF n = 0 THEN d ELSE IpcLine(after[n - 1], lines[n][1], lines[n][2])
  IN  after[Len(lines)]

NewDevice == [current |-> Absent, peers |-> [k \in {} |-> Fresh]]

IpcSet(lines) == IpcLines(NewDevice, lines).peers

---------------------------------------------------------------------------
(* What a config means, without any order of lines: the entries with the key  *)
(* of a peer are about it, a later one over an earlier one.                   *)

LastEntry(S) == CHOOSE i \in S : \A j \in S : j <= i

FieldOf(c, k, field, none) ==
  LET S == {i \in DOMAIN c.peers : c.peers[i].public = k /\ c.peers[i][field] # none}
  IN  IF S = {} THEN none ELSE c.peers[LastEntry(S)][field]

Listing(c, ip) == {i \in DOMAIN c.peers : \E n \in DOMAIN c.peers[i].ips : c.peers[i].ips[n] = ip}

AllowedIPs(c, k) ==
  {ip \in UNION {{c.peers[i].ips[n] : n \in DOMAIN c.peers[i].ips} : i \in DOMAIN c.peers} :
     c.peers[LastEntry(Listing(c, ip))].public = k}

Meaning(c) ==
  [k \in {c.peers[i].public : i \in DOMAIN c.peers} |->
     [psk |-> FieldOf(c, k, "psk", Absent),
      endpoint |-> FieldOf(c, k, "endpoint", Absent),
      keepalive |-> FieldOf(c, k, "keepalive", 0),
      ips |-> AllowedIPs(c, k)]]
=============================================================================
