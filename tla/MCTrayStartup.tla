--------------------------- MODULE MCTrayStartup ---------------------------
(* Configs of up to two peers, which may have the same key or address.      *)
EXTENDS TrayStartup

CONSTANTS k1, k2, s1, e1, ip1, ip2

Peers == [public : {k1, k2, Bad}, psk : {Absent, s1, Bad}, endpoint : {Absent, e1},
          keepalive : {0, 25}, ips : {<<>>, <<ip1>>, <<ip1, ip2>>}]

MCWGConfigs == [private : {k1}, peers : {<<>>} \union [{1} -> Peers] \union [{1, 2} -> Peers]]
                 \union [private : {Bad}, peers : {<<>>}]
=============================================================================
