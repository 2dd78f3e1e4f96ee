--------------------------- MODULE MCClusterMenu ---------------------------
(* Two clusters with a datacenter each.                                     *)
EXTENDS ClusterMenu, TLC

CONSTANTS c1, c2, d1, d2

MCClusterOf == d1 :> c1 @@ d2 :> c2
=============================================================================
