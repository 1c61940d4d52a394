----------------------------- MODULE MCCluster -----------------------------
(* A small instance of Cluster for TLC. *)
EXTENDS Cluster, TLC

CONSTANTS c1, c2, c3, app, shop, postgres

MCClients == {c1, c2, c3}
MCNames == {postgres, app, shop}
=============================================================================
