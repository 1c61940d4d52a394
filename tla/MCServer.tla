------------------------------ MODULE MCServer ------------------------------
(* A small instance of Server for TLC. *)
EXTENDS Server, TLC

CONSTANTS c1, c2, c3

MCSession == {c1, c2, c3}

MCAsks ==
  (c1 :> {"session", "listen", "execute", "leave"}) @@
  (c2 :> {"session", "notify"}) @@
  (c3 :> {"session", "cancel", "listen", "leave"})
=============================================================================
