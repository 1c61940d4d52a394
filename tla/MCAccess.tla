------------------------------ MODULE MCAccess ------------------------------
(* The default role's session and one of a role that may be managed or not.   *)
EXTENDS Access
CONSTANTS a, b, boss, u, g, t

MCAuthUser == (a :> boss) @@ (b :> u)
MCGiven == { [super |-> FALSE, createrole |-> TRUE, inherit |-> TRUE],
             [super |-> TRUE, createrole |-> FALSE, inherit |-> FALSE] }
MCAsks == (a :> {"roles", "tables"}) @@ (b :> {"members", "tables", "identity", "rights"})
=============================================================================
