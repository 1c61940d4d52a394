----------------------------- MODULE MCSchemas -----------------------------
(* A session that runs the schema DDL and one that makes, fills and rebuilds *)
(* tables, with a search path.                                               *)
EXTENDS Schemas
CONSTANTS a, b, app, old, t

MCPaths == {<<app>>}
MCAsks == (a :> {"schemas"}) @@ (b :> {"tables", "alter", "path"})
=============================================================================
