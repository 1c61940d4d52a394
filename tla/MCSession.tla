----------------------------- MODULE MCSession -----------------------------
(* A small instance of Session for TLC. *)
EXTENDS Session, TLC

MCQueries ==
  {<<k>> : k \in Kinds} \cup
  {<<"WRITE", "WRITE">>, <<"WRITE", "EXECUTE">>, <<"SCHEMA", "WRITE">>,
   <<"WRITE", "DDL">>, <<"WRITE", "COPY">>, <<"WRITE", "DATABASE">>,
   <<"BEGIN", "WRITE">>, <<"WRITE", "COMMIT">>}

MCParsed == {"BEGIN", "COMMIT", "WRITE", "READ", "COMMENT", "DATABASE", "EXECUTE"}
=============================================================================
