---------------------------- MODULE Connections ----------------------------
(* The connections of a server, named as the sessions they may become.     *)

CONSTANTS Session,   \* connections, each used once
          NoSession  \* no connection

ASSUME ConnectionsAssumption == NoSession \notin Session
=============================================================================
