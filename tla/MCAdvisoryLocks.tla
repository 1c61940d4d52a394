-------------------------- MODULE MCAdvisoryLocks --------------------------
(* A small instance of AdvisoryLocks for TLC. *)
EXTENDS AdvisoryLocks, TLC

CONSTANTS s1, s2, s3, k1, k2

MCSessions == {s1, s2, s3}
MCXactOnly == {s3}
=============================================================================
