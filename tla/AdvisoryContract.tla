-------------------------- MODULE AdvisoryContract --------------------------
(***************************************************************************)
(* What the advisory locks of protocol/postgres/advisory.go promise, with  *)
(* the counting, the waiting and the transactions left out: a lock is      *)
(* granted to sessions in one of two modes, and never to two sessions in   *)
(* modes that conflict.                                                    *)
(***************************************************************************)
CONSTANTS Sessions, Keys

VARIABLE granted   \* triples <<session, key, shared>>

Modes == BOOLEAN   \* TRUE for the _shared functions, FALSE for exclusive

Grants == Sessions \X Keys \X Modes

\* Nobody else has the lock, or everybody's mode and the new one are shared.
Compatible(s, k, sh) ==
  \A g \in granted : g[2] = k /\ g[1] # s => g[3] /\ sh

Init == granted = {}

Grant(s, k, sh) ==
  /\ Compatible(s, k, sh)
  /\ granted' = granted \cup {<<s, k, sh>>}

Return(s, k, sh) == granted' = granted \ {<<s, k, sh>>}

ReturnAll(s) == granted' = {g \in granted : g[1] # s}

Next ==
  \E s \in Sessions :
    \/ ReturnAll(s)
    \/ \E k \in Keys, sh \in Modes : Grant(s, k, sh) \/ Return(s, k, sh)

Spec == Init /\ [][Next]_granted

TypeOK == granted \subseteq Grants

\* Two sessions have the same lock only when both have it shared.
Exclusion ==
  \A g, h \in granted : g[2] = h[2] /\ g[1] # h[1] => g[3] /\ h[3]
=============================================================================
