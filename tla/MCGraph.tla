------------------------------- MODULE MCGraph -------------------------------
(* The instance of the entity graph that TLC checks.                        *)
EXTENDS Graph, TLC

\* Sound: nothing tells wallets apart, and there is no liveness.
Alike == Permutations(Wallets)
=============================================================================
