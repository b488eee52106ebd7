---------------------------- MODULE MCExecution ----------------------------
(* Constants of the small instances of Execution. *)
EXTENDS Execution, TLC

CONSTANTS i1, i2, s1, s2, k1

OwnStrategy == [i \in Intents |-> IF i = i1 THEN s1 ELSE s2]
OneSymbol == [i \in Intents |-> k1]
\* i1 buys and i2 sells, so that positions flip.
Opposed == [i \in Intents |-> IF i = i1 THEN 1 ELSE -1]
One == [i \in Intents |-> 1]
TwoAndOne == [i \in Intents |-> IF i = i1 THEN 2 ELSE 1]
Alike == Permutations(Traders) \cup Permutations(Handlers)
=============================================================================
