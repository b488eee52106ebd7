------------------------------ MODULE MCHunter ------------------------------
(* Constants of the small instances of Hunter. *)
EXTENDS Hunter, TLC

CONSTANTS p1, p2, p3, m1, m2, m3

OwnMint == [p \in Positions |-> CASE p = p1 -> m1 [] p = p2 -> m2 [] OTHER -> m3]
\* Sound with SameMint and without liveness: nothing tells positions apart.
Alike == Permutations(Positions) \cup Permutations(Dexes)

SameMint == [p \in Positions |-> m1]
=============================================================================
