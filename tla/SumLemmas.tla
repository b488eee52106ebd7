------------------------------ MODULE SumLemmas ------------------------------
(* What the sums of the model are, which are SumFunctionOnSet of the          *)
(* community module Functions: a fold over a finite set in an order that      *)
(* CHOOSE picks.  The proofs go by least counterexample.                      *)
EXTENDS Integers, FiniteSets, Functions, FiniteSetTheorems, WellFoundedInduction, TLAPS

\* A set of natural numbers has a least one.
LEMMA LeastNumber ==
    ASSUME NEW T \in SUBSET Nat, T # {}
    PROVE  \E n \in T : \A m \in T : n <= m
<1> DEFINE less == OpToRel(<, Nat)
<1>1. \E n \in T : \A m \in T : <<m, n>> \notin less
    BY NatLessThanWellFounded, WFMin
<1>2. \A m, n \in Nat : m < n => <<m, n>> \in less
    BY DEF OpToRel
<1> HIDE DEF less
<1>3. PICK n \in T : \A m \in T : <<m, n>> \notin less
    BY <1>1
<1>4. ASSUME NEW m \in T PROVE n <= m
    <2>1. m \in Nat /\ n \in Nat /\ ~(m < n)
        BY <1>2, <1>3
    <2> QED
        BY <2>1
<1> QED
    BY <1>4

\* The equation that the sums over the subsets of S satisfy.
Sums(f, S, g) ==
    g = [s \in SUBSET S |->
            IF s = {} THEN 0 ELSE LET x == CHOOSE x \in s : TRUE IN f[x] + g[s \ {x}]]

\* A sum is what CHOOSE picks for the set itself.
LEMMA SumIsChosen ==
    ASSUME NEW f, NEW S
    PROVE  SumFunctionOnSet(f, S) = (CHOOSE g : Sums(f, S, g))[S]
  BY DEF SumFunctionOnSet, FoldFunctionOnSet, MapThenFoldSet, Sums

\* Induction over the size of a finite set.
LEMMA SmallestFinite ==
    ASSUME NEW C, C # {}, \A s \in C : IsFiniteSet(s)
    PROVE  \E s \in C : \A t \in C : Cardinality(s) <= Cardinality(t)
<1> DEFINE T == {Cardinality(s) : s \in C}
<1>1. T \in SUBSET Nat /\ T # {}
    BY FS_CardinalityType
<1>2. PICK n \in T : \A m \in T : n <= m
    BY <1>1, LeastNumber
<1> QED
    BY <1>2

Rest(s) == s \ {CHOOSE x \in s : TRUE}

\* The rest of a finite set has one element less.
LEMMA RestSmaller ==
    ASSUME NEW s, IsFiniteSet(s), s # {}
    PROVE  /\ (CHOOSE x \in s : TRUE) \in s
           /\ Rest(s) \in SUBSET s /\ IsFiniteSet(Rest(s))
           /\ Cardinality(Rest(s)) = Cardinality(s) - 1
           /\ Cardinality(s) \in Nat
  BY FS_RemoveElement, FS_CardinalityType DEF Rest

\* Two families of sums on finite sets are the same.
LEMMA SumsUnique ==
    ASSUME NEW f, NEW S, NEW T \in SUBSET S, IsFiniteSet(S), NEW g, NEW h, Sums(f, S, g), Sums(f, T, h)
    PROVE  \A s \in SUBSET T : g[s] = h[s]
<1> DEFINE C == {s \in SUBSET T : g[s] # h[s]}
<1>1. SUFFICES ASSUME C # {} PROVE FALSE
    OBVIOUS
<1>2. PICK s \in C : \A t \in C : Cardinality(s) <= Cardinality(t)
    BY <1>1, SmallestFinite, FS_Subset
<1>3. s # {}
    BY DEF Sums
<1>4. Rest(s) \in SUBSET T /\ Rest(s) \notin C
    BY <1>2, <1>3, RestSmaller, FS_Subset
<1>5. g[s] = f[CHOOSE x \in s : TRUE] + g[Rest(s)] /\ h[s] = f[CHOOSE x \in s : TRUE] + h[Rest(s)]
    BY <1>3 DEF Sums, Rest
<1> QED
    BY <1>4, <1>5

\* What satisfies the equation on each subset is such a family.
LEMMA SumsFrom ==
    ASSUME NEW f, NEW s, NEW g, g = [t \in SUBSET s |-> g[t]],
           \A t \in SUBSET s : g[t] = IF t = {} THEN 0 ELSE f[CHOOSE x \in t : TRUE] + g[Rest(t)]
    PROVE  Sums(f, s, g)
<1>1. [t \in SUBSET s |-> g[t]]
      = [t \in SUBSET s |-> IF t = {} THEN 0 ELSE f[CHOOSE x \in t : TRUE] + g[Rest(t)]]
    OBVIOUS
<1> QED BY <1>1 DEF Sums, Rest

\* The sums exist.
LEMMA SumsExist ==
    ASSUME NEW f, NEW S, IsFiniteSet(S)
    PROVE  \E g : Sums(f, S, g)
<1> DEFINE C == {s \in SUBSET S : ~\E g : Sums(f, s, g)}
<1>1. SUFFICES ASSUME C # {} PROVE FALSE
    BY DEF C
<1>2. PICK s \in C : \A t \in C : Cardinality(s) <= Cardinality(t)
    BY <1>1, SmallestFinite, FS_Subset
<1>3. IsFiniteSet(s) /\ \A t \in SUBSET s : IsFiniteSet(t)
    BY FS_Subset
<1> DEFINE G(t) == CHOOSE g : Sums(f, t, g)
           g == [t \in SUBSET s |-> IF t = {} THEN 0
                    ELSE f[CHOOSE x \in t : TRUE] + G(Rest(t))[Rest(t)]]
<1>4. \A t \in SUBSET s : t # {} => Rest(t) \in SUBSET s /\ Rest(t) \in SUBSET t /\ Sums(f, Rest(t), G(Rest(t)))
    <2> SUFFICES ASSUME NEW t \in SUBSET s, t # {}
                 PROVE  Rest(t) \in SUBSET t /\ \E h : Sums(f, Rest(t), h)
        OBVIOUS
    <2>1. Rest(t) \in SUBSET t /\ Cardinality(Rest(t)) < Cardinality(t) /\ Cardinality(t) <= Cardinality(s)
        BY <1>3, RestSmaller, FS_Subset, FS_CardinalityType
    <2>2. Cardinality(Rest(t)) \in Nat /\ Cardinality(t) \in Nat /\ Cardinality(s) \in Nat
        BY <1>3, <2>1, FS_CardinalityType
    <2> QED
        BY <1>2, <2>1, <2>2
<1> HIDE DEF G
<1>5. ASSUME NEW t \in SUBSET s, t # {} PROVE g[Rest(t)] = G(Rest(t))[Rest(t)]
    <2>1. CASE Rest(t) = {}
        <3>1. G(Rest(t))[{}] = 0
            BY <1>4, <1>5, <2>1 DEF Sums
        <3> QED
            BY <2>1, <3>1
    <2>2. CASE Rest(t) # {}
        <3> DEFINE u == Rest(t)
        <3>1. u \in SUBSET s /\ Rest(u) \in SUBSET u /\ Sums(f, u, G(u)) /\ Sums(f, Rest(u), G(Rest(u)))
            BY <1>4, <1>5, <2>2
        <3>2. G(u)[Rest(u)] = G(Rest(u))[Rest(u)]
            BY <1>3, <3>1, SumsUnique
        <3>3. G(u)[u] = f[CHOOSE x \in u : TRUE] + G(u)[Rest(u)]
            BY <3>1, <2>2 DEF Sums, Rest
        <3>4. g[u] = f[CHOOSE x \in u : TRUE] + G(Rest(u))[Rest(u)]
            BY <3>1, <2>2
        <3> QED
            BY <3>2, <3>3, <3>4
    <2> QED
        BY <2>1, <2>2
<1>6. \A t \in SUBSET s : t # {} => g[Rest(t)] = G(Rest(t))[Rest(t)]
    BY <1>5
<1>7. \A t \in SUBSET s : g[t] = IF t = {} THEN 0 ELSE f[CHOOSE x \in t : TRUE] + g[Rest(t)]
    <2> SUFFICES ASSUME NEW t \in SUBSET s
                 PROVE  g[t] = IF t = {} THEN 0 ELSE f[CHOOSE x \in t : TRUE] + g[Rest(t)]
        OBVIOUS
    <2>1. g[t] = IF t = {} THEN 0 ELSE f[CHOOSE x \in t : TRUE] + G(Rest(t))[Rest(t)]
        OBVIOUS
    <2> HIDE DEF g
    <2>2. CASE t = {}
        BY <2>1, <2>2
    <2>3. CASE t # {}
        <3>1. g[t] = f[CHOOSE x \in t : TRUE] + G(Rest(t))[Rest(t)]
            BY <2>1, <2>3
        <3>2. g[t] = f[CHOOSE x \in t : TRUE] + g[Rest(t)]
            BY <3>1, <1>6, <2>3
        <3> QED BY <2>3, <3>2
    <2> QED BY <2>2, <2>3
<1>8. g = [t \in SUBSET s |-> g[t]]
    OBVIOUS
<1> HIDE DEF g
<1>9. Sums(f, s, g)
    BY <1>7, <1>8, SumsFrom
<1> QED
    BY <1>9

\* A sum by its first element: the equation the fold is defined by.
LEMMA SumEquation ==
    ASSUME NEW f, NEW S, IsFiniteSet(S)
    PROVE  SumFunctionOnSet(f, S) =
               IF S = {} THEN 0
               ELSE f[CHOOSE x \in S : TRUE] + SumFunctionOnSet(f, Rest(S))
<1> DEFINE G(t) == CHOOSE g : Sums(f, t, g)
<1>1. \A t \in SUBSET S : Sums(f, t, G(t)) /\ SumFunctionOnSet(f, t) = G(t)[t]
    BY SumsExist, SumIsChosen, FS_Subset
<1> HIDE DEF G
<1>2. CASE S = {}
    BY <1>1, <1>2 DEF Sums
<1>3. CASE S # {}
    <2>1. Rest(S) \in SUBSET S
        BY <1>3, RestSmaller
    <2>2. G(S)[S] = f[CHOOSE x \in S : TRUE] + G(S)[Rest(S)]
        BY <1>1, <1>3, <2>1 DEF Sums, Rest
    <2>3. G(S)[Rest(S)] = G(Rest(S))[Rest(S)]
        BY <1>1, <2>1, SumsUnique
    <2> QED
        BY <1>1, <1>3, <2>1, <2>2, <2>3
<1> QED
    BY <1>2, <1>3

\* The sum of nothing.
LEMMA SumEmpty ==
    ASSUME NEW f
    PROVE  SumFunctionOnSet(f, {}) = 0
  BY SumEquation, FS_EmptySet

\* A sum of integers is one.
LEMMA SumInt ==
    ASSUME NEW f, NEW S, IsFiniteSet(S), \A x \in S : f[x] \in Int
    PROVE  SumFunctionOnSet(f, S) \in Int
<1> DEFINE C == {s \in SUBSET S : SumFunctionOnSet(f, s) \notin Int}
<1>1. SUFFICES ASSUME C # {} PROVE FALSE
    OBVIOUS
<1>2. PICK s \in C : \A t \in C : Cardinality(s) <= Cardinality(t)
    BY <1>1, SmallestFinite, FS_Subset
<1>3. IsFiniteSet(s) /\ SumFunctionOnSet(f, s) \notin Int
    BY FS_Subset
<1>4. s # {}
    BY <1>3, SumEmpty
<1>5. Rest(s) \in SUBSET S /\ Rest(s) \notin C /\ (CHOOSE x \in s : TRUE) \in S
    BY <1>2, <1>3, <1>4, RestSmaller
<1>6. SumFunctionOnSet(f, s) = f[CHOOSE x \in s : TRUE] + SumFunctionOnSet(f, Rest(s))
    BY <1>3, <1>4, SumEquation
<1>7. SumFunctionOnSet(f, Rest(s)) \in Int /\ f[CHOOSE x \in s : TRUE] \in Int
    BY <1>5
<1> QED BY <1>3, <1>6, <1>7

\* Any term may be taken out of a sum.
LEMMA SumRemove ==
    ASSUME NEW f, NEW S, IsFiniteSet(S), \A x \in S : f[x] \in Int, NEW x \in S
    PROVE  SumFunctionOnSet(f, S) = f[x] + SumFunctionOnSet(f, S \ {x})
<1> DEFINE Splits(s) == \A y \in s : SumFunctionOnSet(f, s) = f[y] + SumFunctionOnSet(f, s \ {y})
           C == {s \in SUBSET S : ~Splits(s)}
<1>1. SUFFICES ASSUME C # {} PROVE FALSE
    OBVIOUS
<1>2. PICK s \in C : \A t \in C : Cardinality(s) <= Cardinality(t)
    BY <1>1, SmallestFinite, FS_Subset
<1>3. PICK y \in s : SumFunctionOnSet(f, s) # f[y] + SumFunctionOnSet(f, s \ {y})
    OBVIOUS
<1>4. IsFiniteSet(s) /\ s \in SUBSET S
    BY FS_Subset
<1> DEFINE c == CHOOSE z \in s : TRUE
<1>5. c \in s /\ Rest(s) = s \ {c}
    BY <1>3 DEF Rest
<1> HIDE DEF c
<1>6. SumFunctionOnSet(f, s) = f[c] + SumFunctionOnSet(f, s \ {c})
    BY <1>3, <1>4, <1>5, SumEquation DEF c
<1>7. c # y
    BY <1>3, <1>6
<1>8. \A z \in s : Splits(s \ {z})
    <2> SUFFICES ASSUME NEW z \in s PROVE s \ {z} \notin C
        BY <1>4
    <2>1. Cardinality(s \ {z}) = Cardinality(s) - 1 /\ Cardinality(s) \in Nat
        BY <1>4, FS_RemoveElement, FS_CardinalityType
    <2> QED BY <1>2, <2>1
<1>9. (s \ {c}) \ {y} = (s \ {y}) \ {c}
    OBVIOUS
<1>10. /\ SumFunctionOnSet(f, s \ {c}) = f[y] + SumFunctionOnSet(f, (s \ {y}) \ {c})
       /\ SumFunctionOnSet(f, s \ {y}) = f[c] + SumFunctionOnSet(f, (s \ {y}) \ {c})
    BY <1>5, <1>7, <1>8, <1>9
<1>11. SumFunctionOnSet(f, (s \ {y}) \ {c}) \in Int /\ f[c] \in Int /\ f[y] \in Int
    BY <1>4, <1>5, SumInt, FS_Subset
<1> QED BY <1>3, <1>6, <1>10, <1>11

\* Sums of the same summands.
LEMMA SumEqual ==
    ASSUME NEW f, NEW g, NEW S, IsFiniteSet(S), \A x \in S : f[x] = g[x]
    PROVE  SumFunctionOnSet(f, S) = SumFunctionOnSet(g, S)
<1> DEFINE C == {s \in SUBSET S : SumFunctionOnSet(f, s) # SumFunctionOnSet(g, s)}
<1>1. SUFFICES ASSUME C # {} PROVE FALSE
    OBVIOUS
<1>2. PICK s \in C : \A t \in C : Cardinality(s) <= Cardinality(t)
    BY <1>1, SmallestFinite, FS_Subset
<1>3. IsFiniteSet(s) /\ SumFunctionOnSet(f, s) # SumFunctionOnSet(g, s)
    BY FS_Subset
<1>4. s # {}
    BY <1>3, SumEmpty
<1>5. Rest(s) \in SUBSET S /\ Rest(s) \notin C /\ (CHOOSE x \in s : TRUE) \in S
    BY <1>2, <1>3, <1>4, RestSmaller
<1>6. /\ SumFunctionOnSet(f, s) = f[CHOOSE x \in s : TRUE] + SumFunctionOnSet(f, Rest(s))
      /\ SumFunctionOnSet(g, s) = g[CHOOSE x \in s : TRUE] + SumFunctionOnSet(g, Rest(s))
    BY <1>3, <1>4, SumEquation
<1> QED BY <1>3, <1>5, <1>6

\* One summand changes.
LEMMA SumChange ==
    ASSUME NEW f, NEW g, NEW S, IsFiniteSet(S), NEW x \in S,
           \A y \in S : f[y] \in Int /\ g[y] \in Int, \A y \in S \ {x} : f[y] = g[y]
    PROVE  SumFunctionOnSet(g, S) = SumFunctionOnSet(f, S) + g[x] - f[x]
<1>1. /\ SumFunctionOnSet(f, S) = f[x] + SumFunctionOnSet(f, S \ {x})
      /\ SumFunctionOnSet(g, S) = g[x] + SumFunctionOnSet(g, S \ {x})
    BY SumRemove
<1>2. IsFiniteSet(S \ {x})
    BY FS_Subset
<1>3. SumFunctionOnSet(f, S \ {x}) = SumFunctionOnSet(g, S \ {x})
    BY <1>2, SumEqual
<1>4. SumFunctionOnSet(f, S \ {x}) \in Int
    BY <1>2, SumInt
<1> QED BY <1>1, <1>3, <1>4

\* One summand more.
LEMMA SumAdd ==
    ASSUME NEW f, NEW S, IsFiniteSet(S), NEW x, x \notin S, \A y \in S \cup {x} : f[y] \in Int
    PROVE  SumFunctionOnSet(f, S \cup {x}) = f[x] + SumFunctionOnSet(f, S)
<1>1. IsFiniteSet(S \cup {x}) /\ (S \cup {x}) \ {x} = S
    BY FS_AddElement
<1> QED BY <1>1, SumRemove

\* The other summands are those of another function.
LEMMA SumMore ==
    ASSUME NEW f, NEW g, NEW S, IsFiniteSet(S), NEW x, x \notin S,
           \A y \in S \cup {x} : g[y] \in Int, \A y \in S : f[y] = g[y]
    PROVE  SumFunctionOnSet(g, S \cup {x}) = SumFunctionOnSet(f, S) + g[x]
<1>1. SumFunctionOnSet(g, S \cup {x}) = g[x] + SumFunctionOnSet(g, S)
    BY SumAdd
<1>2. SumFunctionOnSet(f, S) = SumFunctionOnSet(g, S)
    BY SumEqual
<1>3. SumFunctionOnSet(g, S) \in Int
    BY SumInt
<1> QED BY <1>1, <1>2, <1>3

\* The sum without one element, when the others are as before.
LEMMA SumLess ==
    ASSUME NEW f, NEW g, NEW S, IsFiniteSet(S), NEW x \in S,
           \A y \in S : f[y] \in Int, \A y \in S \ {x} : f[y] = g[y]
    PROVE  SumFunctionOnSet(g, S \ {x}) = SumFunctionOnSet(f, S) - f[x]
<1>1. SumFunctionOnSet(f, S) = f[x] + SumFunctionOnSet(f, S \ {x})
    BY SumRemove
<1>2. IsFiniteSet(S \ {x})
    BY FS_Subset
<1>3. SumFunctionOnSet(f, S \ {x}) = SumFunctionOnSet(g, S \ {x})
    BY <1>2, SumEqual
<1>4. SumFunctionOnSet(f, S \ {x}) \in Int
    BY <1>2, SumInt
<1> QED BY <1>1, <1>3, <1>4

\* Larger summands, larger sum.
LEMMA SumMonotone ==
    ASSUME NEW f, NEW g, NEW S, IsFiniteSet(S),
           \A x \in S : f[x] \in Int /\ g[x] \in Int /\ f[x] <= g[x]
    PROVE  SumFunctionOnSet(f, S) <= SumFunctionOnSet(g, S)
<1> DEFINE C == {s \in SUBSET S : ~(SumFunctionOnSet(f, s) <= SumFunctionOnSet(g, s))}
<1>1. SUFFICES ASSUME C # {} PROVE FALSE
    OBVIOUS
<1>2. PICK s \in C : \A t \in C : Cardinality(s) <= Cardinality(t)
    BY <1>1, SmallestFinite, FS_Subset
<1>3. IsFiniteSet(s) /\ ~(SumFunctionOnSet(f, s) <= SumFunctionOnSet(g, s))
    BY FS_Subset
<1>4. s # {}
    BY <1>3, SumEmpty
<1>5. Rest(s) \in SUBSET S /\ Rest(s) \notin C /\ (CHOOSE x \in s : TRUE) \in S
    BY <1>2, <1>3, <1>4, RestSmaller
<1>6. /\ SumFunctionOnSet(f, s) = f[CHOOSE x \in s : TRUE] + SumFunctionOnSet(f, Rest(s))
      /\ SumFunctionOnSet(g, s) = g[CHOOSE x \in s : TRUE] + SumFunctionOnSet(g, Rest(s))
    BY <1>3, <1>4, SumEquation
<1>7. IsFiniteSet(Rest(s)) /\ SumFunctionOnSet(f, Rest(s)) \in Int /\ SumFunctionOnSet(g, Rest(s)) \in Int
    BY <1>5, SumInt, FS_Subset
<1> DEFINE c == CHOOSE x \in s : TRUE
           F == SumFunctionOnSet(f, Rest(s))
           G == SumFunctionOnSet(g, Rest(s))
<1>8. F <= G /\ F \in Int /\ G \in Int /\ f[c] \in Int /\ g[c] \in Int /\ f[c] <= g[c]
    BY <1>5, <1>7
<1>9. SumFunctionOnSet(f, s) = f[c] + F /\ SumFunctionOnSet(g, s) = g[c] + G
    BY <1>6
<1> HIDE DEF c, F, G
<1> QED BY <1>3, <1>8, <1>9

\* Nothing to sum.
LEMMA SumZero ==
    ASSUME NEW f, NEW S, IsFiniteSet(S), \A x \in S : f[x] = 0
    PROVE  SumFunctionOnSet(f, S) = 0
<1> DEFINE C == {s \in SUBSET S : SumFunctionOnSet(f, s) # 0}
<1>1. SUFFICES ASSUME C # {} PROVE FALSE
    OBVIOUS
<1>2. PICK s \in C : \A t \in C : Cardinality(s) <= Cardinality(t)
    BY <1>1, SmallestFinite, FS_Subset
<1>3. IsFiniteSet(s) /\ SumFunctionOnSet(f, s) # 0
    BY FS_Subset
<1>4. s # {}
    BY <1>3, SumEmpty
<1>5. Rest(s) \in SUBSET S /\ Rest(s) \notin C /\ (CHOOSE x \in s : TRUE) \in S
    BY <1>2, <1>3, <1>4, RestSmaller
<1>6. SumFunctionOnSet(f, s) = f[CHOOSE x \in s : TRUE] + SumFunctionOnSet(f, Rest(s))
    BY <1>3, <1>4, SumEquation
<1> QED BY <1>3, <1>5, <1>6

\* A sum of natural numbers is one.
LEMMA SumNat ==
    ASSUME NEW f, NEW S, IsFiniteSet(S), \A x \in S : f[x] \in Nat
    PROVE  SumFunctionOnSet(f, S) \in Nat
<1> DEFINE z == [x \in S |-> 0]
<1>1. SumFunctionOnSet(z, S) = 0
    BY SumZero
<1>2. SumFunctionOnSet(z, S) <= SumFunctionOnSet(f, S)
    BY SumMonotone
<1>3. SumFunctionOnSet(f, S) \in Int
    BY SumInt
<1> QED BY <1>1, <1>2, <1>3

(* A sum without its first number is the sum of the others, each one earlier. *)
LEMMA SumShift ==
    ASSUME NEW N \in Nat, NEW f, NEW g,
           \A k \in 0 .. N : f[k] \in Int, \A k \in 0 .. N - 1 : g[k] = f[k + 1]
    PROVE  SumFunctionOnSet(f, 0 .. N) = f[0] + SumFunctionOnSet(g, 0 .. N - 1)
<1> DEFINE F(n) == SumFunctionOnSet(f, 0 .. n)
           G(n) == SumFunctionOnSet(g, 0 .. n)
           T == {n \in 0 .. N : F(n) # f[0] + G(n - 1)}
<1>1. SUFFICES ASSUME T # {} PROVE FALSE
  OBVIOUS
<1>2. PICK n \in T : \A m \in T : n <= m
  <2>1. T \in SUBSET Nat
    OBVIOUS
  <2> QED
    BY <1>1, <2>1, LeastNumber
<1>3. /\ \A m, k \in Int : IsFiniteSet(m .. k)
      /\ \A m \in Nat \ {0} : 0 .. m = (0 .. m - 1) \cup {m} /\ m \notin 0 .. m - 1
      /\ 0 .. 0 = {} \cup {0} /\ 0 .. -1 = {}
  <2>1. \A m, k \in Int : IsFiniteSet(m .. k)
    BY FS_Interval
  <2>2. \A m \in Nat \ {0} : 0 .. m = (0 .. m - 1) \cup {m} /\ m \notin 0 .. m - 1
    OBVIOUS
  <2>3. 0 .. 0 = {} \cup {0} /\ 0 .. -1 = {}
    OBVIOUS
  <2> QED
    BY <2>1, <2>2, <2>3
<1>4. CASE n = 0
  <2>1. F(0) = f[0] + SumFunctionOnSet(f, {})
    <3>1. IsFiniteSet({}) /\ 0 \notin {} /\ \A y \in {} \cup {0} : f[y] \in Int
      BY FS_EmptySet
    <3>2. SumFunctionOnSet(f, {} \cup {0}) = f[0] + SumFunctionOnSet(f, {})
      BY <3>1, SumAdd
    <3> QED
      BY <1>3, <3>2
  <2>2. SumFunctionOnSet(f, {}) = 0 /\ SumFunctionOnSet(g, {}) = 0
    BY SumEmpty
  <2>3. G(0 - 1) = 0
    BY <1>3, <2>2
  <2> HIDE DEF F, G
  <2> QED
    BY <1>4, <2>1, <2>2, <2>3
<1>5. CASE n # 0
  <2>1. n \in Nat \ {0} /\ n <= N /\ n - 1 \in 0 .. N /\ n - 1 \notin T
    BY <1>2, <1>5
  <2>2. F(n) = f[n] + F(n - 1)
    <3>1. IsFiniteSet(0 .. n - 1) /\ n \notin 0 .. n - 1 /\ 0 .. n = (0 .. n - 1) \cup {n}
          /\ \A y \in (0 .. n - 1) \cup {n} : f[y] \in Int
      BY <1>3, <2>1
    <3>2. SumFunctionOnSet(f, (0 .. n - 1) \cup {n}) = f[n] + SumFunctionOnSet(f, 0 .. n - 1)
      BY <3>1, SumAdd
    <3> QED
      BY <3>1, <3>2
  <2>3. F(n - 1) = f[0] + G(n - 2)
    <3> HIDE DEF F, G
    <3>1. n - 1 - 1 = n - 2
      BY <2>1
    <3> QED
      BY <2>1, <3>1
  <2>4. G(n - 1) = f[n] + G(n - 2)
    <3>1. g[n - 1] = f[n]
      BY <2>1
    <3>2. CASE n = 1
      <4>1. IsFiniteSet({}) /\ 0 \notin {} /\ \A y \in {} \cup {0} : g[y] \in Int
        BY <2>1, <3>1, <3>2, FS_EmptySet
      <4>2. SumFunctionOnSet(g, {} \cup {0}) = g[0] + SumFunctionOnSet(g, {})
        BY <4>1, SumAdd
      <4>3. n - 1 = 0 /\ n - 2 = -1
        BY <3>2
      <4> QED
        BY <1>3, <3>1, <4>2, <4>3
    <3>3. CASE n # 1
      <4>1. /\ IsFiniteSet(0 .. n - 2) /\ n - 1 \notin 0 .. n - 2
            /\ 0 .. n - 1 = (0 .. n - 2) \cup {n - 1}
            /\ \A y \in (0 .. n - 2) \cup {n - 1} : g[y] \in Int
        <5>1. n - 1 \in Nat \ {0} /\ n - 1 - 1 = n - 2
          BY <2>1, <3>3
        <5>2. \A y \in 0 .. n - 1 : g[y] \in Int
          BY <2>1
        <5> QED
          BY <1>3, <2>1, <5>1, <5>2
      <4>2. SumFunctionOnSet(g, (0 .. n - 2) \cup {n - 1}) = g[n - 1] + SumFunctionOnSet(g, 0 .. n - 2)
        BY <4>1, SumAdd
      <4> QED
        BY <3>1, <4>1, <4>2
    <3> QED
      BY <3>2, <3>3
  <2>5. F(n - 1) \in Int /\ f[0] \in Int /\ f[n] \in Int
    <3>1. \A y \in 0 .. n - 1 : f[y] \in Int
      BY <2>1
    <3>2. IsFiniteSet(0 .. n - 1)
      BY <1>3, <2>1
    <3> QED
      BY <2>1, <3>1, <3>2, SumInt
  <2>6. G(n - 2) \in Int
    <3>1. \A y \in 0 .. n - 2 : g[y] \in Int
      BY <2>1, SMTT(30)
    <3>2. IsFiniteSet(0 .. n - 2)
      BY <1>3, <2>1
    <3> QED
      BY <3>1, <3>2, SumInt
  <2>7. F(n) # f[0] + G(n - 1)
    OBVIOUS
  <2> HIDE DEF F, G
  <2> QED
    BY <2>2, <2>3, <2>4, <2>5, <2>6, <2>7
<1> QED
  BY <1>4, <1>5

(* A sum without its first numbers is the sum of the others.                *)
LEMMA SumWithoutFirst ==
    ASSUME NEW N \in Nat, NEW f, \A k \in 0 .. N - 1 : f[k] \in Int,
           NEW x \in 0 .. N, NEW g, \A k \in 0 .. N - x - 1 : g[k] = f[k + x]
    PROVE  /\ SumFunctionOnSet(f, 0 .. N - 1)
                  = SumFunctionOnSet(f, 0 .. x - 1) + SumFunctionOnSet(g, 0 .. N - x - 1)
           /\ SumFunctionOnSet(f, 0 .. x - 1) \in Int
           /\ SumFunctionOnSet(g, 0 .. N - x - 1) \in Int
<1> DEFINE G(n) == [k \in 0 .. N - n - 1 |-> f[k + n]]
           A(n) == SumFunctionOnSet(f, 0 .. n - 1)
           B(n) == SumFunctionOnSet(G(n), 0 .. N - n - 1)
           T == {n \in 0 .. N : A(N) # A(n) + B(n)}
<1>1. \A m, k \in Int : IsFiniteSet(m .. k)
  BY FS_Interval
<1>2. \A n \in 0 .. N : A(n) \in Int /\ B(n) \in Int
  <2> TAKE n \in 0 .. N
  <2>1. IsFiniteSet(0 .. n - 1) /\ \A k \in 0 .. n - 1 : f[k] \in Int
    BY <1>1
  <2>2. IsFiniteSet(0 .. N - n - 1) /\ \A k \in 0 .. N - n - 1 : G(n)[k] \in Int
    BY <1>1
  <2> QED
    BY <2>1, <2>2, SumInt
<1>3. T = {}
  <2>1. SUFFICES ASSUME T # {} PROVE FALSE
    OBVIOUS
  <2>2. PICK n \in T : \A m \in T : n <= m
    <3>1. T \in SUBSET Nat
      OBVIOUS
    <3> QED
      BY <2>1, <3>1, LeastNumber
  <2>3. CASE n = 0
    <3>1. A(0) = 0
      <4>1. 0 .. 0 - 1 = {}
        OBVIOUS
      <4> QED
        BY <4>1, SumEmpty
    <3>2. B(0) = A(N)
      <4>1. 0 .. N - 0 - 1 = 0 .. N - 1 /\ IsFiniteSet(0 .. N - 1)
        BY <1>1
      <4>2. \A k \in 0 .. N - 1 : G(0)[k] = f[k]
        OBVIOUS
      <4>3. SumFunctionOnSet(G(0), 0 .. N - 1) = SumFunctionOnSet(f, 0 .. N - 1)
        BY <4>1, <4>2, SumEqual
      <4> QED
        BY <4>1, <4>3
    <3>3. A(N) \in Int
      <4> HIDE DEF A, B
      <4> QED
        BY <1>2
    <3> HIDE DEF A, B
    <3> QED
      BY <2>3, <3>1, <3>2, <3>3
  <2>4. CASE n # 0
    <3>1. n \in Nat \ {0} /\ n \in 1 .. N /\ n - 1 \in 0 .. N /\ n - 1 \notin T
      BY <2>2, <2>4, SMTT(30)
    <3>2. A(N) = A(n - 1) + B(n - 1)
      <4> HIDE DEF A, B
      <4> QED
        BY <3>1
    <3>3. A(n) = f[n - 1] + A(n - 1)
      <4> DEFINE S == 0 .. n - 2
      <4>1. /\ 0 .. n - 1 = S \cup {n - 1} /\ n - 1 \notin S /\ IsFiniteSet(S)
            /\ \A k \in S \cup {n - 1} : f[k] \in Int
        BY <1>1, <3>1
      <4>2. n - 1 - 1 = n - 2
        BY <3>1
      <4> HIDE DEF S
      <4>3. SumFunctionOnSet(f, S \cup {n - 1}) = f[n - 1] + SumFunctionOnSet(f, S)
        BY <4>1, SumAdd
      <4> QED
        BY <4>1, <4>2, <4>3 DEF S
    <3>4. B(n - 1) = f[n - 1] + B(n)
      <4> DEFINE M == N - n
                 g1 == G(n - 1)
                 g2 == G(n)
      <4>1. M \in Nat
        BY <3>1
      <4>2. \A k \in 0 .. M : g1[k] = f[k + (n - 1)] /\ g1[k] \in Int
        BY <3>1
      <4>3. \A k \in 0 .. M - 1 : g2[k] = g1[k + 1]
        BY <3>1
      <4>4. B(n - 1) = SumFunctionOnSet(g1, 0 .. M) /\ B(n) = SumFunctionOnSet(g2, 0 .. M - 1)
        <5>1. N - (n - 1) - 1 = M /\ N - n - 1 = M - 1
          BY <3>1
        <5> QED
          BY <5>1
      <4>5. g1[0] = f[n - 1]
        BY <3>1, <4>1, <4>2
      <4> HIDE DEF M, g1, g2, B
      <4>6. SumFunctionOnSet(g1, 0 .. M) = g1[0] + SumFunctionOnSet(g2, 0 .. M - 1)
        BY <4>1, <4>2, <4>3, SumShift
      <4> QED
        BY <4>4, <4>5, <4>6
    <3>5. A(n - 1) \in Int /\ f[n - 1] \in Int /\ B(n) \in Int
      <4>1. f[n - 1] \in Int
        BY <3>1
      <4> HIDE DEF A, B
      <4> QED
        BY <1>2, <3>1, <4>1
    <3>6. A(N) # A(n) + B(n)
      OBVIOUS
    <3> HIDE DEF A, B
    <3> QED
      BY <3>2, <3>3, <3>4, <3>5, <3>6
  <2> QED
    BY <2>3, <2>4
<1>4. SumFunctionOnSet(g, 0 .. N - x - 1) = B(x)
  <2>1. IsFiniteSet(0 .. N - x - 1) /\ \A k \in 0 .. N - x - 1 : g[k] = G(x)[k]
    BY <1>1
  <2> QED
    BY <2>1, SumEqual
<1>5. A(N) = A(x) + B(x) /\ A(x) \in Int /\ B(x) \in Int
  <2> HIDE DEF A, B
  <2> QED
    BY <1>2, <1>3
<1> QED
  BY <1>4, <1>5

\* The sum of the first n numbers.
SumFirst(f, n) == SumFunctionOnSet(f, 0 .. n - 1)

(* The same of the first numbers of f.                                      *)
LEMMA SumFirstSplit ==
    ASSUME NEW N \in Nat, NEW f, \A k \in 0 .. N - 1 : f[k] \in Int, NEW x \in 0 .. N,
           NEW y, y = N - x, NEW g, \A k \in 0 .. y - 1 : g[k] = f[k + x]
    PROVE  /\ SumFirst(f, N) = SumFirst(f, x) + SumFirst(g, y)
           /\ SumFirst(f, x) \in Int /\ SumFirst(g, y) \in Int
<1>1. \A k \in 0 .. N - x - 1 : g[k] = f[k + x]
  OBVIOUS
<1>2. /\ SumFunctionOnSet(f, 0 .. N - 1)
             = SumFunctionOnSet(f, 0 .. x - 1) + SumFunctionOnSet(g, 0 .. N - x - 1)
      /\ SumFunctionOnSet(f, 0 .. x - 1) \in Int
      /\ SumFunctionOnSet(g, 0 .. N - x - 1) \in Int
  BY <1>1, SumWithoutFirst, ZenonT(60)
<1> QED
  BY <1>2 DEF SumFirst
=============================================================================
