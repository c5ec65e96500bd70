--------------------------- MODULE CountingProofs ---------------------------
(***************************************************************************)
(* What the other proofs need about divisions that truncate, and what a    *)
(* sum does when one of its terms changes (Counting.tla), for any function *)
(* to Nat whose units are finitely many.                                   *)
(***************************************************************************)
EXTENDS Counting, FiniteSetTheorems, TLAPS

-----------------------------------------------------------------------------
\* Divisions

LEMMA DivisionIsNat ==
    ASSUME NEW a \in Nat, NEW b \in Nat \ {0}
    PROVE  a \div b \in Nat
  OBVIOUS

LEMMA DivisionTruncates ==
    ASSUME NEW a \in Nat, NEW b \in Nat \ {0}
    PROVE  (a \div b) * b <= a /\ a < (a \div b) * b + b
  OBVIOUS

LEMMA DivisionAtLeast ==
    ASSUME NEW a \in Nat, NEW b \in Nat \ {0}, NEW c \in Nat, c * b <= a
    PROVE  c <= a \div b
  OBVIOUS

LEMMA DivisionAtMost ==
    ASSUME NEW a \in Nat, NEW b \in Nat \ {0}, NEW c \in Nat, a <= c * b
    PROVE  a \div b <= c
  OBVIOUS

\* A larger dividend and a smaller divisor make a larger quotient.
LEMMA DivisionMonotone ==
    ASSUME NEW a \in Nat, NEW b \in Nat \ {0}, NEW c \in Nat, NEW d \in Nat \ {0},
           a <= c, d <= b
    PROVE  a \div b <= c \div d
<1> DEFINE q == a \div b
<1>1. q \in Nat /\ q * b <= a
  BY DivisionIsNat, DivisionTruncates
<1> HIDE DEF q
<1>2. q * d <= q * b
  BY <1>1
<1>3. q * d \in Nat /\ q * b \in Nat
  BY <1>1
<1>4. q * d <= c
  BY <1>1, <1>2, <1>3
<1>5. q <= c \div d
  BY <1>1, <1>4, DivisionAtLeast
<1> QED
  BY <1>5 DEF q

LEMMA ProductIsNat ==
    ASSUME NEW a \in Nat, NEW b \in Nat
    PROVE  a * b \in Nat
  OBVIOUS

LEMMA ProductMonotone ==
    ASSUME NEW a \in Nat, NEW b \in Nat, NEW c \in Nat, b <= c
    PROVE  a * b <= a * c
  OBVIOUS

-----------------------------------------------------------------------------
\* Sums

LEMMA DisjointUnion ==
    ASSUME NEW S, NEW T, IsFiniteSet(S), IsFiniteSet(T), S \cap T = {}
    PROVE  /\ IsFiniteSet(S \cup T)
           /\ Cardinality(S \cup T) = Cardinality(S) + Cardinality(T)
<1>1. /\ IsFiniteSet(S \cup T)
      /\ Cardinality(S \cup T) = Cardinality(S) + Cardinality(T) - Cardinality(S \cap T)
  BY FS_Union
<1>2. Cardinality(S \cap T) = 0
  BY FS_EmptySet
<1>3. Cardinality(S) \in Nat /\ Cardinality(T) \in Nat
  BY FS_CardinalityType
<1> QED
  BY <1>1, <1>2, <1>3

\* The units of one argument are as many as its value.
LEMMA UnitsOfOne ==
    ASSUME NEW x, NEW n \in Nat
    PROVE  IsFiniteSet({x} \X (1..n)) /\ Cardinality({x} \X (1..n)) = n
<1> DEFINE S == {x}
           T == 1..n
<1>1. IsFiniteSet(S) /\ Cardinality(S) = 1
  BY FS_Singleton
<1>2. IsFiniteSet(T) /\ Cardinality(T) = n
  BY FS_Interval
<1> HIDE DEF S, T
<1>3. IsFiniteSet(S \X T) /\ Cardinality(S \X T) = Cardinality(S) * Cardinality(T)
  BY <1>1, <1>2, FS_Product
<1>4. Cardinality(S \X T) = n
  BY <1>1, <1>2, <1>3
<1> QED
  BY <1>3, <1>4 DEF S, T

\* A function that is 0 everywhere has no unit: the sum with which a contract starts.
LEMMA TotalOfZero ==
    ASSUME NEW V, NEW f \in [V -> Nat], \A x \in V : f[x] = 0
    PROVE  IsFiniteSet(UnitsOf(f)) /\ TotalOf(f) = 0
<1>1. UnitsOf(f) = {}
  BY DEF UnitsOf
<1> QED
  BY <1>1, FS_EmptySet DEF TotalOf

(***************************************************************************)
(* Changing one term changes the sum by as much: an update of a vault and  *)
(* the matching update of a total keep the two equal.                      *)
(***************************************************************************)
LEMMA TotalOfUpdate ==
    ASSUME NEW V, NEW f \in [V -> Nat], IsFiniteSet(UnitsOf(f)),
           NEW x \in V, NEW n \in Nat
    PROVE  /\ IsFiniteSet(UnitsOf([f EXCEPT ![x] = n]))
           /\ TotalOf([f EXCEPT ![x] = n]) = TotalOf(f) - f[x] + n
           /\ TotalOf(f) \in Nat
           /\ f[x] <= TotalOf(f)
<1> DEFINE g == [f EXCEPT ![x] = n]
           rest == {u \in UnitsOf(f) : u[1] # x}
           old == {x} \X (1..f[x])
           new == {x} \X (1..n)
<1>1. UnitsOf(f) = rest \cup old /\ rest \cap old = {}
  BY DEF UnitsOf
<1>2. UnitsOf(g) = rest \cup new /\ rest \cap new = {}
  <2>1. g \in [V -> Nat] /\ \A y \in V : g[y] = IF y = x THEN n ELSE f[y]
    OBVIOUS
  <2>2. ASSUME NEW u PROVE u \in UnitsOf(g) <=> u \in rest \cup new
    <3>1. u \in UnitsOf(g) <=> \E y \in V : u \in {y} \X (1..g[y])
      BY <2>1 DEF UnitsOf
    <3>2. u \in rest <=> \E y \in V : y # x /\ u \in {y} \X (1..f[y])
      BY DEF UnitsOf
    <3> QED
      BY <2>1, <3>1, <3>2
  <2> QED
    BY <2>2
<1>3. IsFiniteSet(rest) /\ Cardinality(rest) \in Nat
  BY FS_Subset, FS_CardinalityType
<1>4. f[x] \in Nat
  OBVIOUS
<1>5. IsFiniteSet(old) /\ Cardinality(old) = f[x]
  BY <1>4, UnitsOfOne
<1>6. IsFiniteSet(new) /\ Cardinality(new) = n
  BY UnitsOfOne
<1>7. Cardinality(UnitsOf(f)) = Cardinality(rest) + f[x]
  <2> HIDE DEF rest, old
  <2> QED
    BY <1>1, <1>3, <1>5, DisjointUnion
<1>8. IsFiniteSet(UnitsOf(g)) /\ Cardinality(UnitsOf(g)) = Cardinality(rest) + n
  <2> HIDE DEF g, rest, new
  <2> QED
    BY <1>2, <1>3, <1>6, DisjointUnion
<1> QED
  BY <1>3, <1>4, <1>7, <1>8 DEF TotalOf

\* Taking part of the domain away takes its part of the sum away.
LEMMA TotalOfZeroed ==
    ASSUME NEW V, NEW f \in [V -> Nat], IsFiniteSet(UnitsOf(f)), NEW S \in SUBSET V
    PROVE  LET kept == [x \in V |-> IF x \in S THEN 0 ELSE f[x]]
               part == [x \in S |-> f[x]]
           IN /\ IsFiniteSet(UnitsOf(kept)) /\ IsFiniteSet(UnitsOf(part))
              /\ TotalOf(part) \in Nat /\ TotalOf(kept) \in Nat
              /\ TotalOf(f) = TotalOf(kept) + TotalOf(part)
<1> DEFINE kept == [x \in V |-> IF x \in S THEN 0 ELSE f[x]]
           part == [x \in S |-> f[x]]
<1>1. UnitsOf(f) = UnitsOf(kept) \cup UnitsOf(part)
  <2>1. ASSUME NEW u PROVE u \in UnitsOf(f) <=> u \in UnitsOf(kept) \cup UnitsOf(part)
    <3>1. u \in UnitsOf(f) <=> \E x \in V : u \in {x} \X (1..f[x])
      BY DEF UnitsOf
    <3>2. u \in UnitsOf(part) <=> \E x \in S : u \in {x} \X (1..f[x])
      BY DEF UnitsOf
    <3>3. u \in UnitsOf(kept) <=> \E x \in V : x \notin S /\ u \in {x} \X (1..f[x])
      BY DEF UnitsOf
    <3> QED
      BY <3>1, <3>2, <3>3
  <2> QED
    BY <2>1
<1>2. UnitsOf(kept) \cap UnitsOf(part) = {}
  BY DEF UnitsOf
<1>3. IsFiniteSet(UnitsOf(kept)) /\ IsFiniteSet(UnitsOf(part))
  <2> HIDE DEF kept, part
  <2> QED
    BY <1>1, FS_Subset
<1>4. TotalOf(kept) \in Nat /\ TotalOf(part) \in Nat
  <2> HIDE DEF kept, part
  <2> QED
    BY <1>3, FS_CardinalityType DEF TotalOf
<1>5. TotalOf(f) = TotalOf(kept) + TotalOf(part)
  <2> HIDE DEF kept, part
  <2> QED
    BY <1>1, <1>2, <1>3, DisjointUnion DEF TotalOf
<1> QED
  BY <1>3, <1>4, <1>5

\* A function below another has no more units.
LEMMA TotalOfBelow ==
    ASSUME NEW V, NEW f \in [V -> Nat], NEW g \in [V -> Nat], IsFiniteSet(UnitsOf(g)),
           \A x \in V : f[x] <= g[x]
    PROVE  /\ IsFiniteSet(UnitsOf(f))
           /\ TotalOf(f) \in Nat
           /\ TotalOf(f) <= TotalOf(g)
<1>1. UnitsOf(f) \subseteq UnitsOf(g)
  BY DEF UnitsOf
<1> QED
  BY <1>1, FS_Subset, FS_CardinalityType DEF TotalOf

\* The sum of a sum of functions: the units of g are stacked on those of f.
LEMMA TotalOfSum ==
    ASSUME NEW V, NEW f \in [V -> Nat], NEW g \in [V -> Nat],
           IsFiniteSet(UnitsOf(f)), IsFiniteSet(UnitsOf(g))
    PROVE  LET both == [x \in V |-> f[x] + g[x]]
           IN /\ IsFiniteSet(UnitsOf(both))
              /\ TotalOf(both) = TotalOf(f) + TotalOf(g)
<1> DEFINE both  == [x \in V |-> f[x] + g[x]]
           above == UnitsOf(both) \ UnitsOf(f)
           stack == [u \in UnitsOf(g) |-> <<u[1], f[u[1]] + u[2]>>]
<1>1. \A u : u \in UnitsOf(g) <=> \E x \in V : \E i \in 1..g[x] : u = <<x, i>>
  BY DEF UnitsOf
<1>2. \A u : u \in UnitsOf(f) <=> \E x \in V : \E i \in 1..f[x] : u = <<x, i>>
  BY DEF UnitsOf
<1>3. \A u : u \in UnitsOf(both) <=> \E x \in V : \E i \in 1..(f[x] + g[x]) : u = <<x, i>>
  BY DEF UnitsOf
<1>4. \A u : u \in above <=> \E x \in V : \E i \in 1..g[x] : u = <<x, f[x] + i>>
  <2> TAKE u
  <2>1. ASSUME NEW x \in V, NEW i \in 1..(f[x] + g[x]), u = <<x, i>>, u \notin UnitsOf(f)
        PROVE  \E y \in V : \E j \in 1..g[y] : u = <<y, f[y] + j>>
    <3>1. i \notin 1..f[x]
      BY <1>2, <2>1
    <3>2. i - f[x] \in 1..g[x] /\ f[x] + (i - f[x]) = i
      BY <3>1
    <3> QED
      BY <2>1, <3>2
  <2>2. ASSUME NEW x \in V, NEW i \in 1..g[x], u = <<x, f[x] + i>>
        PROVE  u \in UnitsOf(both) /\ u \notin UnitsOf(f)
    <3>1. f[x] + i \in 1..(f[x] + g[x]) /\ f[x] + i \notin 1..f[x]
      OBVIOUS
    <3> QED
      BY <1>2, <1>3, <2>2, <3>1
  <2> QED
    BY <1>3, <2>1, <2>2
<1>5. UnitsOf(f) \subseteq UnitsOf(both)
  <2>1. ASSUME NEW x \in V, NEW i \in 1..f[x] PROVE i \in 1..(f[x] + g[x])
    OBVIOUS
  <2> QED
    BY <1>2, <1>3, <2>1
<1>6. stack \in Bijection(UnitsOf(g), above)
  <2>1. ASSUME NEW u \in UnitsOf(g) PROVE stack[u] \in above
    BY <1>1, <1>4
  <2>2. ASSUME NEW u \in UnitsOf(g), NEW w \in UnitsOf(g), stack[u] = stack[w] PROVE u = w
    BY <1>1, <2>2
  <2>3. ASSUME NEW a \in above PROVE \E u \in UnitsOf(g) : stack[u] = a
    <3>1. PICK x \in V : \E i \in 1..g[x] : a = <<x, f[x] + i>>
      BY <1>4
    <3>2. PICK i \in 1..g[x] : a = <<x, f[x] + i>>
      BY <3>1
    <3>3. <<x, i>> \in UnitsOf(g)
      BY <1>1
    <3> QED
      BY <3>2, <3>3
  <2>4. stack \in [UnitsOf(g) -> above]
    BY <2>1
  <2> HIDE DEF stack, above
  <2> QED
    BY <2>2, <2>3, <2>4 DEF Bijection, Injection, Surjection, IsInjective
<1>7. IsFiniteSet(above) /\ Cardinality(above) = TotalOf(g)
  <2> HIDE DEF stack, above
  <2>1. ExistsBijection(UnitsOf(g), above)
    BY <1>6 DEF ExistsBijection
  <2> QED
    BY <2>1, FS_Bijection DEF TotalOf
<1>8. UnitsOf(both) = UnitsOf(f) \cup above /\ UnitsOf(f) \cap above = {}
  BY <1>5
<1> HIDE DEF both, above
<1>9. IsFiniteSet(UnitsOf(both)) /\ TotalOf(both) = TotalOf(f) + TotalOf(g)
  BY <1>7, <1>8, DisjointUnion DEF TotalOf
<1> QED
  BY <1>9 DEF both

-----------------------------------------------------------------------------
\* Functions that change in one place

\* Finitely many arguments have finitely many units.
LEMMA FiniteUnits ==
    ASSUME NEW V, IsFiniteSet(V), NEW f \in [V -> Nat]
    PROVE  IsFiniteSet(UnitsOf(f))
<1> DEFINE units == [x \in V |-> {x} \X (1..f[x])]
           all == {units[x] : x \in V}
<1>1. units \in Surjection(V, all)
  BY DEF Surjection
<1>2. IsFiniteSet(all)
  <2> HIDE DEF units, all
  <2> QED
    BY <1>1, FS_Surjection DEF ExistsSurjection
<1>3. ASSUME NEW T \in all PROVE IsFiniteSet(T)
  <2>1. PICK x \in V : T = {x} \X (1..f[x])
    OBVIOUS
  <2>2. f[x] \in Nat
    OBVIOUS
  <2> QED
    BY <2>1, <2>2, UnitsOfOne
<1>4. IsFiniteSet(UNION all)
  <2> HIDE DEF all
  <2> QED
    BY <1>2, <1>3, FS_UNION
<1>5. UnitsOf(f) = UNION all
  BY DEF UnitsOf
<1> QED
  BY <1>4, <1>5

\* A sum of finitely many units is a natural number.
LEMMA SumIsNat ==
    ASSUME NEW f, IsFiniteSet(UnitsOf(f))
    PROVE  TotalOf(f) \in Nat
  BY FS_CardinalityType DEF TotalOf

\* The sum of g is the sum of f, and `change` more.
Changed(V, f, g, change) ==
    /\ f \in [V -> Nat] /\ g \in [V -> Nat]
    /\ IsFiniteSet(UnitsOf(f)) /\ IsFiniteSet(UnitsOf(g))
    /\ TotalOf(f) \in Nat /\ TotalOf(g) \in Nat /\ change \in Int
    /\ TotalOf(g) = TotalOf(f) + change

LEMMA Unmoved ==
    ASSUME NEW V, NEW f \in [V -> Nat], IsFiniteSet(UnitsOf(f))
    PROVE  Changed(V, f, f, 0)
  BY SumIsNat DEF Changed

\* g is f but for one place.
LEMMA ChangedAtOne ==
    ASSUME NEW V, NEW f \in [V -> Nat], IsFiniteSet(UnitsOf(f)), NEW g \in [V -> Nat],
           NEW x \in V, NEW change \in Int, g[x] = f[x] + change,
           \A y \in V : y # x => g[y] = f[y]
    PROVE  Changed(V, f, g, change)
<1>1. g = [f EXCEPT ![x] = g[x]]
  OBVIOUS
<1>2. /\ IsFiniteSet(UnitsOf([f EXCEPT ![x] = g[x]]))
      /\ TotalOf([f EXCEPT ![x] = g[x]]) = TotalOf(f) - f[x] + g[x]
      /\ TotalOf(f) \in Nat /\ f[x] \in Nat
  <2>1. g[x] \in Nat /\ f[x] \in Nat
    OBVIOUS
  <2> QED
    BY <2>1, TotalOfUpdate, Zenon
<1>3. IsFiniteSet(UnitsOf(g)) /\ TotalOf(g) = TotalOf(f) - f[x] + g[x]
  BY <1>1, <1>2
<1>4. TotalOf(g) \in Nat
  BY <1>3, SumIsNat
<1> QED
  BY <1>2, <1>3, <1>4 DEF Changed

LEMMA ChangedTwice ==
    ASSUME NEW V, NEW f, NEW g, NEW h, NEW c, NEW d, Changed(V, f, g, c), Changed(V, g, h, d)
    PROVE  Changed(V, f, h, c + d)
  BY DEF Changed
=============================================================================
