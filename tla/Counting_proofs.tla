--------------------------- MODULE Counting_proofs ---------------------------
(* Facts about the sums of Counting, for every function and every finite set. *)
EXTENDS Counting, FiniteSetTheorems, TLAPS

LEMMA UnitsMembers ==
    ASSUME NEW S, NEW f, NEW p
    PROVE  p \in Units(f, S) <=> \E x \in S : \E k \in 1..f[x] : p = <<x, k>>
BY DEF Units

\* A sum over a finite set is a natural number.
LEMMA SumType ==
    ASSUME NEW S, IsFiniteSet(S), NEW f, \A x \in S : f[x] \in Nat
    PROVE  IsFiniteSet(Units(f, S)) /\ SumOver(f, S) \in Nat
<1> DEFINE Own(x) == {x} \X (1..f[x])
           All == {Own(x) : x \in S}
<1>1. IsFiniteSet(All)
  <2> DEFINE g == [x \in S |-> Own(x)]
  <2>1. g \in Surjection(S, All)
      BY DEF Surjection
  <2> QED
      BY <2>1, FS_Surjection
<1>2. \A x \in S : IsFiniteSet(Own(x))
  <2> TAKE x \in S
  <2>1. f[x] \in Int
      OBVIOUS
  <2>2. IsFiniteSet(1..f[x])
      BY <2>1, FS_Interval
  <2>3. IsFiniteSet({x})
      BY FS_Singleton
  <2> QED
      BY <2>2, <2>3, FS_Product
<1>3. IsFiniteSet(UNION All)
    BY <1>1, <1>2, FS_UNION
<1>4. Units(f, S) = UNION All
    BY DEF Units
<1> QED
    BY <1>3, <1>4, FS_CardinalityType DEF SumOver

LEMMA SumEmpty ==
    ASSUME NEW f
    PROVE  SumOver(f, {}) = 0
<1>1. Units(f, {}) = {}
    BY DEF Units
<1> QED
    BY <1>1, FS_EmptySet DEF SumOver

\* A sum whose terms are all zero.
LEMMA SumZero ==
    ASSUME NEW S, NEW f, \A x \in S : f[x] = 0
    PROVE  SumOver(f, S) = 0
<1>1. Units(f, S) = {}
    BY DEF Units
<1> QED
    BY <1>1, FS_EmptySet DEF SumOver

\* Terms that agree give equal sums.
LEMMA SumSame ==
    ASSUME NEW S, NEW f, NEW g, \A x \in S : f[x] = g[x]
    PROVE  SumOver(f, S) = SumOver(g, S)
<1>1. Units(f, S) = Units(g, S)
    BY DEF Units
<1> QED
    BY <1>1 DEF SumOver

\* A smaller set and smaller terms give no larger sum.
LEMMA SumMonotone ==
    ASSUME NEW T, IsFiniteSet(T), NEW S \in SUBSET T, NEW f, NEW g,
           \A x \in T : g[x] \in Nat,
           \A x \in S : f[x] \in Nat /\ f[x] <= g[x]
    PROVE  SumOver(f, S) <= SumOver(g, T)
<1>1. Units(f, S) \subseteq Units(g, T)
  <2>1. \A x \in S : 1..f[x] \subseteq 1..g[x]
      OBVIOUS
  <2> QED
      BY <2>1 DEF Units
<1>2. IsFiniteSet(Units(g, T))
    BY SumType
<1> QED
    BY <1>1, <1>2, FS_Subset DEF SumOver

\* The sum over two sets without a common member.
LEMMA SumDisjoint ==
    ASSUME NEW S, NEW T, IsFiniteSet(S), IsFiniteSet(T), S \cap T = {},
           NEW f, \A x \in S \cup T : f[x] \in Nat
    PROVE  SumOver(f, S \cup T) = SumOver(f, S) + SumOver(f, T)
<1>1. Units(f, S \cup T) = Units(f, S) \cup Units(f, T)
    BY DEF Units
<1>2. Units(f, S) \cap Units(f, T) = {}
    BY UnitsMembers
<1>3. IsFiniteSet(Units(f, S)) /\ IsFiniteSet(Units(f, T))
    BY SumType
<1>4. Cardinality(Units(f, S) \cup Units(f, T))
        = Cardinality(Units(f, S)) + Cardinality(Units(f, T)) - Cardinality({})
    BY <1>2, <1>3, FS_Union
<1>5. SumOver(f, S \cup T) = SumOver(f, S) + SumOver(f, T) - Cardinality({})
    BY <1>1, <1>4 DEF SumOver
<1>6. SumOver(f, S) \in Nat /\ SumOver(f, T) \in Nat
    BY SumType
<1>7. Cardinality({}) = 0
    BY FS_EmptySet
<1> QED
    BY <1>5, <1>6, <1>7

\* The sum over one argument is its term.
LEMMA SumOne ==
    ASSUME NEW x, NEW f, f[x] \in Nat
    PROVE  SumOver(f, {x}) = f[x]
<1>1. Units(f, {x}) = {x} \X (1..f[x])
    BY DEF Units
<1>2. IsFiniteSet({x}) /\ Cardinality({x}) = 1
    BY FS_Singleton
<1>3. IsFiniteSet(1..f[x]) /\ Cardinality(1..f[x]) = f[x]
  <2>1. 1 \in Int /\ f[x] \in Int
      OBVIOUS
  <2>2. /\ IsFiniteSet(1..f[x])
        /\ Cardinality(1..f[x]) = IF 1 > f[x] THEN 0 ELSE f[x] - 1 + 1
      BY <2>1, FS_Interval
  <2> QED
      BY <2>2
<1>4. Cardinality({x} \X (1..f[x])) = Cardinality({x}) * Cardinality(1..f[x])
    BY <1>2, <1>3, FS_Product
<1>5. SumOver(f, {x}) = 1 * f[x]
    BY <1>1, <1>2, <1>3, <1>4 DEF SumOver
<1> QED
    BY <1>5

\* One argument more adds its term.
LEMMA SumAdd ==
    ASSUME NEW S, IsFiniteSet(S), NEW x, x \notin S,
           NEW f, \A y \in S \cup {x} : f[y] \in Nat
    PROVE  SumOver(f, S \cup {x}) = SumOver(f, S) + f[x]
<1>1. IsFiniteSet({x}) /\ S \cap {x} = {}
    BY FS_Singleton
<1>2. SumOver(f, S \cup {x}) = SumOver(f, S) + SumOver(f, {x})
    BY <1>1, SumDisjoint
<1> QED
    BY <1>2, SumOne

\* A term that grows by one adds one, if it is in the sum at all.
LEMMA SumCountUp ==
    ASSUME NEW S, IsFiniteSet(S), NEW D, S \subseteq D, NEW f \in [D -> Nat], NEW x \in D
    PROVE  SumOver([f EXCEPT ![x] = @ + 1], S)
             = SumOver(f, S) + (IF x \in S THEN 1 ELSE 0)
<1> DEFINE g == [f EXCEPT ![x] = @ + 1]
<1>1. g \in [D -> Nat] /\ g[x] = f[x] + 1 /\ \A y \in D : y # x => g[y] = f[y]
    OBVIOUS
<1> HIDE DEF g
<1>2. SumOver(f, S) \in Nat
    BY SumType
<1>3. CASE x \notin S
  <2>1. SumOver(g, S) = SumOver(f, S)
      BY <1>1, <1>3, SumSame
  <2> QED
      BY <1>2, <1>3, <2>1 DEF g
<1>4. CASE x \in S
  <2> DEFINE T == S \ {x}
  <2>1. IsFiniteSet(T) /\ x \notin T /\ S = T \cup {x}
      BY <1>4, FS_RemoveElement
  <2>2. SumOver(g, T) = SumOver(f, T) /\ SumOver(f, T) \in Nat
    <3>1. \A y \in T : g[y] = f[y] /\ f[y] \in Nat
        BY <1>1
    <3> QED
        BY <2>1, <3>1, SumSame, SumType
  <2>3. SumOver(f, T \cup {x}) = SumOver(f, T) + f[x]
      BY <2>1, SumAdd
  <2>4. SumOver(g, T \cup {x}) = SumOver(g, T) + g[x]
      BY <1>1, <2>1, SumAdd
  <2>5. SumOver(g, S) = SumOver(f, S) + 1
    <3>1. SumOver(g, S) = SumOver(f, T) + (f[x] + 1)
        BY <1>1, <2>1, <2>2, <2>4
    <3>2. SumOver(f, S) = SumOver(f, T) + f[x]
        BY <2>1, <2>3
    <3>3. f[x] \in Nat
        OBVIOUS
    <3> QED
        BY <2>2, <3>1, <3>2, <3>3
  <2> QED
      BY <1>4, <2>5 DEF g
<1> QED
    BY <1>3, <1>4

\* A sum of terms that are at most k.
LEMMA SumBound ==
    ASSUME NEW S, IsFiniteSet(S), NEW k \in Nat, NEW f,
           \A x \in S : f[x] \in Nat /\ f[x] <= k
    PROVE  SumOver(f, S) <= k * Cardinality(S)
<1>1. IsFiniteSet(1..k) /\ Cardinality(1..k) = k
  <2>1. 1 \in Int /\ k \in Int
      OBVIOUS
  <2>2. /\ IsFiniteSet(1..k)
        /\ Cardinality(1..k) = IF 1 > k THEN 0 ELSE k - 1 + 1
      BY <2>1, FS_Interval
  <2> QED
      BY <2>2
<1>2. IsFiniteSet(S \X (1..k)) /\ Cardinality(S \X (1..k)) = Cardinality(S) * k
    BY <1>1, FS_Product
<1>3. Units(f, S) \subseteq S \X (1..k)
  <2>1. \A x \in S : 1..f[x] \subseteq 1..k
      OBVIOUS
  <2> QED
      BY <2>1 DEF Units
<1>4. SumOver(f, S) <= Cardinality(S) * k
    BY <1>2, <1>3, FS_Subset DEF SumOver
<1>5. Cardinality(S) \in Nat
    BY FS_CardinalityType
<1>6. Cardinality(S) * k = k * Cardinality(S)
    BY <1>5
<1> QED
    BY <1>4, <1>6

\* A term that falls by one or more, while no term grows, lowers the sum.
LEMMA SumLess ==
    ASSUME NEW S, IsFiniteSet(S), NEW f \in [S -> Nat], NEW g \in [S -> Nat],
           \A y \in S : g[y] <= f[y], NEW x \in S, g[x] + 1 <= f[x]
    PROVE  SumOver(g, S) + 1 <= SumOver(f, S)
<1> DEFINE h == [g EXCEPT ![x] = @ + 1]
<1>1. SumOver(h, S) = SumOver(g, S) + 1
    BY SumCountUp
<1>2. \A y \in S : h[y] \in Nat /\ h[y] <= f[y] /\ f[y] \in Nat
    OBVIOUS
<1> HIDE DEF h
<1>3. SumOver(h, S) <= SumOver(f, S)
    BY <1>2, SumMonotone
<1> QED
    BY <1>1, <1>3

=============================================================================
