---------------------------- MODULE SumTheorems ----------------------------
(***************************************************************************)
(* Sums over finite sets, as the community modules define them by          *)
(* recursion: what SumFunctionOnSet adds up, in whatever order it takes    *)
(* the elements; and that a finite set can be listed in an order.  The     *)
(* inductions go by a least counterexample.                                *)
(***************************************************************************)
EXTENDS Integers, FiniteSets, Functions, FiniteSetTheorems, WellFoundedInduction, TLAPS

LEMMA LeastOfSome ==
  ASSUME NEW B \in SUBSET Nat, B # {}
  PROVE  \E m \in B : \A k \in B : m <= k
  <1>1. PICK m \in B : \A k \in B : ~(<<k, m>> \in OpToRel(<, Nat))
    BY NatLessThanWellFounded, WFMin
  <1>2. \A k \in B : k \in Nat /\ m \in Nat /\ ~(k < m)
    BY <1>1 DEF OpToRel
  <1>3. \A k \in B : m <= k
    BY <1>2
  <1> QED  BY <1>3

\* The element that the recursion takes first.
Picked(s) == CHOOSE x \in s : TRUE

Rest(s) == s \ {Picked(s)}

\* The recursion at one set.
Adds(f, g, s) == g[s] = IF s = {} THEN 0 ELSE f[Picked(s)] + g[Rest(s)]

IsSum(f, S, g) == g = [s \in SUBSET S |-> IF s = {} THEN 0 ELSE f[Picked(s)] + g[Rest(s)]]

LEMMA RestOfSome ==
  ASSUME NEW S, IsFiniteSet(S), NEW s \in SUBSET S, s # {}
  PROVE  /\ Picked(s) \in s /\ Rest(s) \in SUBSET S /\ IsFiniteSet(s)
         /\ Cardinality(s) \in Nat \ {0} /\ Cardinality(Rest(s)) = Cardinality(s) - 1
  <1>1. Picked(s) \in s
    BY DEF Picked
  <1>2. IsFiniteSet(s) /\ Cardinality(s) \in Nat
    BY FS_Subset, FS_CardinalityType
  <1>3. Cardinality(s) # 0
    BY <1>2, FS_EmptySet
  <1>4. Cardinality(Rest(s)) = Cardinality(s) - 1
    BY <1>1, <1>2, FS_RemoveElement DEF Rest
  <1> QED  BY <1>1, <1>2, <1>3, <1>4 DEF Rest

\* The recursion has a solution on the sets of up to n elements.
LEMMA AddsUpTo ==
  ASSUME NEW S, IsFiniteSet(S), NEW f, \A x \in S : f[x] \in Int, NEW n \in Nat
  PROVE  \E g \in [SUBSET S -> Int] : \A s \in SUBSET S : Cardinality(s) <= n => Adds(f, g, s)
  <1> DEFINE Good(m) == \E g \in [SUBSET S -> Int] :
                          \A s \in SUBSET S : Cardinality(s) <= m => Adds(f, g, s)
             bad == {m \in Nat : ~Good(m)}
  <1>1. SUFFICES ASSUME bad # {} PROVE FALSE
    OBVIOUS
  <1>2. PICK m \in bad : \A k \in bad : m <= k
    BY <1>1, LeastOfSome
  <1>3. CASE m = 0
    <2> DEFINE g == [s \in SUBSET S |-> 0]
    <2>1. \A s \in SUBSET S : Cardinality(s) <= 0 => s = {}
      BY RestOfSome
    <2>2. g \in [SUBSET S -> Int] /\ \A s \in SUBSET S : Cardinality(s) <= 0 => Adds(f, g, s)
      BY <2>1 DEF Adds
    <2> QED  BY <1>2, <1>3, <2>2
  <1>4. CASE m # 0
    <2>1. m - 1 \in Nat /\ ~(m <= m - 1)
      BY <1>4
    <2>2. PICK g \in [SUBSET S -> Int] : \A s \in SUBSET S : Cardinality(s) <= m - 1 => Adds(f, g, s)
      BY <1>2, <2>1
    <2> DEFINE h == [s \in SUBSET S |-> IF s = {} THEN 0 ELSE f[Picked(s)] + g[Rest(s)]]
    <2>3. h \in [SUBSET S -> Int]
      BY RestOfSome
    <2>4. \A s \in SUBSET S : Cardinality(s) <= m - 1 => h[s] = g[s]
      BY <2>2 DEF Adds
    <2>5. ASSUME NEW s \in SUBSET S, Cardinality(s) <= m PROVE Adds(f, h, s)
      <3>1. CASE s = {}
        BY <3>1 DEF Adds
      <3>2. CASE s # {}
        <4>1. Rest(s) \in SUBSET S /\ Cardinality(Rest(s)) <= m - 1
          BY <2>5, <3>2, RestOfSome
        <4>2. h[s] = f[Picked(s)] + g[Rest(s)]
          BY <3>2
        <4> HIDE DEF h
        <4> QED  BY <2>4, <3>2, <4>1, <4>2 DEF Adds
      <3> QED  BY <3>1, <3>2
    <2> HIDE DEF h
    <2> QED  BY <1>2, <2>3, <2>5
  <1> QED  BY <1>3, <1>4

LEMMA SumExists ==
  ASSUME NEW S, IsFiniteSet(S), NEW f, \A x \in S : f[x] \in Int
  PROVE  \E g \in [SUBSET S -> Int] : IsSum(f, S, g)
  <1>1. Cardinality(S) \in Nat
    BY FS_CardinalityType
  <1>2. PICK g \in [SUBSET S -> Int] : \A s \in SUBSET S : Cardinality(s) <= Cardinality(S) => Adds(f, g, s)
    BY <1>1, AddsUpTo
  <1>3. \A s \in SUBSET S : Adds(f, g, s)
    BY <1>2, FS_Subset
  <1> QED  BY <1>2, <1>3 DEF IsSum, Adds

\* It has no two solutions, also over another set.
LEMMA SumIsUnique ==
  ASSUME NEW S, IsFiniteSet(S), NEW T \in SUBSET S, NEW f, NEW g, NEW h, IsSum(f, S, g), IsSum(f, T, h)
  PROVE  \A s \in SUBSET T : g[s] = h[s]
  <1> DEFINE bad == {n \in Nat : \E s \in SUBSET T : Cardinality(s) = n /\ g[s] # h[s]}
  <1>1. ASSUME NEW s \in SUBSET T, g[s] # h[s] PROVE FALSE
    <2>1. IsFiniteSet(T) /\ \A t \in SUBSET T : Cardinality(t) \in Nat
      BY FS_Subset, FS_CardinalityType
    <2>2. bad # {}
      BY <1>1, <2>1
    <2>3. PICK m \in bad : \A k \in bad : m <= k
      BY <2>2, LeastOfSome
    <2>4. PICK t \in SUBSET T : Cardinality(t) = m /\ g[t] # h[t]
      BY <2>3
    <2>5. CASE t = {}
      BY <2>4, <2>5 DEF IsSum
    <2>6. CASE t # {}
      <3>1. Rest(t) \in SUBSET T /\ Cardinality(Rest(t)) = m - 1 /\ m - 1 \in Nat
        BY <2>1, <2>4, <2>6, RestOfSome
      <3>2. m - 1 \notin bad
        BY <2>3, <3>1
      <3>3. g[Rest(t)] = h[Rest(t)]
        BY <3>1, <3>2
      <3>4. g[t] = f[Picked(t)] + g[Rest(t)] /\ h[t] = f[Picked(t)] + h[Rest(t)]
        BY <2>4, <2>6 DEF IsSum
      <3> QED  BY <2>4, <3>3, <3>4
    <2> QED  BY <2>5, <2>6
  <1> QED  BY <1>1

LEMMA SumIsSolution ==
  ASSUME NEW S, IsFiniteSet(S), NEW f, \A x \in S : f[x] \in Int, NEW T \in SUBSET S,
         NEW g, IsSum(f, S, g)
  PROVE  SumFunctionOnSet(f, T) = g[T]
  <1>1. IsFiniteSet(T) /\ \A x \in T : f[x] \in Int
    BY FS_Subset
  <1>2. \E h : IsSum(f, T, h)
    BY <1>1, SumExists
  <1> DEFINE h == CHOOSE h : IsSum(f, T, h)
  <1>3. IsSum(f, T, h)
    BY <1>2
  <1>4. SumFunctionOnSet(f, T) = h[T]
    BY DEF SumFunctionOnSet, FoldFunctionOnSet, MapThenFoldSet, IsSum, Picked, Rest
  <1> HIDE DEF h
  <1> QED  BY <1>3, <1>4, SumIsUnique

-----------------------------------------------------------------------------
LEMMA SumOfNone == ASSUME NEW f PROVE SumFunctionOnSet(f, {}) = 0
  <1>1. IsFiniteSet({})
    BY FS_EmptySet
  <1>2. PICK g : IsSum(f, {}, g)
    BY <1>1, SumExists
  <1>3. g[{}] = 0
    BY <1>2 DEF IsSum
  <1> QED  BY <1>1, <1>2, <1>3, SumIsSolution

LEMMA SumType ==
  ASSUME NEW S, IsFiniteSet(S), NEW f, \A x \in S : f[x] \in Int
  PROVE  SumFunctionOnSet(f, S) \in Int
  <1>1. PICK g \in [SUBSET S -> Int] : IsSum(f, S, g)
    BY SumExists
  <1> QED  BY <1>1, SumIsSolution

LEMMA SumNat ==
  ASSUME NEW S, IsFiniteSet(S), NEW f, \A x \in S : f[x] \in Nat
  PROVE  SumFunctionOnSet(f, S) \in Nat
  <1>1. PICK g \in [SUBSET S -> Int] : IsSum(f, S, g)
    <2>1. \A x \in S : f[x] \in Int
      OBVIOUS
    <2> QED  BY <2>1, SumExists
  <1> DEFINE bad == {n \in Nat : \E s \in SUBSET S : Cardinality(s) = n /\ g[s] \notin Nat}
  <1>2. bad = {}
    <2>1. SUFFICES ASSUME bad # {} PROVE FALSE
      OBVIOUS
    <2>2. PICK m \in bad : \A k \in bad : m <= k
      BY <2>1, LeastOfSome
    <2>3. PICK s \in SUBSET S : Cardinality(s) = m /\ g[s] \notin Nat
      BY <2>2
    <2>4. g[s] = IF s = {} THEN 0 ELSE f[Picked(s)] + g[Rest(s)]
      BY <1>1 DEF IsSum
    <2>5. s # {}
      BY <2>3, <2>4
    <2>6. Picked(s) \in S /\ Rest(s) \in SUBSET S /\ Cardinality(Rest(s)) = m - 1 /\ m - 1 \in Nat
      BY <2>3, <2>5, RestOfSome
    <2>7. m - 1 \notin bad
      BY <2>2, <2>6
    <2>8. g[Rest(s)] \in Nat /\ f[Picked(s)] \in Nat
      BY <2>6, <2>7
    <2> QED  BY <2>3, <2>4, <2>5, <2>8
  <1>3. g[S] \in Nat
    <2>1. Cardinality(S) \in Nat /\ Cardinality(S) \notin bad
      BY <1>2, FS_CardinalityType
    <2> QED  BY <2>1
  <1>4. \A x \in S : f[x] \in Int
    OBVIOUS
  <1> QED  BY <1>1, <1>3, <1>4, SumIsSolution

LEMMA SumOfZeros ==
  ASSUME NEW S, IsFiniteSet(S), NEW f, \A x \in S : f[x] = 0
  PROVE  SumFunctionOnSet(f, S) = 0
  <1> DEFINE g == [s \in SUBSET S |-> 0]
  <1>1. [s \in SUBSET S |-> IF s = {} THEN 0 ELSE f[Picked(s)] + g[Rest(s)]] = [s \in SUBSET S |-> 0]
    BY RestOfSome
  <1>2. IsSum(f, S, g) /\ g[S] = 0
    BY <1>1 DEF IsSum
  <1> HIDE DEF g
  <1> QED  BY <1>2, SumIsSolution

\* Any element may be taken out first.
LEMMA SumRemove ==
  ASSUME NEW S, IsFiniteSet(S), NEW f, \A x \in S : f[x] \in Int, NEW x \in S
  PROVE  SumFunctionOnSet(f, S) = f[x] + SumFunctionOnSet(f, S \ {x})
  <1> DEFINE Sum(s) == SumFunctionOnSet(f, s)
             Bad(s) == \E y \in s : Sum(s) # f[y] + Sum(s \ {y})
             bad == {n \in Nat : \E s \in SUBSET S : Cardinality(s) = n /\ Bad(s)}
  <1>1. PICK g \in [SUBSET S -> Int] : IsSum(f, S, g)
    BY SumExists
  <1>2. \A s \in SUBSET S : Sum(s) = g[s] /\ Sum(s) \in Int
    BY <1>1, SumIsSolution
  <1>3. \A s \in SUBSET S : s # {} => Sum(s) = f[Picked(s)] + Sum(Rest(s))
    <2> SUFFICES ASSUME NEW s \in SUBSET S, s # {} PROVE g[s] = f[Picked(s)] + g[Rest(s)]
      BY <1>2, RestOfSome
    <2> QED  BY <1>1 DEF IsSum
  <1>4. \A s \in SUBSET S : IsFiniteSet(s) /\ Cardinality(s) \in Nat
    BY FS_Subset, FS_CardinalityType
  <1> HIDE DEF Sum
  <1>5. SUFFICES ASSUME Bad(S) PROVE FALSE
    BY DEF Sum
  <1>6. bad # {}
    BY <1>4, <1>5
  <1>7. PICK m \in bad : \A k \in bad : m <= k
    BY <1>6, LeastOfSome
  <1>8. PICK s \in SUBSET S : Cardinality(s) = m /\ Bad(s)
    BY <1>7
  <1>9. PICK y \in s : Sum(s) # f[y] + Sum(s \ {y})
    BY <1>8
  <1>10. ASSUME NEW t \in SUBSET S, Cardinality(t) = m - 1 PROVE ~Bad(t)
    <2>1. m - 1 \in Nat
      BY <1>4, <1>10
    <2> QED  BY <1>7, <1>10, <2>1
  <1> DEFINE p == Picked(s)
  <1>11. p \in s /\ Rest(s) = s \ {p}
    BY <1>9 DEF Picked, Rest
  <1> HIDE DEF p
  <1>12. CASE y = p
    BY <1>3, <1>9, <1>11, <1>12 DEF p
  <1>13. CASE y # p
    <2>1. Cardinality(s \ {p}) = m - 1 /\ Cardinality(s \ {y}) = m - 1
      BY <1>4, <1>8, <1>9, <1>11, FS_RemoveElement
    <2>2. Sum(s \ {p}) = f[y] + Sum((s \ {p}) \ {y}) /\ Sum(s \ {y}) = f[p] + Sum((s \ {y}) \ {p})
      BY <1>9, <1>10, <1>11, <1>13, <2>1
    <2>3. (s \ {p}) \ {y} = (s \ {y}) \ {p}
      OBVIOUS
    <2>4. Sum(s) = f[p] + Sum(s \ {p})
      BY <1>3, <1>9, <1>11 DEF p
    <2>5. f[p] \in Int /\ f[y] \in Int /\ Sum((s \ {p}) \ {y}) \in Int
      BY <1>2, <1>9, <1>11
    <2>6. PICK fp \in Int, fy \in Int, c \in Int : fp = f[p] /\ fy = f[y] /\ c = Sum((s \ {p}) \ {y})
      BY <2>5
    <2>7. Sum(s) = fp + (fy + c) /\ f[y] + Sum(s \ {y}) = fy + (fp + c)
      BY <2>2, <2>3, <2>4, <2>6
    <2> QED  BY <1>9, <2>6, <2>7
  <1> QED  BY <1>12, <1>13

\* Only the values on the set count.
LEMMA SumSame ==
  ASSUME NEW S, IsFiniteSet(S), NEW f, NEW g, \A x \in S : f[x] \in Int /\ g[x] = f[x]
  PROVE  SumFunctionOnSet(g, S) = SumFunctionOnSet(f, S)
  <1>1. PICK h \in [SUBSET S -> Int] : IsSum(f, S, h)
    BY SumExists
  <1>2. [s \in SUBSET S |-> IF s = {} THEN 0 ELSE g[Picked(s)] + h[Rest(s)]]
          = [s \in SUBSET S |-> IF s = {} THEN 0 ELSE f[Picked(s)] + h[Rest(s)]]
    <2>1. \A s \in SUBSET S : s # {} => g[Picked(s)] = f[Picked(s)]
      BY RestOfSome
    <2> QED  BY <2>1
  <1>3. IsSum(g, S, h)
    BY <1>1, <1>2 DEF IsSum
  <1> QED  BY <1>1, <1>3, SumIsSolution

\* What one value, new or changed, does to a sum.
LEMMA SumUpdate ==
  ASSUME NEW S, IsFiniteSet(S), NEW f, \A x \in S : f[x] \in Int,
         NEW y, NEW g, g[y] \in Int, \A x \in S \ {y} : g[x] = f[x]
  PROVE  SumFunctionOnSet(g, S \cup {y})
           = SumFunctionOnSet(f, S) + (g[y] - (IF y \in S THEN f[y] ELSE 0))
  <1> DEFINE others == S \ {y}
             T == S \cup {y}
  <1>1. IsFiniteSet(others) /\ IsFiniteSet(T) /\ y \in T /\ T \ {y} = others
    BY FS_AddElement, FS_RemoveElement
  <1>2. \A x \in T : g[x] \in Int
    OBVIOUS
  <1>3. \A x \in others : f[x] \in Int /\ g[x] = f[x]
    OBVIOUS
  <1>4. y \notin S => others = S
    OBVIOUS
  <1> HIDE DEF others, T
  <1>5. SumFunctionOnSet(g, T) = g[y] + SumFunctionOnSet(g, others)
    BY <1>1, <1>2, SumRemove
  <1>6. SumFunctionOnSet(g, others) = SumFunctionOnSet(f, others) /\ SumFunctionOnSet(f, others) \in Int
    BY <1>1, <1>3, SumSame, SumType
  <1>7. PICK c \in Int, v \in Int : c = SumFunctionOnSet(f, others) /\ v = g[y]
    BY <1>6
  <1>8. CASE y \in S
    <2>1. SumFunctionOnSet(f, S) = f[y] + SumFunctionOnSet(f, others)
      BY <1>8, SumRemove DEF others
    <2>2. PICK w \in Int : w = f[y]
      BY <1>8
    <2>3. v + c = (w + c) + (v - w)
      OBVIOUS
    <2> QED  BY <1>5, <1>6, <1>7, <1>8, <2>1, <2>2, <2>3 DEF T
  <1>9. CASE y \notin S
    <2>1. v + c = c + (v - 0)
      OBVIOUS
    <2> QED  BY <1>4, <1>5, <1>6, <1>7, <1>9, <2>1 DEF T
  <1> QED  BY <1>8, <1>9

LEMMA SumAdd ==
  ASSUME NEW S, IsFiniteSet(S), NEW f, NEW g, \A x \in S : f[x] \in Int /\ g[x] = f[x],
         NEW y, y \notin S, g[y] \in Int
  PROVE  SumFunctionOnSet(g, S \cup {y}) = SumFunctionOnSet(f, S) + g[y]
  <1>1. (\A x \in S : f[x] \in Int) /\ (\A x \in S \ {y} : g[x] = f[x])
    OBVIOUS
  <1>2. SumFunctionOnSet(f, S) \in Int
    BY <1>1, SumType
  <1>3. SumFunctionOnSet(g, S \cup {y}) = SumFunctionOnSet(f, S) + (g[y] - (IF y \in S THEN f[y] ELSE 0))
    BY <1>1, SumUpdate
  <1> QED  BY <1>2, <1>3

LEMMA SumOfOne ==
  ASSUME NEW f, NEW x, f[x] \in Int
  PROVE  SumFunctionOnSet(f, {x}) = f[x]
  <1>1. IsFiniteSet({}) /\ (\A y \in {} : f[y] \in Int /\ f[y] = f[y]) /\ x \notin {} /\ {} \cup {x} = {x}
    BY FS_EmptySet
  <1>2. SumFunctionOnSet(f, {} \cup {x}) = SumFunctionOnSet(f, {}) + f[x]
    BY <1>1, SumAdd
  <1> QED  BY <1>1, <1>2, SumOfNone

LEMMA SumUnion ==
  ASSUME NEW S, IsFiniteSet(S), NEW T, IsFiniteSet(T), S \cap T = {},
         NEW f, \A x \in S \cup T : f[x] \in Int
  PROVE  SumFunctionOnSet(f, S \cup T) = SumFunctionOnSet(f, S) + SumFunctionOnSet(f, T)
  <1> DEFINE Sum(s) == SumFunctionOnSet(f, s)
             Good(t) == Sum(S \cup t) = Sum(S) + Sum(t)
             bad == {n \in Nat : \E t \in SUBSET T : Cardinality(t) = n /\ ~Good(t)}
  <1>1. \A t \in SUBSET T : IsFiniteSet(t) /\ Cardinality(t) \in Nat
    BY FS_Subset, FS_CardinalityType
  <1>2. \A t \in SUBSET T : IsFiniteSet(S \cup t)
    BY <1>1, FS_Union
  <1>3. SUFFICES ASSUME ~Good(T) PROVE FALSE
    OBVIOUS
  <1>4. PICK m \in bad : \A k \in bad : m <= k
    <2>1. bad # {}
      BY <1>1, <1>3
    <2> QED  BY <2>1, LeastOfSome
  <1>5. PICK t \in SUBSET T : Cardinality(t) = m /\ ~Good(t)
    BY <1>4
  <1>6. Sum(S) \in Int
    BY SumType
  <1>7. CASE t = {}
    <2>1. S \cup t = S /\ Sum(t) = 0
      BY <1>7, SumOfNone
    <2> QED  BY <1>5, <1>6, <2>1
  <1>8. CASE t # {}
    <2>1. PICK x \in t : TRUE
      BY <1>8
    <2> DEFINE r == t \ {x}
    <2>2. r \in SUBSET T /\ Cardinality(r) = m - 1 /\ m - 1 \in Nat
      <3>1. r \in SUBSET T /\ IsFiniteSet(t) /\ x \in t
        BY <1>1, <1>5, <2>1
      <3>2. Cardinality(r) = Cardinality(t) - 1
        BY <3>1, FS_RemoveElement
      <3>3. Cardinality(r) \in Nat
        BY <1>1, <3>1
      <3> QED  BY <1>5, <3>1, <3>2, <3>3
    <2>3. Good(r)
      <3>1. m - 1 \notin bad
        <4>1. m \in Nat
          BY <1>4
        <4> HIDE DEF bad
        <4> QED  BY <1>4, <2>2, <4>1
      <3> QED  BY <2>2, <3>1
    <2>4. Sum(t) = f[x] + Sum(r)
      BY <1>1, <1>5, <2>1, SumRemove
    <2>5. Sum(S \cup t) = f[x] + Sum(S \cup r)
      <3>1. x \in S \cup t /\ (S \cup t) \ {x} = S \cup r /\ \A y \in S \cup t : f[y] \in Int
        BY <1>5, <2>1
      <3>2. IsFiniteSet(S \cup t)
        BY <1>2, <1>5
      <3> HIDE DEF r
      <3>3. Sum(S \cup t) = f[x] + Sum((S \cup t) \ {x})
        BY <3>1, <3>2, SumRemove
      <3> QED  BY <3>1, <3>3
    <2>6. f[x] \in Int /\ Sum(r) \in Int
      BY <1>1, <1>5, <2>1, <2>2, SumType
    <2> HIDE DEF Sum, r
    <2>7. PICK a \in Int, b \in Int, c \in Int : a = f[x] /\ b = Sum(r) /\ c = Sum(S)
      BY <1>6, <2>6
    <2>8. Sum(S \cup r) = c + b /\ Sum(t) = a + b /\ Sum(S \cup t) = a + (c + b)
      BY <2>3, <2>4, <2>5, <2>7
    <2> QED  BY <1>5, <2>7, <2>8
  <1> QED  BY <1>7, <1>8

\* A sum by groups.
LEMMA SumPartition ==
  ASSUME NEW S, IsFiniteSet(S), NEW f, \A x \in S : f[x] \in Int,
         NEW T, IsFiniteSet(T), NEW key, \A x \in S : key[x] \in T
  PROVE  SumFunctionOnSet([t \in T |-> SumFunctionOnSet(f, {x \in S : key[x] = t})], T)
           = SumFunctionOnSet(f, S)
  <1> DEFINE Group(s, t) == SumFunctionOnSet(f, {x \in s : key[x] = t})
             groups(s) == [t \in T |-> Group(s, t)]
             Good(s) == SumFunctionOnSet(groups(s), T) = SumFunctionOnSet(f, s)
             bad == {n \in Nat : \E s \in SUBSET S : Cardinality(s) = n /\ ~Good(s)}
  <1>1. \A s \in SUBSET S : IsFiniteSet(s) /\ Cardinality(s) \in Nat
    BY FS_Subset, FS_CardinalityType
  <1>2. \A s \in SUBSET S : \A t \in T : Group(s, t) \in Int
    <2> SUFFICES ASSUME NEW s \in SUBSET S, NEW t \in T PROVE Group(s, t) \in Int
      OBVIOUS
    <2>1. IsFiniteSet({x \in s : key[x] = t}) /\ \A x \in {x \in s : key[x] = t} : f[x] \in Int
      BY <1>1, FS_Subset
    <2> QED  BY <2>1, SumType
  <1>3. SUFFICES ASSUME ~Good(S) PROVE FALSE
    OBVIOUS
  <1>4. PICK m \in bad : \A k \in bad : m <= k
    <2>1. bad # {}
      BY <1>1, <1>3
    <2> QED  BY <2>1, LeastOfSome
  <1>5. PICK s \in SUBSET S : Cardinality(s) = m /\ ~Good(s)
    BY <1>4
  <1>6. CASE s = {}
    <2>1. \A t \in T : {x \in s : key[x] = t} = {}
      BY <1>6
    <2>2. \A t \in T : Group(s, t) = 0
      BY <2>1, SumOfNone
    <2>3. \A t \in T : groups(s)[t] = 0
      BY <2>2
    <2> HIDE DEF groups
    <2>4. SumFunctionOnSet(groups(s), T) = 0
      BY <2>3, SumOfZeros
    <2> QED  BY <1>5, <1>6, <2>4, SumOfNone
  <1>7. CASE s # {}
    <2>1. PICK y \in s : TRUE
      BY <1>7
    <2> DEFINE r == s \ {y}
    <2>2. r \in SUBSET S /\ Cardinality(r) = m - 1 /\ m - 1 \in Nat
      <3>1. r \in SUBSET S /\ IsFiniteSet(s) /\ y \in s
        BY <1>1, <1>5, <2>1
      <3>2. Cardinality(r) = Cardinality(s) - 1
        BY <3>1, FS_RemoveElement
      <3>3. Cardinality(r) \in Nat
        BY <1>1, <3>1
      <3> QED  BY <1>5, <3>1, <3>2, <3>3
    <2>3. Good(r)
      <3>1. m - 1 \notin bad
        <4>1. m \in Nat
          BY <1>4
        <4> HIDE DEF bad
        <4> QED  BY <1>4, <2>2, <4>1
      <3> QED  BY <2>2, <3>1
    <2>4. SumFunctionOnSet(f, s) = f[y] + SumFunctionOnSet(f, r)
      BY <1>1, <1>5, <2>1, SumRemove
    <2>5. PICK k \in T : k = key[y]
      BY <1>5, <2>1
    <2>6. \A t \in T \ {k} : Group(s, t) = Group(r, t)
      <3>1. \A t \in T \ {k} : {x \in s : key[x] = t} = {x \in r : key[x] = t}
        BY <2>5
      <3> QED  BY <3>1
    <2>7. Group(s, k) = f[y] + Group(r, k)
      <3>1. y \in {x \in s : key[x] = k} /\ {x \in s : key[x] = k} \ {y} = {x \in r : key[x] = k}
        BY <2>1, <2>5
      <3>2. IsFiniteSet({x \in s : key[x] = k}) /\ \A x \in {x \in s : key[x] = k} : f[x] \in Int
        BY <1>1, <1>5, FS_Subset
      <3>3. PICK u : u = {x \in s : key[x] = k}
        OBVIOUS
      <3>4. SumFunctionOnSet(f, u) = f[y] + SumFunctionOnSet(f, u \ {y})
        BY <3>1, <3>2, <3>3, SumRemove
      <3> QED  BY <3>1, <3>3, <3>4
    <2>8. f[y] \in Int /\ SumFunctionOnSet(f, r) \in Int
      BY <1>1, <1>5, <2>1, <2>2, SumType
    <2>9. \A t \in T : Group(s, t) \in Int /\ Group(r, t) \in Int
      BY <1>2, <1>5, <2>2
    <2> HIDE DEF Group
    <2>10. PICK before, after : before = groups(r) /\ after = groups(s)
      OBVIOUS
    <2>11. (\A x \in T : before[x] \in Int) /\ after[k] \in Int /\ (\A x \in T \ {k} : after[x] = before[x])
            /\ after[k] = f[y] + before[k] /\ T \cup {k} = T
      BY <2>5, <2>6, <2>7, <2>9, <2>10
    <2> HIDE DEF groups, r
    <2>12. SumFunctionOnSet(after, T \cup {k})
             = SumFunctionOnSet(before, T) + (after[k] - (IF k \in T THEN before[k] ELSE 0))
      <3>1. \A x \in T : before[x] \in Int
        BY <2>11
      <3>2. after[k] \in Int /\ \A x \in T \ {k} : after[x] = before[x]
        BY <2>11
      <3> QED  BY <3>1, <3>2, SumUpdate
    <2>13. PICK a \in Int, b \in Int, c \in Int : a = f[y] /\ b = before[k] /\ c = SumFunctionOnSet(f, r)
      BY <2>5, <2>8, <2>11
    <2>14. SumFunctionOnSet(before, T) = c
      BY <2>3, <2>10, <2>13
    <2>15. SumFunctionOnSet(after, T) = c + ((a + b) - b)
      BY <2>5, <2>11, <2>12, <2>13, <2>14
    <2>16. SumFunctionOnSet(f, s) = a + c
      BY <2>4, <2>13
    <2> QED  BY <1>5, <2>10, <2>13, <2>15, <2>16
  <1> QED  BY <1>6, <1>7

LEMMA SumLinear ==
  ASSUME NEW S, IsFiniteSet(S), NEW c \in Int, NEW f, NEW g, NEW h,
         \A x \in S : f[x] \in Int /\ g[x] \in Int /\ h[x] = c * f[x] + g[x]
  PROVE  SumFunctionOnSet(h, S) = c * SumFunctionOnSet(f, S) + SumFunctionOnSet(g, S)
  <1> DEFINE Good(s) == SumFunctionOnSet(h, s) = c * SumFunctionOnSet(f, s) + SumFunctionOnSet(g, s)
             bad == {n \in Nat : \E s \in SUBSET S : Cardinality(s) = n /\ ~Good(s)}
  <1>1. \A s \in SUBSET S : IsFiniteSet(s) /\ Cardinality(s) \in Nat
    BY FS_Subset, FS_CardinalityType
  <1>2. SUFFICES ASSUME ~Good(S) PROVE FALSE
    OBVIOUS
  <1>3. PICK m \in bad : \A k \in bad : m <= k
    <2>1. bad # {}
      BY <1>1, <1>2
    <2> QED  BY <2>1, LeastOfSome
  <1>4. PICK s \in SUBSET S : Cardinality(s) = m /\ ~Good(s)
    BY <1>3
  <1>5. CASE s = {}
    <2>1. c * 0 + 0 = 0
      OBVIOUS
    <2> QED  BY <1>4, <1>5, <2>1, SumOfNone
  <1>6. CASE s # {}
    <2>1. PICK y \in s : TRUE
      BY <1>6
    <2> DEFINE r == s \ {y}
    <2>2. r \in SUBSET S /\ Cardinality(r) = m - 1 /\ m - 1 \in Nat
      <3>1. r \in SUBSET S /\ IsFiniteSet(s) /\ y \in s
        BY <1>1, <1>4, <2>1
      <3>2. Cardinality(r) = Cardinality(s) - 1
        BY <3>1, FS_RemoveElement
      <3>3. Cardinality(r) \in Nat
        BY <1>1, <3>1
      <3> QED  BY <1>4, <3>1, <3>2, <3>3
    <2>3. Good(r)
      <3>1. m - 1 \notin bad
        <4>1. m \in Nat
          BY <1>3
        <4> HIDE DEF bad
        <4> QED  BY <1>3, <2>2, <4>1
      <3> QED  BY <2>2, <3>1
    <2>4. IsFiniteSet(s) /\ (\A x \in s : f[x] \in Int) /\ (\A x \in s : g[x] \in Int) /\ (\A x \in s : h[x] \in Int)
      BY <1>1, <1>4
    <2>5. SumFunctionOnSet(f, s) = f[y] + SumFunctionOnSet(f, r)
      BY <2>1, <2>4, SumRemove
    <2>6. SumFunctionOnSet(g, s) = g[y] + SumFunctionOnSet(g, r)
      BY <2>1, <2>4, SumRemove
    <2>7. SumFunctionOnSet(h, s) = h[y] + SumFunctionOnSet(h, r)
      BY <2>1, <2>4, SumRemove
    <2>8. SumFunctionOnSet(f, r) \in Int /\ SumFunctionOnSet(g, r) \in Int
      <3>1. IsFiniteSet(r) /\ (\A x \in r : f[x] \in Int) /\ (\A x \in r : g[x] \in Int)
        BY <1>1, <2>2
      <3> QED  BY <3>1, SumType
    <2>9. PICK a \in Int, b \in Int, d \in Int, e \in Int :
            a = f[y] /\ b = g[y] /\ d = SumFunctionOnSet(f, r) /\ e = SumFunctionOnSet(g, r)
      BY <1>4, <2>1, <2>8
    <2>10. h[y] = c * a + b
      BY <1>4, <2>1, <2>9
    <2> HIDE DEF r
    <2>11. SumFunctionOnSet(h, s) = (c * a + b) + (c * d + e)
      BY <2>3, <2>7, <2>9, <2>10
    <2>12. (c * a + b) + (c * d + e) = c * (a + d) + (b + e)
      OBVIOUS
    <2> QED  BY <1>4, <2>5, <2>6, <2>9, <2>11, <2>12
  <1> QED  BY <1>5, <1>6

\* Differences add up to the difference.
LEMMA SumMinus ==
  ASSUME NEW S, IsFiniteSet(S), NEW f, NEW g, NEW h,
         \A x \in S : f[x] \in Int /\ g[x] \in Int /\ h[x] = g[x] - f[x]
  PROVE  SumFunctionOnSet(h, S) = SumFunctionOnSet(g, S) - SumFunctionOnSet(f, S)
  <1>1. PICK c \in Int : c = -1
    OBVIOUS
  <1>2. \A x \in S : f[x] \in Int /\ g[x] \in Int /\ h[x] = c * f[x] + g[x]
    BY <1>1
  <1>3. SumFunctionOnSet(h, S) = c * SumFunctionOnSet(f, S) + SumFunctionOnSet(g, S)
    BY <1>2, SumLinear
  <1>4. SumFunctionOnSet(f, S) \in Int /\ SumFunctionOnSet(g, S) \in Int
    BY SumType
  <1> QED  BY <1>1, <1>3, <1>4

\* Ones add up to the size of the set.
LEMMA SumOfOnes ==
  ASSUME NEW S, IsFiniteSet(S), NEW f, \A x \in S : f[x] = 1
  PROVE  SumFunctionOnSet(f, S) = Cardinality(S)
  <1> DEFINE Good(s) == SumFunctionOnSet(f, s) = Cardinality(s)
             bad == {n \in Nat : \E s \in SUBSET S : Cardinality(s) = n /\ ~Good(s)}
  <1>1. ASSUME bad # {} PROVE FALSE
    <2>1. PICK m \in bad : \A k \in bad : m <= k
      BY <1>1, LeastOfSome
    <2>2. PICK s \in SUBSET S : Cardinality(s) = m /\ ~Good(s)
      OBVIOUS
    <2>3. IsFiniteSet(s) /\ Cardinality(s) \in Nat
      BY FS_Subset, FS_CardinalityType
    <2>4. s # {}
      BY <2>2, SumOfNone, FS_EmptySet
    <2>5. PICK x \in s : TRUE
      BY <2>4
    <2>6. Cardinality(s \ {x}) = m - 1 /\ m - 1 \in Nat
      <3>1. Cardinality(s \ {x}) = m - 1 /\ IsFiniteSet(s \ {x})
        BY <2>2, <2>3, FS_RemoveElement
      <3> QED  BY <3>1, FS_CardinalityType
    <2>7. Good(s \ {x})
      BY <2>1, <2>6
    <2>8. SumFunctionOnSet(f, s) = f[x] + SumFunctionOnSet(f, s \ {x})
      <3>1. \A y \in s : f[y] \in Int
        OBVIOUS
      <3> QED  BY <2>3, <3>1, SumRemove
    <2>9. f[x] = 1
      OBVIOUS
    <2> QED  BY <2>2, <2>6, <2>7, <2>8, <2>9
  <1>2. Cardinality(S) \in Nat /\ S \in SUBSET S
    BY FS_CardinalityType
  <1> QED  BY <1>1, <1>2

\* The same values under other names.
LEMMA SumRenamed ==
  ASSUME NEW S, IsFiniteSet(S), NEW T, IsFiniteSet(T), NEW f, NEW g, NEW back,
         \A t \in T : f[t] \in Int /\ back[t] \in S,
         \A x \in S : \E t \in T : g[x] = f[t] /\ {u \in T : back[u] = x} = {t}
  PROVE  SumFunctionOnSet(g, S) = SumFunctionOnSet(f, T)
  <1> DEFINE groups == [x \in S |-> SumFunctionOnSet(f, {u \in T : back[u] = x})]
  <1>1. SumFunctionOnSet(groups, S) = SumFunctionOnSet(f, T)
    <2>1. (\A t \in T : f[t] \in Int) /\ \A t \in T : back[t] \in S
      OBVIOUS
    <2> QED  BY <2>1, SumPartition
  <1>2. \A x \in S : groups[x] \in Int /\ g[x] = groups[x]
    <2> SUFFICES ASSUME NEW x \in S PROVE groups[x] \in Int /\ g[x] = groups[x]
      OBVIOUS
    <2>1. PICK t \in T : g[x] = f[t] /\ {u \in T : back[u] = x} = {t}
      OBVIOUS
    <2>2. groups[x] = SumFunctionOnSet(f, {t})
      BY <2>1
    <2>3. SumFunctionOnSet(f, {t}) = f[t]
      BY SumOfOne
    <2> HIDE DEF groups
    <2> QED  BY <2>1, <2>2, <2>3
  <1> HIDE DEF groups
  <1>3. SumFunctionOnSet(g, S) = SumFunctionOnSet(groups, S)
    BY <1>2, SumSame
  <1> QED  BY <1>1, <1>3
-----------------------------------------------------------------------------
(* Listings.                                                               *)

\* Of two different elements one comes before the other, never both.
IsOrder(S, less) ==
  /\ \A x, y \in S : x # y => <<x, y>> \in less \/ <<y, x>> \in less
  /\ \A x, y, z \in S : <<x, y>> \in less /\ <<y, z>> \in less => <<x, z>> \in less
  /\ \A x \in S : <<x, x>> \notin less

IsListed(s, less) == \A i, j \in DOMAIN s : i < j => <<s[i], s[j]>> \in less

\* A finite set that is not empty has a first element.
LEMMA FirstOfOrder ==
  ASSUME NEW S, IsFiniteSet(S), S # {}, NEW less, IsOrder(S, less)
  PROVE  \E x \in S : \A y \in S \ {x} : <<x, y>> \in less
  <1> DEFINE HasFirst(T) == \E x \in T : \A y \in T \ {x} : <<x, y>> \in less
             bad == {n \in Nat : \E T \in SUBSET S : Cardinality(T) = n /\ T # {} /\ ~HasFirst(T)}
  <1>1. \A T \in SUBSET S : IsFiniteSet(T) /\ Cardinality(T) \in Nat
    BY FS_Subset, FS_CardinalityType
  <1>2. SUFFICES ASSUME ~HasFirst(S) PROVE FALSE
    OBVIOUS
  <1>3. bad # {}
    BY <1>1, <1>2
  <1>4. PICK m \in bad : \A k \in bad : m <= k
    BY <1>3, LeastOfSome
  <1>5. PICK T \in SUBSET S : Cardinality(T) = m /\ T # {} /\ ~HasFirst(T)
    BY <1>4
  <1>6. PICK x \in T : TRUE
    BY <1>5
  <1> DEFINE U == T \ {x}
  <1>7. Cardinality(U) = m - 1 /\ Cardinality(U) \in Nat /\ U \in SUBSET S
    BY <1>1, <1>5, <1>6, FS_RemoveElement
  <1>8. U # {}
    <2>1. U = {} => HasFirst(T)
      BY <1>6
    <2> QED  BY <1>5, <2>1
  <1>9. HasFirst(U)
    <2>1. m - 1 \notin bad
      BY <1>4, <1>7
    <2> HIDE DEF HasFirst, U
    <2> QED  BY <1>7, <1>8, <2>1
  <1>10. PICK y \in U : \A z \in U \ {y} : <<y, z>> \in less
    BY <1>9
  <1>11. CASE <<x, y>> \in less
    <2>1. \A z \in T \ {x} : <<x, z>> \in less
      BY <1>5, <1>6, <1>10, <1>11 DEF IsOrder
    <2> QED  BY <1>5, <1>6, <2>1
  <1>12. CASE <<y, x>> \in less
    <2>1. \A z \in T \ {y} : <<y, z>> \in less
      BY <1>10, <1>12
    <2> QED  BY <1>5, <1>10, <2>1
  <1>13. <<x, y>> \in less \/ <<y, x>> \in less
    <2>1. x \in S /\ y \in S /\ x # y
      BY <1>5, <1>6, <1>10
    <2> QED  BY <2>1 DEF IsOrder
  <1> QED  BY <1>5, <1>11, <1>12, <1>13

\* It can be listed in the order.
LEMMA ListingExists ==
  ASSUME NEW S, IsFiniteSet(S), NEW less, IsOrder(S, less)
  PROVE  \E s \in [1 .. Cardinality(S) -> S] : IsListed(s, less)
  <1> DEFINE Good(T) == \E s \in [1 .. Cardinality(T) -> T] : IsListed(s, less)
             bad == {n \in Nat : \E T \in SUBSET S : Cardinality(T) = n /\ ~Good(T)}
  <1>1. \A T \in SUBSET S : IsFiniteSet(T) /\ Cardinality(T) \in Nat /\ IsOrder(T, less)
    BY FS_Subset, FS_CardinalityType DEF IsOrder
  <1>2. SUFFICES ASSUME ~Good(S) PROVE FALSE
    OBVIOUS
  <1>3. bad # {}
    BY <1>1, <1>2
  <1>4. PICK m \in bad : \A k \in bad : m <= k
    BY <1>3, LeastOfSome
  <1>5. PICK T \in SUBSET S : Cardinality(T) = m /\ ~Good(T)
    BY <1>4
  <1>6. T # {}
    <2> SUFFICES ASSUME T = {} PROVE FALSE
      OBVIOUS
    <2> DEFINE none == [i \in 1 .. 0 |-> 0]
    <2>1. Cardinality(T) = 0
      BY FS_EmptySet
    <2>2. none \in [1 .. 0 -> T] /\ IsListed(none, less)
      BY DEF IsListed
    <2> QED  BY <1>5, <2>1, <2>2
  <1>7. PICK x \in T : \A y \in T \ {x} : <<x, y>> \in less
    <2>1. IsFiniteSet(T) /\ IsOrder(T, less)
      BY <1>1, <1>5
    <2> HIDE DEF Good, bad
    <2> QED  BY <1>6, <2>1, FirstOfOrder
  <1> DEFINE U == T \ {x}
  <1>8. Cardinality(U) = m - 1 /\ m - 1 \in Nat /\ U \in SUBSET S
    BY <1>1, <1>5, <1>7, FS_RemoveElement
  <1>9. Good(U)
    <2>1. m - 1 \notin bad
      BY <1>4, <1>8
    <2> HIDE DEF Good, U
    <2> QED  BY <1>8, <2>1
  <1>10. PICK s \in [1 .. m - 1 -> U] : IsListed(s, less)
    BY <1>8, <1>9
  <1> DEFINE t == [i \in 1 .. m |-> IF i = 1 THEN x ELSE s[i - 1]]
  <1>11. \A i \in 1 .. m : i # 1 => i - 1 \in 1 .. m - 1 /\ s[i - 1] \in U
    BY <1>4, <1>10
  <1>12. t \in [1 .. m -> T]
    BY <1>7, <1>11
  <1>13. ASSUME NEW i \in 1 .. m, NEW j \in 1 .. m, i < j PROVE <<t[i], t[j]>> \in less
    <2>1. j # 1 /\ t[j] = s[j - 1] /\ s[j - 1] \in U
      BY <1>11, <1>13
    <2>2. CASE i = 1
      BY <1>7, <2>1, <2>2
    <2>3. CASE i # 1
      <3>1. i - 1 \in 1 .. m - 1 /\ j - 1 \in 1 .. m - 1 /\ i - 1 < j - 1 /\ t[i] = s[i - 1]
        BY <1>11, <1>13, <2>1, <2>3
      <3> QED  BY <1>10, <2>1, <3>1 DEF IsListed
    <2> QED  BY <2>2, <2>3
  <1>14. IsListed(t, less)
    <2> HIDE DEF t
    <2> QED  BY <1>12, <1>13 DEF IsListed
  <1> HIDE DEF t
  <1> QED  BY <1>5, <1>12, <1>14

\* A listing has every element, and has it once.
LEMMA ListingHasAll ==
  ASSUME NEW S, IsFiniteSet(S), NEW less, IsOrder(S, less),
         NEW s \in [1 .. Cardinality(S) -> S], IsListed(s, less)
  PROVE  /\ Cardinality(S) \in Nat
         /\ \A x \in S : \E i \in 1 .. Cardinality(S) : s[i] = x
         /\ \A i, j \in 1 .. Cardinality(S) : i # j => s[i] # s[j]
  <1> DEFINE n == Cardinality(S)
  <1>1. n \in Nat
    BY FS_CardinalityType
  <1>2. \A i, j \in 1 .. n : i # j => s[i] # s[j]
    <2>1. \A i, j \in 1 .. n : i < j => s[i] # s[j]
      BY DEF IsListed, IsOrder
    <2>2. \A i, j \in 1 .. n : i # j => i < j \/ j < i
      BY <1>1
    <2> QED  BY <2>1, <2>2
  <1>3. s \in Injection(1 .. n, S)
    BY <1>2 DEF Injection, IsInjective
  <1>4. Cardinality(1 .. n) = n
    BY <1>1, FS_Interval
  <1>5. s \in Surjection(1 .. n, S)
    BY <1>3, <1>4, FS_Injection
  <1> QED  BY <1>1, <1>2, <1>5 DEF Surjection
=============================================================================
