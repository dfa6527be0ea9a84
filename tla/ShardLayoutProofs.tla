------------------------- MODULE ShardLayoutProofs -------------------------
(***************************************************************************)
(* Lemmas about ShardLayout that the proofs about shards and about what is *)
(* made of them share: sums as MapThenSumSet of the community modules      *)
(* writes them, proved by induction on the set in the form of a minimal    *)
(* counterexample, and the slots of a shard.                               *)
(***************************************************************************)
EXTENDS ShardLayout, FiniteSetTheorems, TLAPS

(* A property of finite sets that fails fails for a smallest set.           *)
LEMMA MinimalSubset ==
  ASSUME NEW S, IsFiniteSet(S), NEW C, C \subseteq SUBSET S, C # {}
  PROVE  \E T \in C : \A U \in SUBSET T : U # T => U \notin C
<1>1. IsWellFoundedOn(StrictSubsetOrdering(S), FiniteSubsetsOf(S))
  BY FS_StrictSubsetOrderingWellFounded
<1>2. C \subseteq FiniteSubsetsOf(S)
  BY FS_FiniteSubsetsOfFinite
<1>3. PICK T \in C : \A U \in C : <<U, T>> \notin StrictSubsetOrdering(S)
  BY <1>1, <1>2, WFMin
<1> QED
  BY <1>3 DEF StrictSubsetOrdering

-----------------------------------------------------------------------------
(* The fold takes out one element after the other: g is its table of the    *)
(* sums over the subsets of S.                                              *)
First(s) == CHOOSE x \in s : TRUE

Tabulates(g, f, S) ==
  g = [s \in SUBSET S |-> IF s = {} THEN 0 ELSE f[First(s)] + g[s \ {First(s)}]]

SumOf(f, S) == MapThenSumSet(LAMBDA x : f[x], S)

LEMMA FirstIn == ASSUME NEW s, s # {} PROVE First(s) \in s
BY DEF First

(* Tables for two sets agree where both are defined.                        *)
LEMMA TablesAgree ==
  ASSUME NEW f, NEW S, NEW T, NEW g, NEW h, NEW V \in SUBSET (S \cap T),
         Tabulates(g, f, S), Tabulates(h, f, T), IsFiniteSet(V)
  PROVE  g[V] = h[V]
<1> DEFINE C == {U \in SUBSET V : g[U] # h[U]}
<1> SUFFICES ASSUME C # {} PROVE FALSE
  OBVIOUS
<1>1. PICK U \in C : \A W \in SUBSET U : W # U => W \notin C
  <2> HIDE DEF C
  <2>1. C \subseteq SUBSET V
    BY DEF C
  <2> QED BY <2>1, MinimalSubset
<1>2. U # {}
  BY <1>1 DEF Tabulates
<1>3. g[U] = f[First(U)] + g[U \ {First(U)}] /\ h[U] = f[First(U)] + h[U \ {First(U)}]
  BY <1>1, <1>2 DEF Tabulates
<1>4. U \ {First(U)} \in SUBSET U /\ U \ {First(U)} # U
  BY <1>2, FirstIn
<1>5. g[U \ {First(U)}] = h[U \ {First(U)}]
  BY <1>1, <1>4
<1> QED BY <1>1, <1>3, <1>5

(* A finite set has a table.                                                *)
LEMMA TableExists ==
  ASSUME NEW f, NEW S, IsFiniteSet(S)
  PROVE  \E g : Tabulates(g, f, S)
<1> DEFINE C == {T \in SUBSET S : ~\E g : Tabulates(g, f, T)}
<1> SUFFICES ASSUME C # {} PROVE FALSE
  OBVIOUS
<1>1. PICK T \in C : \A U \in SUBSET T : U # T => U \notin C
  <2> HIDE DEF C
  <2>1. C \subseteq SUBSET S
    BY DEF C
  <2> QED BY <2>1, MinimalSubset
<1> DEFINE Table(U) == CHOOSE g : Tabulates(g, f, U)
           rest(s) == s \ {First(s)}
           g == [s \in SUBSET T |->
                   IF s = {} THEN 0 ELSE f[First(s)] + Table(rest(s))[rest(s)]]
<1>2. \A U \in SUBSET T : U # T => Tabulates(Table(U), f, U)
  <2> TAKE U \in SUBSET T
  <2> HAVE U # T
  <2>1. \E h : Tabulates(h, f, U)
    BY <1>1
  <2> QED BY <2>1
<1>3. \A s \in SUBSET T : s # {} => rest(s) \in SUBSET s /\ rest(s) # s
  BY FirstIn
<1> HIDE DEF Table
<1>4. ASSUME NEW s \in SUBSET T, s # {}
      PROVE  g[rest(s)] = Table(rest(s))[rest(s)]
  <2> DEFINE u == rest(s)
  <2>1. u \in SUBSET T /\ u # T /\ u # {} => rest(u) \in SUBSET u /\ rest(u) # u
    BY <1>3, <1>4
  <2>2. u \in SUBSET T /\ u # T
    BY <1>3, <1>4
  <2>3. Tabulates(Table(u), f, u)
    BY <1>2, <2>2
  <2>4. CASE u = {}
    BY <2>2, <2>3, <2>4 DEF Tabulates
  <2>5. CASE u # {}
    <3>1. Table(u)[u] = f[First(u)] + Table(u)[rest(u)]
      <4> HIDE DEF rest
      <4>0. u \in SUBSET u
        OBVIOUS
      <4> QED BY <4>0, <2>3, <2>5 DEF Tabulates, rest
    <3>2. rest(u) \in SUBSET T /\ rest(u) # T /\ rest(u) \in SUBSET u
      BY <2>1, <2>2, <2>5
    <3>3. Tabulates(Table(rest(u)), f, rest(u))
      BY <1>2, <3>2
    <3>4. IsFiniteSet(rest(u))
      <4>1. rest(u) \in SUBSET S
        BY <3>2, <1>1
      <4> HIDE DEF rest
      <4> QED BY <4>1, FS_Subset
    <3>5. Table(u)[rest(u)] = Table(rest(u))[rest(u)]
      <4> DEFINE w == rest(u)
      <4>1. w \in SUBSET (u \cap w) /\ Tabulates(Table(w), f, w) /\ IsFiniteSet(w)
        BY <3>2, <3>3, <3>4
      <4> HIDE DEF w, u
      <4>2. Table(u)[w] = Table(w)[w]
        BY <2>3, <4>1, TablesAgree
      <4> QED BY <4>2 DEF w
    <3>6. g[u] = f[First(u)] + Table(rest(u))[rest(u)]
      <4> HIDE DEF u
      <4> QED BY <2>2, <2>5
    <3> QED BY <3>1, <3>5, <3>6
  <2> QED BY <2>4, <2>5
<1>5. Tabulates(g, f, T)
  <2>1. g = [s \in SUBSET T |-> IF s = {} THEN 0 ELSE f[First(s)] + g[rest(s)]]
    <3> HIDE DEF rest
    <3> QED BY <1>4
  <2> QED BY <2>1 DEF Tabulates
<1> QED BY <1>1, <1>5

LEMMA SumTable ==
  ASSUME NEW f, NEW S, IsFiniteSet(S)
  PROVE  \E g : Tabulates(g, f, S) /\ SumOf(f, S) = g[S]
<1>1. \E g : Tabulates(g, f, S)
  BY TableExists
<1> QED BY ONLY <1>1 DEF Tabulates, First, SumOf, MapThenSumSet, MapThenFoldSet

LEMMA SumEmpty == ASSUME NEW f PROVE SumOf(f, {}) = 0
<1>1. PICK g : Tabulates(g, f, {}) /\ SumOf(f, {}) = g[{}]
  BY SumTable, FS_EmptySet
<1>2. {} \in SUBSET {}
  OBVIOUS
<1> QED BY <1>1, <1>2 DEF Tabulates

LEMMA SumFirst ==
  ASSUME NEW f, NEW S, IsFiniteSet(S), S # {}
  PROVE  SumOf(f, S) = f[First(S)] + SumOf(f, S \ {First(S)})
<1> DEFINE R == S \ {First(S)}
<1>1. PICK g : Tabulates(g, f, S) /\ SumOf(f, S) = g[S]
  BY SumTable
<1>2. R \in SUBSET (S \cap R) /\ IsFiniteSet(R)
  BY FS_Subset
<1>3. PICK h : Tabulates(h, f, R) /\ SumOf(f, R) = h[R]
  BY <1>2, SumTable
<1>4. g[S] = f[First(S)] + g[R]
  <2>1. S \in SUBSET S
    OBVIOUS
  <2> QED BY <1>1, <2>1 DEF Tabulates
<1>5. g[R] = h[R]
  <2> HIDE DEF R
  <2> QED BY <1>1, <1>2, <1>3, TablesAgree
<1> QED BY <1>1, <1>3, <1>4, <1>5

-----------------------------------------------------------------------------
(* What follows is about sums of integers.                                  *)

LEMMA SumType ==
  ASSUME NEW S, IsFiniteSet(S), NEW f, \A x \in S : f[x] \in Int
  PROVE  SumOf(f, S) \in Int
<1> DEFINE C == {T \in SUBSET S : SumOf(f, T) \notin Int}
<1> SUFFICES ASSUME C # {} PROVE FALSE
  OBVIOUS
<1>1. PICK T \in C : \A U \in SUBSET T : U # T => U \notin C
  <2> HIDE DEF C
  <2>1. C \subseteq SUBSET S
    BY DEF C
  <2> QED BY <2>1, MinimalSubset
<1>2. T # {} /\ IsFiniteSet(T)
  <2>1. T # {}
    <3>1. SumOf(f, {}) \in Int
      BY SumEmpty
    <3> QED BY <1>1, <3>1
  <2>2. T \in SUBSET S
    BY <1>1
  <2> HIDE DEF C
  <2> QED BY <2>1, <2>2, FS_Subset
<1>3. First(T) \in T /\ T \ {First(T)} \notin C
  BY <1>1, <1>2, FirstIn
<1>4. SumOf(f, T) = f[First(T)] + SumOf(f, T \ {First(T)})
  BY <1>2, SumFirst
<1> QED BY <1>1, <1>3, <1>4

(* The order in which the fold takes out the elements does not matter.      *)
LEMMA SumRemove ==
  ASSUME NEW S, IsFiniteSet(S), NEW f, \A x \in S : f[x] \in Int, NEW y \in S
  PROVE  SumOf(f, S) = f[y] + SumOf(f, S \ {y})
<1> DEFINE C == {T \in SUBSET S : \E z \in T : SumOf(f, T) # f[z] + SumOf(f, T \ {z})}
<1> SUFFICES ASSUME C # {} PROVE FALSE
  OBVIOUS
<1>1. PICK T \in C : \A U \in SUBSET T : U # T => U \notin C
  <2> HIDE DEF C
  <2>1. C \subseteq SUBSET S
    BY DEF C
  <2> QED BY <2>1, MinimalSubset
<1>2. PICK z \in T : SumOf(f, T) # f[z] + SumOf(f, T \ {z})
  BY <1>1
<1> DEFINE a == First(T)
           Ta == T \ {a}
           Tz == T \ {z}
           Taz == T \ {a, z}
<1>3. a \in T /\ T \in SUBSET S
  BY <1>1, <1>2, FirstIn
<1>4. IsFiniteSet(T) /\ IsFiniteSet(Ta) /\ IsFiniteSet(Tz) /\ IsFiniteSet(Taz)
  BY <1>3, FS_Subset
<1>5. SumOf(f, T) = f[a] + SumOf(f, Ta)
  BY <1>3, <1>4, SumFirst
<1>6. a # z
  BY <1>2, <1>5
<1>7. Ta \notin C /\ Tz \notin C /\ z \in Ta /\ a \in Tz /\ Ta \in SUBSET S /\ Tz \in SUBSET S
  BY <1>1, <1>3, <1>6
<1>8. Taz = Ta \ {z} /\ Taz = Tz \ {a}
  OBVIOUS
<1>9. SumOf(f, Taz) \in Int /\ f[a] \in Int /\ f[z] \in Int
  BY <1>3, <1>4, SumType
<1> HIDE DEF a, Ta, Tz, Taz
<1>10. SumOf(f, Ta) = f[z] + SumOf(f, Taz) /\ SumOf(f, Tz) = f[a] + SumOf(f, Taz)
  BY <1>7, <1>8
<1> QED BY <1>2, <1>5, <1>9, <1>10 DEF Tz

LEMMA SumSame ==
  ASSUME NEW S, IsFiniteSet(S), NEW f, NEW g, \A x \in S : f[x] = g[x]
  PROVE  SumOf(f, S) = SumOf(g, S)
<1> DEFINE C == {T \in SUBSET S : SumOf(f, T) # SumOf(g, T)}
<1> SUFFICES ASSUME C # {} PROVE FALSE
  OBVIOUS
<1>1. PICK T \in C : \A U \in SUBSET T : U # T => U \notin C
  <2> HIDE DEF C
  <2>1. C \subseteq SUBSET S
    BY DEF C
  <2> QED BY <2>1, MinimalSubset
<1>2. T # {} /\ T \in SUBSET S
  <2>1. SumOf(f, {}) = 0 /\ SumOf(g, {}) = 0
    BY SumEmpty
  <2> QED BY <1>1, <2>1
<1>3. IsFiniteSet(T)
  BY <1>2, FS_Subset
<1>4. First(T) \in T /\ T \ {First(T)} \notin C
  BY <1>1, <1>2, FirstIn
<1>5. /\ SumOf(f, T) = f[First(T)] + SumOf(f, T \ {First(T)})
      /\ SumOf(g, T) = g[First(T)] + SumOf(g, T \ {First(T)})
  BY <1>2, <1>3, SumFirst
<1> QED BY <1>1, <1>4, <1>5

LEMMA SumMonotone ==
  ASSUME NEW S, IsFiniteSet(S), NEW f, NEW g,
         \A x \in S : f[x] \in Int /\ g[x] \in Int /\ f[x] <= g[x]
  PROVE  SumOf(f, S) <= SumOf(g, S)
<1> DEFINE C == {T \in SUBSET S : ~(SumOf(f, T) <= SumOf(g, T))}
<1> SUFFICES ASSUME C # {} PROVE FALSE
  <2>1. S \in SUBSET S
    OBVIOUS
  <2> QED BY <2>1
<1>1. PICK T \in C : \A U \in SUBSET T : U # T => U \notin C
  <2> HIDE DEF C
  <2>1. C \subseteq SUBSET S
    BY DEF C
  <2> QED BY <2>1, MinimalSubset
<1>2. T # {} /\ T \in SUBSET S
  <2>1. SumOf(f, {}) = 0 /\ SumOf(g, {}) = 0
    BY SumEmpty
  <2>2. SumOf(f, {}) <= SumOf(g, {})
    BY <2>1
  <2> QED BY <1>1, <2>2
<1> DEFINE R == T \ {First(T)}
<1>3. IsFiniteSet(T) /\ IsFiniteSet(R)
  BY <1>2, FS_Subset
<1>4. First(T) \in T /\ R \notin C /\ R \in SUBSET S
  BY <1>1, <1>2, FirstIn
<1>5. /\ SumOf(f, T) = f[First(T)] + SumOf(f, R)
      /\ SumOf(g, T) = g[First(T)] + SumOf(g, R)
  BY <1>2, <1>3, SumFirst
<1>6. SumOf(f, R) \in Int /\ SumOf(g, R) \in Int
  BY <1>3, <1>4, SumType
<1>7. SumOf(f, R) <= SumOf(g, R)
  BY <1>4
<1>8. First(T) \in S
  BY <1>2, <1>4
<1> HIDE DEF R
<1>9. SumOf(f, T) <= SumOf(g, T)
  BY <1>5, <1>6, <1>7, <1>8
<1> QED BY <1>1, <1>9

LEMMA SumNat ==
  ASSUME NEW S, IsFiniteSet(S), NEW f, \A x \in S : f[x] \in Nat
  PROVE  /\ SumOf(f, S) \in Nat
         /\ \A x \in S : f[x] <= SumOf(f, S)
<1>1. ASSUME NEW T \in SUBSET S
      PROVE  SumOf(f, T) \in Nat
  <2> DEFINE zero == [x \in T |-> 0]
  <2>1. IsFiniteSet(T)
    BY FS_Subset
  <2> DEFINE C == {U \in SUBSET T : SumOf(f, U) \notin Nat}
  <2> SUFFICES ASSUME C # {} PROVE FALSE
    <3>1. T \in SUBSET T
      OBVIOUS
    <3> QED BY <3>1
  <2>2. PICK U \in C : \A W \in SUBSET U : W # U => W \notin C
    <3> HIDE DEF C
    <3>1. C \subseteq SUBSET T
      BY DEF C
    <3> QED BY <2>1, <3>1, MinimalSubset
  <2>3. U # {} /\ U \in SUBSET T
    <3>1. SumOf(f, {}) \in Nat
      BY SumEmpty
    <3> QED BY <2>2, <3>1
  <2>4. IsFiniteSet(U)
    BY <2>1, <2>3, FS_Subset
  <2>5. SumOf(f, U) = f[First(U)] + SumOf(f, U \ {First(U)})
    BY <2>3, <2>4, SumFirst
  <2>6. First(U) \in U /\ U \ {First(U)} \notin C
    BY <2>2, <2>3, FirstIn
  <2> QED BY <2>2, <2>3, <2>5, <2>6
<1>2. ASSUME NEW x \in S
      PROVE  f[x] <= SumOf(f, S)
  <2>1. SumOf(f, S) = f[x] + SumOf(f, S \ {x})
    BY SumRemove
  <2>2. SumOf(f, S \ {x}) \in Nat
    BY <1>1
  <2> QED BY <2>1, <2>2
<1>3. S \in SUBSET S
  OBVIOUS
<1> QED BY <1>1, <1>2, <1>3

(* One of the numbers changes.                                              *)
LEMMA SumChange ==
  ASSUME NEW S, IsFiniteSet(S), NEW f, NEW g, NEW y \in S,
         \A x \in S : f[x] \in Int /\ g[x] \in Int /\ (x # y => g[x] = f[x])
  PROVE  SumOf(g, S) = SumOf(f, S) - f[y] + g[y]
<1> DEFINE R == S \ {y}
<1>1. IsFiniteSet(R)
  BY FS_Subset
<1>2. SumOf(f, R) = SumOf(g, R)
  BY <1>1, SumSame
<1>3. SumOf(f, S) = f[y] + SumOf(f, R) /\ SumOf(g, S) = g[y] + SumOf(g, R)
  BY SumRemove
<1>4. SumOf(f, R) \in Int
  BY <1>1, SumType
<1> HIDE DEF R
<1> QED BY <1>2, <1>3, <1>4

LEMMA SumZero ==
  ASSUME NEW S, IsFiniteSet(S), NEW f, \A x \in S : f[x] = 0
  PROVE  SumOf(f, S) = 0
<1> DEFINE C == {T \in SUBSET S : SumOf(f, T) # 0}
<1> SUFFICES ASSUME C # {} PROVE FALSE
  OBVIOUS
<1>1. PICK T \in C : \A U \in SUBSET T : U # T => U \notin C
  <2> HIDE DEF C
  <2>1. C \subseteq SUBSET S
    BY DEF C
  <2> QED BY <2>1, MinimalSubset
<1>2. T # {} /\ T \in SUBSET S
  <2>1. SumOf(f, {}) = 0
    BY SumEmpty
  <2> QED BY <1>1, <2>1
<1>3. IsFiniteSet(T)
  BY <1>2, FS_Subset
<1>4. First(T) \in T /\ T \ {First(T)} \notin C
  BY <1>1, <1>2, FirstIn
<1>5. SumOf(f, T) = f[First(T)] + SumOf(f, T \ {First(T)})
  BY <1>2, <1>3, SumFirst
<1> QED BY <1>1, <1>2, <1>4, <1>5

(* A bound of each number bounds the sum.                                   *)
LEMMA SumAtMost ==
  ASSUME NEW S, IsFiniteSet(S), NEW f, \A x \in S : f[x] \in Int, NEW b \in Int,
         \A x \in S : f[x] <= b
  PROVE  SumOf(f, S) <= Cardinality(S) * b
<1> DEFINE C == {T \in SUBSET S : ~(SumOf(f, T) <= Cardinality(T) * b)}
<1> SUFFICES ASSUME C # {} PROVE FALSE
  OBVIOUS
<1>1. PICK T \in C : \A U \in SUBSET T : U # T => U \notin C
  <2> HIDE DEF C
  <2>1. C \subseteq SUBSET S
    BY DEF C
  <2> QED BY <2>1, MinimalSubset
<1>2. T # {} /\ T \in SUBSET S
  <2>1. SumOf(f, {}) = 0 /\ Cardinality({}) * b = 0
    BY SumEmpty, FS_EmptySet
  <2>2. {} \notin C
    BY <2>1
  <2> HIDE DEF C
  <2>3. T \in SUBSET S
    BY <1>1 DEF C
  <2> QED BY <1>1, <2>2, <2>3
<1> DEFINE y == First(T)
           U == T \ {y}
<1>3. IsFiniteSet(T) /\ IsFiniteSet(U)
  BY <1>2, FS_Subset
<1>4. y \in T /\ U \notin C /\ U \in SUBSET S
  BY <1>1, <1>2, FirstIn
<1>5. SumOf(f, T) = f[y] + SumOf(f, U)
  BY <1>2, <1>3, SumFirst
<1>6. SumOf(f, U) \in Int
  BY <1>3, <1>4, SumType
<1>7. Cardinality(U) = Cardinality(T) - 1 /\ Cardinality(U) \in Nat /\ Cardinality(T) \in Nat
  BY <1>3, <1>4, FS_RemoveElement, FS_CardinalityType
<1>8. SumOf(f, U) <= Cardinality(U) * b
  BY <1>4
<1>9. f[y] \in Int /\ f[y] <= b
  BY <1>2, <1>4
<1>10. ~(SumOf(f, T) <= Cardinality(T) * b)
  BY <1>1
<1> HIDE DEF C, U, y
<1>11. Cardinality(T) * b = Cardinality(U) * b + b /\ Cardinality(U) * b \in Int
  BY <1>7
<1> QED BY <1>5, <1>6, <1>8, <1>9, <1>10, <1>11

LEMMA SumAtLeast ==
  ASSUME NEW S, IsFiniteSet(S), NEW f, \A x \in S : f[x] \in Int, NEW b \in Int,
         \A x \in S : b <= f[x]
  PROVE  Cardinality(S) * b <= SumOf(f, S)
<1> DEFINE C == {T \in SUBSET S : ~(Cardinality(T) * b <= SumOf(f, T))}
<1> SUFFICES ASSUME C # {} PROVE FALSE
  OBVIOUS
<1>1. PICK T \in C : \A U \in SUBSET T : U # T => U \notin C
  <2> HIDE DEF C
  <2>1. C \subseteq SUBSET S
    BY DEF C
  <2> QED BY <2>1, MinimalSubset
<1>2. T # {} /\ T \in SUBSET S
  <2>1. SumOf(f, {}) = 0 /\ Cardinality({}) * b = 0
    BY SumEmpty, FS_EmptySet
  <2>2. {} \notin C
    BY <2>1
  <2> HIDE DEF C
  <2>3. T \in SUBSET S
    BY <1>1 DEF C
  <2> QED BY <1>1, <2>2, <2>3
<1> DEFINE y == First(T)
           U == T \ {y}
<1>3. IsFiniteSet(T) /\ IsFiniteSet(U)
  BY <1>2, FS_Subset
<1>4. y \in T /\ U \notin C /\ U \in SUBSET S
  BY <1>1, <1>2, FirstIn
<1>5. SumOf(f, T) = f[y] + SumOf(f, U)
  BY <1>2, <1>3, SumFirst
<1>6. SumOf(f, U) \in Int
  BY <1>3, <1>4, SumType
<1>7. Cardinality(U) = Cardinality(T) - 1 /\ Cardinality(U) \in Nat /\ Cardinality(T) \in Nat
  BY <1>3, <1>4, FS_RemoveElement, FS_CardinalityType
<1>8. Cardinality(U) * b <= SumOf(f, U)
  BY <1>4
<1>9. f[y] \in Int /\ b <= f[y]
  BY <1>2, <1>4
<1>10. ~(Cardinality(T) * b <= SumOf(f, T))
  BY <1>1
<1> HIDE DEF C, U, y
<1>11. Cardinality(T) * b = Cardinality(U) * b + b /\ Cardinality(U) * b \in Int
  BY <1>7
<1> QED BY <1>5, <1>6, <1>8, <1>9, <1>10, <1>11

(* Cutting each number to whole units loses less than a unit of each.       *)
LEMMA SumCut ==
  ASSUME NEW S, IsFiniteSet(S), NEW f, NEW g,
         \A x \in S : f[x] \in Int /\ g[x] \in Int /\ 2 * f[x] <= g[x] /\ g[x] <= 2 * f[x] + 1
  PROVE  2 * SumOf(f, S) <= SumOf(g, S) /\ SumOf(g, S) <= 2 * SumOf(f, S) + Cardinality(S)
<1> DEFINE Cut(T) == 2 * SumOf(f, T) <= SumOf(g, T)
                       /\ SumOf(g, T) <= 2 * SumOf(f, T) + Cardinality(T)
           C == {T \in SUBSET S : ~Cut(T)}
<1> SUFFICES ASSUME C # {} PROVE FALSE
  OBVIOUS
<1>1. PICK T \in C : \A U \in SUBSET T : U # T => U \notin C
  <2> HIDE DEF C
  <2>1. C \subseteq SUBSET S
    BY DEF C
  <2> QED BY <2>1, MinimalSubset
<1>2. T # {} /\ T \in SUBSET S
  <2>1. SumOf(f, {}) = 0 /\ SumOf(g, {}) = 0 /\ Cardinality({}) = 0
    BY SumEmpty, FS_EmptySet
  <2>2. {} \notin C
    BY <2>1
  <2> HIDE DEF C
  <2>3. T \in SUBSET S
    BY <1>1 DEF C
  <2> QED BY <1>1, <2>2, <2>3
<1> DEFINE y == First(T)
           U == T \ {y}
<1>3. IsFiniteSet(T) /\ IsFiniteSet(U)
  BY <1>2, FS_Subset
<1>4. y \in T /\ U \notin C /\ U \in SUBSET S
  BY <1>1, <1>2, FirstIn
<1>5. SumOf(f, T) = f[y] + SumOf(f, U) /\ SumOf(g, T) = g[y] + SumOf(g, U)
  BY <1>2, <1>3, SumFirst
<1>6. SumOf(f, U) \in Int /\ SumOf(g, U) \in Int
  BY <1>3, <1>4, SumType
<1>7. Cardinality(U) = Cardinality(T) - 1 /\ Cardinality(U) \in Nat /\ Cardinality(T) \in Nat
  BY <1>3, <1>4, FS_RemoveElement, FS_CardinalityType
<1>8. Cut(U)
  BY <1>4
<1>9. f[y] \in Int /\ g[y] \in Int /\ 2 * f[y] <= g[y] /\ g[y] <= 2 * f[y] + 1
  BY <1>2, <1>4
<1>10. ~Cut(T)
  BY <1>1
<1> HIDE DEF C, U, y
<1> QED BY <1>5, <1>6, <1>7, <1>8, <1>9, <1>10

(* Counting by classes: h says which class each element of S is in.         *)
Within(S, h, T) == {x \in S : h[x] \in T}

LEMMA SumOfClasses ==
  ASSUME NEW S, IsFiniteSet(S), NEW h, NEW T, IsFiniteSet(T), NEW f,
         \A c \in T : f[c] = Cardinality(Within(S, h, {c}))
  PROVE  SumOf(f, T) = Cardinality(Within(S, h, T))
<1> DEFINE Of(V) == Within(S, h, V)
           C == {V \in SUBSET T : ~(SumOf(f, V) = Cardinality(Of(V)))}
<1> SUFFICES ASSUME C # {} PROVE FALSE
  OBVIOUS
<1>1. PICK V \in C : \A U \in SUBSET V : U # V => U \notin C
  <2> HIDE DEF C
  <2>1. C \subseteq SUBSET T
    BY DEF C
  <2> QED BY <2>1, MinimalSubset
<1>2. V # {} /\ V \in SUBSET T
  <2>1. SumOf(f, {}) = 0 /\ Cardinality({}) = 0
    BY SumEmpty, FS_EmptySet
  <2>2. Of({}) = {}
    BY DEF Within
  <2> QED BY <1>1, <2>1, <2>2
<1> DEFINE y == First(V)
           U == V \ {y}
           One == Within(S, h, {y})
<1>3. IsFiniteSet(V)
  BY <1>2, FS_Subset
<1>4. y \in V /\ U \notin C /\ U \in SUBSET T
  BY <1>1, <1>2, FirstIn
<1>5. SumOf(f, V) = f[y] + SumOf(f, U)
  BY <1>2, <1>3, SumFirst
<1>6. SumOf(f, U) = Cardinality(Of(U)) /\ ~(SumOf(f, V) = Cardinality(Of(V)))
  BY <1>1, <1>4
<1>7. f[y] = Cardinality(One)
  BY <1>2, <1>4
<1>8. Of(V) = One \cup Of(U) /\ One \cap Of(U) = {}
  <2> HIDE DEF y
  <2> QED BY <1>4 DEF Within
<1>9. One \in SUBSET S /\ Of(U) \in SUBSET S
  BY DEF Within
<1> HIDE DEF C, U, y, One, Of
<1>10. IsFiniteSet(One) /\ IsFiniteSet(Of(U))
  BY <1>9, FS_Subset
<1>11. Cardinality(One) \in Nat /\ Cardinality(Of(U)) \in Nat /\ Cardinality({}) = 0
  BY <1>10, FS_CardinalityType, FS_EmptySet
<1>12. Cardinality(Of(V)) = Cardinality(One) + Cardinality(Of(U)) - Cardinality(One \cap Of(U))
  BY <1>8, <1>10, FS_Union
<1>13. Cardinality(Of(V)) = Cardinality(One) + Cardinality(Of(U))
  <2>1. Cardinality(One \cap Of(U)) = 0
    BY ONLY <1>8, <1>11
  <2>2. Of(V) = One \cup Of(U)
    BY <1>8
  <2> QED BY ONLY <1>11, <1>12, <2>1, <2>2
<1> QED BY <1>5, <1>6, <1>7, <1>11, <1>13

(* Finitely many numbers have a least and a greatest.                       *)
LEMMA LeastExists ==
  ASSUME NEW S, IsFiniteSet(S), S # {}, NEW f, \A x \in S : f[x] \in Int
  PROVE  \E x \in S : \A y \in S : f[x] <= f[y]
<1> DEFINE C == {T \in SUBSET S : T # {} /\ ~\E x \in T : \A y \in T : f[x] <= f[y]}
<1> SUFFICES ASSUME C # {} PROVE FALSE
  BY DEF C
<1>1. PICK T \in C : \A U \in SUBSET T : U # T => U \notin C
  <2> HIDE DEF C
  <2>1. C \subseteq SUBSET S
    BY DEF C
  <2> QED BY <2>1, MinimalSubset
<1>2. PICK y \in T : TRUE
  BY <1>1
<1> DEFINE U == T \ {y}
<1>3. CASE U = {}
  BY <1>1, <1>2, <1>3
<1>4. CASE U # {}
  <2>1. PICK x \in U : \A z \in U : f[x] <= f[z]
    BY <1>1, <1>2, <1>4
  <2>2. CASE f[x] <= f[y]
    <3>1. \A z \in T : f[x] <= f[z]
      BY <2>1, <2>2
    <3> QED BY <1>1, <2>1, <3>1
  <2>3. CASE ~(f[x] <= f[y])
    <3>1. \A z \in T : f[z] \in Int
      BY <1>1
    <3>2. \A z \in T : f[y] <= f[z]
      BY <1>2, <2>1, <2>3, <3>1
    <3> QED BY <1>1, <1>2, <3>2
  <2> QED BY <2>2, <2>3
<1> QED BY <1>3, <1>4

LEMMA GreatestExists ==
  ASSUME NEW S, IsFiniteSet(S), S # {}, NEW f, \A x \in S : f[x] \in Int
  PROVE  \E x \in S : \A y \in S : f[y] <= f[x]
<1> DEFINE g == [x \in S |-> 0 - f[x]]
<1>1. \A x \in S : g[x] \in Int
  OBVIOUS
<1>2. PICK x \in S : \A y \in S : g[x] <= g[y]
  <2> HIDE DEF g
  <2> QED BY <1>1, LeastExists
<1> QED BY <1>2

-----------------------------------------------------------------------------
(* The slots of a shard.                                                    *)

(* A latency falls in one of the buckets of the histogram.                  *)
LEMMA BucketType ==
  ASSUME NEW t \in Int
  PROVE  bucket_index(t) \in 0 .. Len(BUCKET_BOUNDS)
<1> DEFINE B == 1 .. Len(BUCKET_BOUNDS)
           S == {i \in B : TICKS_PER_US * BUCKET_BOUNDS[i] < t}
<1>1. Len(BUCKET_BOUNDS) \in Nat
  BY BoundsAssumption
<1>2. IsFiniteSet(B) /\ Cardinality(B) = Len(BUCKET_BOUNDS)
  <2>1. Len(BUCKET_BOUNDS) \in Int /\ 1 \in Int
    BY <1>1
  <2>2. /\ IsFiniteSet(B)
        /\ Cardinality(B) = IF 1 > Len(BUCKET_BOUNDS) THEN 0 ELSE Len(BUCKET_BOUNDS) - 1 + 1
    BY ONLY <2>1, FS_Interval
  <2> QED BY <1>1, <2>2
<1>3. S \in SUBSET B
  OBVIOUS
<1>4. IsFiniteSet(S) /\ Cardinality(S) <= Cardinality(B)
  <2> HIDE DEF B, S
  <2> QED BY <1>2, <1>3, FS_Subset
<1>5. Cardinality(S) \in Nat
  <2> HIDE DEF S
  <2> QED BY <1>4, FS_CardinalityType
<1> QED BY <1>1, <1>2, <1>4, <1>5 DEF bucket_index

(* A slower request is in no earlier bucket.                                *)
LEMMA BucketMonotone ==
  ASSUME NEW t \in Int, NEW u \in Int, t <= u
  PROVE  bucket_index(t) <= bucket_index(u)
<1> DEFINE A(v) == {i \in 1 .. Len(BUCKET_BOUNDS) : TICKS_PER_US * BUCKET_BOUNDS[i] < v}
<1>1. Len(BUCKET_BOUNDS) \in Nat /\ \A i \in 1 .. Len(BUCKET_BOUNDS) : BUCKET_BOUNDS[i] \in Nat
  BY BoundsAssumption
<1>2. A(t) \in SUBSET A(u) /\ A(u) \in SUBSET (1 .. Len(BUCKET_BOUNDS))
  BY <1>1 DEF TICKS_PER_US
<1>3. bucket_index(t) = Cardinality(A(t)) /\ bucket_index(u) = Cardinality(A(u))
  BY DEF bucket_index
<1>4. IsFiniteSet(1 .. Len(BUCKET_BOUNDS))
  BY <1>1, FS_Interval
<1> HIDE DEF A
<1>5. IsFiniteSet(A(u))
  BY <1>2, <1>4, FS_Subset
<1> QED BY <1>2, <1>3, <1>5, FS_Subset

(* A latency in the overflow bucket is over every bound.                    *)
LEMMA Overflow ==
  ASSUME NEW t \in Int, bucket_index(t) = Len(BUCKET_BOUNDS)
  PROVE  \A i \in 1 .. Len(BUCKET_BOUNDS) : TICKS_PER_US * BUCKET_BOUNDS[i] < t
<1> DEFINE N == 1 .. Len(BUCKET_BOUNDS)
           A == {i \in N : TICKS_PER_US * BUCKET_BOUNDS[i] < t}
<1>1. Len(BUCKET_BOUNDS) \in Nat
  BY BoundsAssumption
<1>2. IsFiniteSet(N) /\ Cardinality(N) = Len(BUCKET_BOUNDS)
  <2>1. Len(BUCKET_BOUNDS) \in Int /\ 1 \in Int
    BY <1>1
  <2>2. /\ IsFiniteSet(N)
        /\ Cardinality(N) = IF 1 > Len(BUCKET_BOUNDS) THEN 0 ELSE Len(BUCKET_BOUNDS) - 1 + 1
    BY ONLY <2>1, FS_Interval
  <2> QED BY <1>1, <2>2
<1>3. A \in SUBSET N /\ Cardinality(A) = Cardinality(N)
  BY <1>2 DEF bucket_index
<1>4. A = N
  <2> HIDE DEF A, N
  <2> QED BY <1>2, <1>3, FS_Subset
<1> QED BY <1>4

(* The layout has room for the header, the counters and the histogram.      *)
LEMMA SlotType ==
  /\ Len(BUCKET_BOUNDS) \in Nat
  /\ SHARD_LEN_U64 \in Nat /\ SHARD_LEN_U64 >= 9
  /\ MergeSlots \subseteq Slot
  /\ HeaderSlots \subseteq Slot
  /\ \A req \in Requests : RecordSlots(req) \subseteq Slot \ {I_VERSION, I_PID}
<1>1. Len(BUCKET_BOUNDS) \in Nat
  BY BoundsAssumption
<1>2. SHARD_LEN_U64 = Len(BUCKET_BOUNDS) + 9
  BY <1>1 DEF SHARD_LEN_U64, NUM_BUCKETS, I_BUCKETS_START
<1>3. MergeSlots \subseteq Slot /\ HeaderSlots \subseteq Slot
  BY <1>1, <1>2 DEF MergeSlots, HeaderSlots, Slot, I_VERSION, I_PID, I_TOTAL, I_MIN_US,
                    I_MAX_US, I_BUCKETS_START
<1>4. ASSUME NEW req \in Requests
      PROVE  RecordSlots(req) \subseteq Slot \ {I_VERSION, I_PID}
  <2>1. bucket_index(req.ticks) \in 0 .. Len(BUCKET_BOUNDS)
    BY BucketType, RequestAssumption
  <2> QED BY <2>1, <1>1, <1>2 DEF RecordSlots, Slot, I_VERSION, I_PID, I_TOTAL, I_ERRORS,
             I_SUM_US, I_MIN_US, I_MAX_US, I_BUCKETS_START
<1> QED BY <1>1, <1>2, <1>3, <1>4

LEMMA MicrosType ==
  ASSUME NEW t \in Int
  PROVE  micros(t) \in Nat
BY DEF micros, TICKS_PER_US

LEMMA AddedType ==
  ASSUME NEW s \in Slot, NEW v \in Nat, NEW us \in Nat
  PROVE  Added(s, v, us) \in Nat
BY DEF Added

(* The slots that only ever count up.                                       *)
Counters == MergeSlots \ {I_MIN_US}

LEMMA CounterSlots ==
  /\ {I_TOTAL, I_ERRORS, I_SUM_US, I_MAX_US} \subseteq Counters
  /\ Counters \subseteq Slot
  /\ HeaderSlots \cap Counters = {}
  /\ I_VERSION \in Slot /\ I_PID \in Slot /\ I_VERSION # I_PID
  /\ I_VERSION \notin MergeSlots /\ I_PID \notin MergeSlots
  /\ {I_VERSION, I_PID} \subseteq HeaderSlots
BY SlotType DEF Counters, MergeSlots, HeaderSlots, Slot, I_VERSION, I_PID, I_TOTAL, I_ERRORS,
   I_SUM_US, I_MIN_US, I_MAX_US, I_BUCKETS_START

(* The slots of the histogram.                                              *)
BucketSlots == I_BUCKETS_START .. SHARD_LEN_U64 - 1

LEMMA BucketSlotsType ==
  /\ IsFiniteSet(BucketSlots)
  /\ BucketSlots \subseteq Counters
  /\ BucketSlots \subseteq Slot
  /\ BucketSlots \cap {I_TOTAL, I_ERRORS, I_SUM_US, I_MIN_US, I_MAX_US} = {}
<1>1. IsFiniteSet(BucketSlots)
  BY SlotType, FS_Interval DEF BucketSlots, I_BUCKETS_START
<1> QED
  BY <1>1, SlotType DEF BucketSlots, Counters, MergeSlots, Slot, I_BUCKETS_START, I_TOTAL,
     I_ERRORS, I_SUM_US, I_MIN_US, I_MAX_US

(* The request of a record() that begins is owed to the total, to one       *)
(* bucket, and to the errors or not.                                        *)
LEMMA RecordSlotsOwed ==
  ASSUME NEW req \in Requests
  PROVE  /\ I_TOTAL \in RecordSlots(req)
         /\ I_BUCKETS_START + bucket_index(req.ticks) \in BucketSlots
         /\ RecordSlots(req) \cap BucketSlots = {I_BUCKETS_START + bucket_index(req.ticks)}
<1>1. req.ticks \in Int
  BY RequestAssumption
<1> DEFINE b == I_BUCKETS_START + bucket_index(req.ticks)
<1>2. b \in BucketSlots
  <2>1. bucket_index(req.ticks) \in 0 .. Len(BUCKET_BOUNDS)
    BY <1>1, BucketType
  <2> QED BY <2>1, SlotType DEF BucketSlots, SHARD_LEN_U64, NUM_BUCKETS, I_BUCKETS_START
<1> HIDE DEF b
<1>3. RecordSlots(req) = {I_TOTAL, I_SUM_US, I_MIN_US, I_MAX_US, b}
                           \cup {s \in {I_ERRORS} : req.status >= 400}
  BY DEF RecordSlots, b
<1>4. RecordSlots(req) \cap BucketSlots = {b}
  BY <1>2, <1>3, BucketSlotsType
<1> QED BY <1>2, <1>3, <1>4 DEF b
=============================================================================
