-------------------------- MODULE CacheLimitsProofs --------------------------
(****************************************************************************)
(* Proofs about what ModuleCacheProofs leaves closed, for any number of     *)
(* keys, any sizes and any limits: the order of use, the byte count, the    *)
(* eviction, and the outputs of guests.                                     *)
(*                                                                          *)
(* The definitions involved are folds and recursive functions.  Each is     *)
(* first shown to satisfy its own equation (a function that does exists, so *)
(* CHOOSE finds one), by taking a least size at which none would; what it   *)
(* computes is then shown by least counterexamples in the same way.         *)
(****************************************************************************)
EXTENDS ModuleCacheProofs, WellFoundedInduction

-----------------------------------------------------------------------------
(* Recursion *)

(* A set of naturals that is not empty has a least element. *)
LEMMA LeastNatural ==
  ASSUME NEW T, T \subseteq Nat, T # {}
  PROVE  \E n \in T : \A m \in T : n <= m
<1>1. \E n \in T : \A m \in T : ~(<<m, n>> \in OpToRel(<, Nat))
  BY NatLessThanWellFounded, WFMin, Zenon
<1>2. PICK n \in T : \A m \in T : ~(m < n)
  BY <1>1 DEF OpToRel
<1> QED BY <1>2

(* Of all subsets of a finite set that are in a family, one is smallest. *)
LEMMA SmallestSubset ==
  ASSUME NEW S, IsFiniteSet(S), NEW F, F \subseteq SUBSET S, F # {}
  PROVE  \E T \in F : \A U \in F : Cardinality(T) <= Cardinality(U)
<1> DEFINE N == {Cardinality(T) : T \in F}
<1>1. \A T \in F : IsFiniteSet(T) /\ Cardinality(T) \in Nat
  BY FS_Subset, FS_CardinalityType
<1>2. N \subseteq Nat /\ N # {}
  BY <1>1
<1>3. \E n \in N : \A m \in N : n <= m
  <2> HIDE DEF N
  <2> QED BY <1>2, LeastNatural
<1> QED BY <1>3

(* A fold of the finite set S with results in V: ch picks the next element, *)
(* st says what becomes of the result.                                      *)
Foldable(S, V, base, ch, st) ==
    /\ IsFiniteSet(S)
    /\ base \in V
    /\ \A T \in SUBSET S : T # {} => ch[T] \in T
    /\ \A x \in S, v \in V : st[x][v] \in V

IsFold(it, S, V, base, ch, st) ==
    /\ it \in [SUBSET S -> V]
    /\ it[{}] = base
    /\ \A T \in SUBSET S : T # {} => it[T] = st[ch[T]][it[T \ {ch[T]}]]

(* Folding a finite set is well defined. *)
LEMMA FoldDefined ==
  ASSUME NEW S, NEW V, NEW base, NEW ch, NEW st, Foldable(S, V, base, ch, st)
  PROVE  \E it : IsFold(it, S, V, base, ch, st)
<1> DEFINE Upto(n) == {T \in SUBSET S : Cardinality(T) <= n}
           Eq(it, T) == it[T] = IF T = {} THEN base ELSE st[ch[T]][it[T \ {ch[T]}]]
           Q(n) == \E it \in [Upto(n) -> V] : \A T \in Upto(n) : Eq(it, T)
           Bad == {n \in Nat : ~Q(n)}
<1>0. /\ IsFiniteSet(S) /\ base \in V
      /\ \A T \in SUBSET S : T # {} => ch[T] \in T
      /\ \A x \in S, v \in V : st[x][v] \in V
  BY DEF Foldable
<1>1. \A T \in SUBSET S : IsFiniteSet(T) /\ Cardinality(T) \in Nat /\ Cardinality(T) <= Cardinality(S)
  BY <1>0, FS_Subset, FS_CardinalityType
<1>2. Cardinality(S) \in Nat
  BY <1>0, FS_CardinalityType
<1>3. Bad = {}
  <2>1. SUFFICES ASSUME Bad # {} PROVE FALSE
    OBVIOUS
  <2>2. PICK n \in Bad : \A m \in Bad : n <= m
    <3> HIDE DEF Bad
    <3>1. Bad \subseteq Nat
      BY DEF Bad
    <3> QED BY <2>1, <3>1, LeastNatural
  <2>3. CASE n = 0
    <3> DEFINE it == [T \in Upto(0) |-> base]
    <3>1. \A T \in Upto(0) : T = {}
      <4>1. SUFFICES ASSUME NEW T \in Upto(0) PROVE T = {}
        OBVIOUS
      <4>2. IsFiniteSet(T) /\ Cardinality(T) = 0
        BY <1>1, <4>1
      <4> QED BY <4>2, FS_EmptySet
    <3>2. it \in [Upto(0) -> V] /\ \A T \in Upto(0) : it[T] = base
      BY <1>0
    <3>3. \A T \in Upto(0) : Eq(it, T)
      BY <3>1, <3>2
    <3>4. Q(0)
      <4> HIDE DEF it, Eq, Upto
      <4> QED BY <3>2, <3>3
    <3> QED BY <2>2, <2>3, <3>4
  <2>4. CASE n # 0
    <3>1. n - 1 \in Nat /\ n \in Nat
      BY <2>2, <2>4
    <3>2. Q(n - 1)
      <4> HIDE DEF Q
      <4>1. n - 1 \notin Bad
        <5> HIDE DEF Bad
        <5> QED BY <2>2, <3>1
      <4> QED BY <3>1, <4>1
    <3>3. PICK it \in [Upto(n - 1) -> V] : \A T \in Upto(n - 1) : Eq(it, T)
      BY <3>2
    <3> DEFINE jt == [T \in Upto(n) |->
                        IF T \in Upto(n - 1) THEN it[T] ELSE st[ch[T]][it[T \ {ch[T]}]]]
    <3>4. \A T \in Upto(n) : T # {} => ch[T] \in T /\ ch[T] \in S /\ T \ {ch[T]} \in Upto(n - 1)
      <4>1. SUFFICES ASSUME NEW T \in Upto(n), T # {}
                     PROVE  ch[T] \in T /\ ch[T] \in S /\ T \ {ch[T]} \in Upto(n - 1)
        OBVIOUS
      <4>2. ch[T] \in T /\ ch[T] \in S /\ T \ {ch[T]} \in SUBSET S
        BY <1>0, <4>1
      <4>3. Cardinality(T \ {ch[T]}) = Cardinality(T) - 1
        BY <1>1, <4>1, <4>2, FS_RemoveElement
      <4>4. Cardinality(T) <= n /\ Cardinality(T) \in Nat
        BY <1>1
      <4>5. Cardinality(T \ {ch[T]}) <= n - 1
        BY <3>1, <4>3, <4>4
      <4> QED BY <4>2, <4>5
    <3>5. {} \in Upto(n - 1)
      BY <3>1, FS_EmptySet
    <3>6. \A T \in Upto(n) : (IF T \in Upto(n - 1) THEN it[T] ELSE st[ch[T]][it[T \ {ch[T]}]]) \in V
      <4> HIDE DEF Upto, Eq
      <4> QED BY <1>0, <3>3, <3>4, <3>5
    <3>7. jt \in [Upto(n) -> V]
      <4> HIDE DEF Upto
      <4> QED BY <3>6
    <3>8. \A T \in Upto(n) : jt[T] = IF T \in Upto(n - 1) THEN it[T] ELSE st[ch[T]][it[T \ {ch[T]}]]
      <4> HIDE DEF Upto
      <4> QED OBVIOUS
    <3>9. Upto(n - 1) \subseteq Upto(n)
      BY <1>1, <3>1
    <3>10. \A T \in Upto(n) : Eq(jt, T)
      <4>1. SUFFICES ASSUME NEW T \in Upto(n) PROVE Eq(jt, T)
        OBVIOUS
      <4> HIDE DEF Upto, jt
      <4>2. CASE T = {}
        BY <3>3, <3>5, <3>8, <4>2
      <4>3. CASE T # {}
        <5>1. T \ {ch[T]} \in Upto(n - 1) /\ jt[T \ {ch[T]}] = it[T \ {ch[T]}]
          BY <3>4, <3>8, <3>9, <4>3
        <5>2. jt[T] = st[ch[T]][it[T \ {ch[T]}]]
          BY <3>3, <3>8, <4>3
        <5> QED BY <4>3, <5>1, <5>2
      <4> QED BY <4>2, <4>3
    <3>11. Q(n)
      <4> HIDE DEF Upto, Eq, jt
      <4> QED BY <3>7, <3>10
    <3> QED BY <2>2, <3>11
  <2> QED BY <2>3, <2>4
<1>4. Q(Cardinality(S))
  BY <1>2, <1>3
<1>5. Upto(Cardinality(S)) = SUBSET S
  BY <1>1
<1>6. PICK it \in [SUBSET S -> V] : \A T \in SUBSET S : Eq(it, T)
  BY <1>4, <1>5
<1>7. it[{}] = base
  BY <1>6
<1>8. \A T \in SUBSET S : T # {} => it[T] = st[ch[T]][it[T \ {ch[T]}]]
  BY <1>6
<1> QED BY <1>6, <1>7, <1>8 DEF IsFold

-----------------------------------------------------------------------------
(* Bytes *)

Weights(c) == [k \in Keys |-> Size[c[k].content]]

(* A sum that does not depend on the order of its terms. *)
SumsUp(it, w, S) ==
    /\ it \in [SUBSET S -> Nat]
    /\ it[{}] = 0
    /\ \A T \in SUBSET S : \A x \in T : it[T] = w[x] + it[T \ {x}]

(* Two sums over the same set are the same. *)
LEMMA SumUnique ==
  ASSUME NEW S, IsFiniteSet(S), NEW w, NEW f, NEW g, SumsUp(f, w, S), SumsUp(g, w, S)
  PROVE  f = g
<1> DEFINE F == {T \in SUBSET S : f[T] # g[T]}
<1>1. F = {}
  <2>1. SUFFICES ASSUME F # {} PROVE FALSE
    OBVIOUS
  <2>2. PICK T \in F : \A U \in F : Cardinality(T) <= Cardinality(U)
    <3> HIDE DEF F
    <3>1. F \subseteq SUBSET S
      BY DEF F
    <3> QED BY <2>1, <3>1, SmallestSubset
  <2>3. PICK x \in T : TRUE
    BY <2>2 DEF SumsUp
  <2>4. IsFiniteSet(T) /\ Cardinality(T) \in Nat
    BY <2>2, FS_Subset, FS_CardinalityType
  <2>5. Cardinality(T \ {x}) = Cardinality(T) - 1
    BY <2>3, <2>4, FS_RemoveElement
  <2>6. T \ {x} \notin F
    BY <2>2, <2>4, <2>5
  <2>7. f[T \ {x}] = g[T \ {x}]
    BY <2>2, <2>6
  <2> QED BY <2>2, <2>3, <2>7 DEF SumsUp
<1> QED BY <1>1 DEF SumsUp

(* MapThenSumSet adds up the sizes, in whatever order it picks them. *)
LEMMA BytesSumUp ==
  ASSUME NEW c \in CacheType, NEW S \in SUBSET Keys, IsFiniteSet(S)
  PROVE  \E it : SumsUp(it, Weights(c), S) /\ Bytes(c, S) = it[S]
<1> DEFINE w == Weights(c)
           pick(T) == CHOOSE x \in T : TRUE
           ch == [T \in SUBSET S |-> pick(T)]
           st == [x \in S |-> [v \in Nat |-> w[x] + v]]
           body(it) == [T \in SUBSET S |-> IF T = {} THEN 0 ELSE Size[c[pick(T)].content] + it[T \ {pick(T)}]]
<1>1. \A x \in S : w[x] \in Nat /\ w[x] = Size[c[x].content]
  BY ModuleCacheAssumption DEF Weights, CacheType
<1>2. \A T \in SUBSET S : T # {} => pick(T) \in T
  OBVIOUS
<1>3. \E it : it \in [SUBSET S -> Nat] /\ it = body(it)
  <2>1. \A T \in SUBSET S : T # {} => ch[T] \in T
    BY <1>2
  <2>2. \A T \in SUBSET S : ch[T] = pick(T)
    OBVIOUS
  <2> HIDE DEF pick, w, ch
  <2>3. \A x \in S, v \in Nat : st[x][v] = w[x] + v
    OBVIOUS
  <2>4. \A x \in S, v \in Nat : st[x][v] \in Nat
    BY <1>1, <2>3
  <2> HIDE DEF st
  <2>5. Foldable(S, Nat, 0, ch, st)
    BY <2>1, <2>4 DEF Foldable
  <2>6. PICK it : IsFold(it, S, Nat, 0, ch, st)
    BY <2>5, FoldDefined
  <2>7. ASSUME NEW T \in SUBSET S, T # {}
        PROVE  it[T] = Size[c[pick(T)].content] + it[T \ {pick(T)}]
    <3>1. it[T] = st[pick(T)][it[T \ {pick(T)}]]
      BY <2>2, <2>6, <2>7 DEF IsFold
    <3>2. pick(T) \in S /\ it[T \ {pick(T)}] \in Nat
      <4>1. pick(T) \in T /\ T \ {pick(T)} \in SUBSET S
        BY <1>2, <2>7
      <4> QED BY <2>6, <4>1 DEF IsFold
    <3> QED BY <1>1, <2>3, <3>1, <3>2
  <2>8. \A T \in SUBSET S : it[T] = IF T = {} THEN 0 ELSE Size[c[pick(T)].content] + it[T \ {pick(T)}]
    BY <2>6, <2>7 DEF IsFold
  <2>9. it = body(it)
    BY <2>6, <2>8 DEF IsFold
  <2> HIDE DEF body
  <2> QED BY <2>6, <2>9 DEF IsFold
<1>4. PICK it : it = body(it) /\ Bytes(c, S) = it[S]
  <2>1. Bytes(c, S) = (CHOOSE it : it = body(it))[S]
    BY DEF Bytes, MapThenSumSet, MapThenFoldSet
  <2>2. (CHOOSE it : it = body(it)) = body(CHOOSE it : it = body(it))
    <3> HIDE DEF body
    <3> QED BY <1>3
  <2> HIDE DEF body
  <2> QED BY <2>1, <2>2
<1>5. /\ it[{}] = 0
      /\ \A T \in SUBSET S : T # {} => it[T] = w[pick(T)] + it[T \ {pick(T)}]
  <2>1. \A T \in SUBSET S : it[T] = IF T = {} THEN 0 ELSE Size[c[pick(T)].content] + it[T \ {pick(T)}]
    <3> HIDE DEF pick
    <3> QED BY <1>4, Zenon
  <2> HIDE DEF pick, w
  <2> QED BY <1>1, <1>2, <2>1
<1>6. DOMAIN it = SUBSET S
  BY <1>4
<1> HIDE DEF pick, w, body
<1>7. \A T \in SUBSET S : IsFiniteSet(T) /\ Cardinality(T) \in Nat
  BY FS_Subset, FS_CardinalityType
<1>8. \A T \in SUBSET S : \A x \in T : Cardinality(T \ {x}) = Cardinality(T) - 1 /\ T \ {x} \in SUBSET S
  BY <1>7, FS_RemoveElement
<1>9. \A T \in SUBSET S : it[T] \in Nat
  <2> DEFINE F == {T \in SUBSET S : it[T] \notin Nat}
  <2>1. SUFFICES ASSUME F # {} PROVE FALSE
    OBVIOUS
  <2>2. PICK T \in F : \A U \in F : Cardinality(T) <= Cardinality(U)
    <3> HIDE DEF F
    <3>1. F \subseteq SUBSET S
      BY DEF F
    <3> QED BY <2>1, <3>1, SmallestSubset
  <2>3. T # {} /\ pick(T) \in T
    <3>1. T \in SUBSET S /\ it[T] \notin Nat
      BY <2>2
    <3>2. ASSUME T = {} PROVE FALSE
      <4>1. it[T] = 0
        BY <1>5, <3>2, Zenon
      <4> QED BY <3>1, <4>1
    <3> QED BY <1>2, <3>1, <3>2
  <2>4. T \ {pick(T)} \notin F
    <3>1. T \in SUBSET S
      BY <2>2
    <3> HIDE DEF F
    <3> QED BY <1>7, <1>8, <2>2, <2>3, <3>1
  <2>5. it[T \ {pick(T)}] \in Nat /\ w[pick(T)] \in Nat
    BY <1>1, <1>8, <2>2, <2>3, <2>4
  <2> QED BY <1>5, <2>2, <2>3, <2>5
<1>10. \A T \in SUBSET S : \A x \in T : it[T] = w[x] + it[T \ {x}]
  <2> DEFINE F == {T \in SUBSET S : \E x \in T : it[T] # w[x] + it[T \ {x}]}
  <2>1. SUFFICES ASSUME F # {} PROVE FALSE
    OBVIOUS
  <2>2. PICK T \in F : \A U \in F : Cardinality(T) <= Cardinality(U)
    <3> HIDE DEF F
    <3>1. F \subseteq SUBSET S
      BY DEF F
    <3> QED BY <2>1, <3>1, SmallestSubset
  <2>3. PICK x \in T : it[T] # w[x] + it[T \ {x}]
    BY <2>2
  <2> DEFINE y == pick(T)
  <2>4. T \in SUBSET S /\ T # {} /\ y \in T /\ it[T] = w[y] + it[T \ {y}]
    BY <1>2, <1>5, <2>2
  <2> HIDE DEF y
  <2>5. y # x /\ x \in T \ {y} /\ y \in T \ {x}
    BY <2>3, <2>4
  <2>6. T \ {x} \notin F /\ T \ {y} \notin F
    <3> HIDE DEF F
    <3> QED BY <1>7, <1>8, <2>2, <2>4
  <2>7. /\ it[T \ {y}] = w[x] + it[(T \ {y}) \ {x}]
        /\ it[T \ {x}] = w[y] + it[(T \ {x}) \ {y}]
    BY <1>8, <2>4, <2>5, <2>6
  <2>8. (T \ {y}) \ {x} = (T \ {x}) \ {y} /\ (T \ {x}) \ {y} \in SUBSET S
    BY <2>4
  <2>9. w[x] \in Nat /\ w[y] \in Nat /\ it[(T \ {x}) \ {y}] \in Nat
    BY <1>1, <1>9, <2>4, <2>8
  <2>10. it[T] = w[y] + (w[x] + it[(T \ {x}) \ {y}]) /\ it[T \ {x}] = w[y] + it[(T \ {x}) \ {y}]
    BY <2>4, <2>7, <2>8
  <2> QED BY <2>3, <2>9, <2>10
<1>11. it \in [SUBSET S -> Nat]
  <2>1. it = [T \in SUBSET S |-> it[T]]
    BY <1>4 DEF body
  <2> QED BY <1>9, <2>1
<1> QED BY <1>4, <1>5, <1>10, <1>11 DEF SumsUp, w

(* The sum of no sizes is 0, and each entry adds its own. *)
LEMMA BytesStep ==
  ASSUME NEW c \in CacheType, NEW S \in SUBSET Keys, IsFiniteSet(S)
  PROVE  /\ Bytes(c, S) \in Nat
         /\ S = {} => Bytes(c, S) = 0
         /\ \A x \in S : Bytes(c, S) = Size[c[x].content] + Bytes(c, S \ {x})
<1>1. PICK it : SumsUp(it, Weights(c), S) /\ Bytes(c, S) = it[S]
  BY BytesSumUp
<1>2. ASSUME NEW x \in S
      PROVE  Bytes(c, S) = Size[c[x].content] + Bytes(c, S \ {x})
  <2> DEFINE R == S \ {x}
             jt == [T \in SUBSET R |-> it[T]]
  <2>1. R \in SUBSET S /\ R \in SUBSET Keys /\ IsFiniteSet(R)
    BY FS_Subset
  <2>2. PICK kt : SumsUp(kt, Weights(c), R) /\ Bytes(c, R) = kt[R]
    BY <2>1, BytesSumUp
  <2>3. SumsUp(jt, Weights(c), R)
    <3>1. \A T \in SUBSET R : T \in SUBSET S
      BY <2>1
    <3>2. \A T \in SUBSET R : jt[T] = it[T]
      OBVIOUS
    <3>3. jt \in [SUBSET R -> Nat]
      BY <1>1, <3>1 DEF SumsUp
    <3> HIDE DEF jt, R
    <3>4. jt[{}] = 0
      BY <1>1, <3>2 DEF SumsUp
    <3>5. \A T \in SUBSET R : \A y \in T : jt[T] = Weights(c)[y] + jt[T \ {y}]
      BY <1>1, <3>1, <3>2 DEF SumsUp
    <3> QED BY <3>3, <3>4, <3>5 DEF SumsUp
  <2>4. jt = kt
    <3> HIDE DEF jt, R
    <3> QED BY <2>1, <2>2, <2>3, SumUnique
  <2>5. Bytes(c, R) = it[R]
    BY <2>2, <2>4
  <2>6. Bytes(c, S) = Weights(c)[x] + it[R]
    BY <1>1 DEF SumsUp
  <2> QED BY <2>5, <2>6 DEF Weights
<1> QED BY <1>1, <1>2 DEF SumsUp

(* The sum depends on the contents only. *)
LEMMA BytesSame ==
  ASSUME NEW c \in CacheType, NEW d \in CacheType, NEW S \in SUBSET Keys, IsFiniteSet(S),
         \A k \in S : c[k].content = d[k].content
  PROVE  Bytes(c, S) = Bytes(d, S)
<1>1. PICK f : SumsUp(f, Weights(c), S) /\ Bytes(c, S) = f[S]
  BY BytesSumUp
<1>2. PICK g : SumsUp(g, Weights(d), S) /\ Bytes(d, S) = g[S]
  BY BytesSumUp
<1>3. \A k \in S : Weights(c)[k] = Weights(d)[k]
  BY DEF Weights
<1>4. SumsUp(g, Weights(c), S)
  BY <1>2, <1>3 DEF SumsUp
<1>5. f = g
  BY <1>1, <1>4, SumUnique
<1> QED BY <1>1, <1>2, <1>5

(* The sum of a set is that of a part and that of the rest. *)
LEMMA BytesSplit ==
  ASSUME NEW c \in CacheType, NEW S \in SUBSET Keys, IsFiniteSet(S), NEW T \in SUBSET S
  PROVE  /\ Bytes(c, S) = Bytes(c, T) + Bytes(c, S \ T)
         /\ Bytes(c, S) \in Nat /\ Bytes(c, T) \in Nat /\ Bytes(c, S \ T) \in Nat
         /\ Bytes(c, T) <= Bytes(c, S)
<1> DEFINE F == {U \in SUBSET S : Bytes(c, S) # Bytes(c, U) + Bytes(c, S \ U)}
<1>1. \A U \in SUBSET S : /\ U \in SUBSET Keys /\ IsFiniteSet(U)
                           /\ Cardinality(U) \in Nat
                           /\ Bytes(c, U) \in Nat
  BY FS_Subset, FS_CardinalityType, BytesStep
<1>2. F = {}
  <2>1. SUFFICES ASSUME F # {} PROVE FALSE
    OBVIOUS
  <2>2. PICK U \in F : \A W \in F : Cardinality(U) <= Cardinality(W)
    <3> HIDE DEF F
    <3>1. F \subseteq SUBSET S
      BY DEF F
    <3> QED BY <2>1, <3>1, SmallestSubset
  <2>3. U \in SUBSET S /\ Bytes(c, S) # Bytes(c, U) + Bytes(c, S \ U)
    BY <2>2
  <2>4. U # {}
    <3>1. SUFFICES ASSUME U = {} PROVE FALSE
      OBVIOUS
    <3>2. Bytes(c, U) = 0
      BY <1>1, <2>3, <3>1, BytesStep
    <3>3. S \ U = S
      BY <3>1
    <3>4. Bytes(c, S \ U) = Bytes(c, S)
      BY <3>3, Zenon
    <3> QED BY <1>1, <2>3, <3>2, <3>4
  <2>5. PICK x \in U : TRUE
    BY <2>4
  <2> DEFINE V == U \ {x}
             w == Size[c[x].content]
  <2>6. V \in SUBSET S /\ Cardinality(V) = Cardinality(U) - 1
    BY <1>1, <2>3, <2>5, FS_RemoveElement
  <2>7. V \notin F
    <3> HIDE DEF F, V
    <3> QED BY <1>1, <2>2, <2>3, <2>6
  <2>8. Bytes(c, S) = Bytes(c, V) + Bytes(c, S \ V)
    BY <2>6, <2>7
  <2>9. Bytes(c, U) = w + Bytes(c, V)
    BY <1>1, <2>3, <2>5, BytesStep
  <2>10. Bytes(c, S \ V) = w + Bytes(c, S \ U)
    <3>1. x \in S \ V /\ (S \ V) \ {x} = S \ U
      BY <2>3, <2>5
    <3>2. S \ V \in SUBSET Keys /\ IsFiniteSet(S \ V)
      BY <1>1
    <3>3. Bytes(c, S \ V) = w + Bytes(c, (S \ V) \ {x})
      <4> HIDE DEF V
      <4> QED BY <3>1, <3>2, BytesStep
    <3>4. Bytes(c, (S \ V) \ {x}) = Bytes(c, S \ U)
      <4> HIDE DEF V
      <4> QED BY <3>1, Zenon
    <3> QED BY <3>3, <3>4
  <2>11. w \in Nat /\ Bytes(c, V) \in Nat /\ Bytes(c, S \ U) \in Nat
    <3>1. x \in Keys
      BY <2>3, <2>5
    <3>2. w \in Nat
      BY <3>1, ModuleCacheAssumption DEF CacheType
    <3> HIDE DEF V, w
    <3> QED BY <1>1, <2>3, <2>6, <3>2
  <2> HIDE DEF V, w, F
  <2> QED BY <2>3, <2>8, <2>9, <2>10, <2>11
<1>3. Bytes(c, S) = Bytes(c, T) + Bytes(c, S \ T)
  BY <1>2
<1>4. Bytes(c, S) \in Nat /\ Bytes(c, T) \in Nat /\ Bytes(c, S \ T) \in Nat
  <2>1. S \in SUBSET S /\ S \ T \in SUBSET S
    OBVIOUS
  <2> HIDE DEF F
  <2> QED BY <1>1, <2>1
<1> QED BY <1>3, <1>4

-----------------------------------------------------------------------------
(* The order of use *)

InOrder(s) == {s[i] : i \in 1..Len(s)}

Once(s) == \A i, j \in 1..Len(s) : s[i] = s[j] => i = j

(* Appending to a sequence. *)
LEMMA AppendOrder ==
  ASSUME NEW K, NEW s \in Seq(K), NEW x \in K
  PROVE  /\ Append(s, x) \in Seq(K)
         /\ InOrder(Append(s, x)) = InOrder(s) \cup {x}
         /\ Once(s) /\ x \notin InOrder(s) => Once(Append(s, x))
<1> DEFINE t == Append(s, x)
<1>1. /\ t \in Seq(K) /\ Len(s) \in Nat /\ Len(t) = Len(s) + 1
      /\ t[Len(s) + 1] = x
      /\ \A i \in 1..Len(s) : t[i] = s[i]
  OBVIOUS
<1> HIDE DEF t
<1>2. \A i \in 1..Len(t) : i \in 1..Len(s) \/ i = Len(s) + 1
  BY <1>1
<1>3. InOrder(t) = InOrder(s) \cup {x}
  <2>1. InOrder(t) \subseteq InOrder(s) \cup {x}
    BY <1>1, <1>2 DEF InOrder
  <2>2. \A i \in 1..Len(s) : i \in 1..Len(t)
    BY <1>1
  <2>3. Len(s) + 1 \in 1..Len(t)
    BY <1>1
  <2> QED BY <1>1, <2>1, <2>2, <2>3 DEF InOrder
<1>4. ASSUME Once(s), x \notin InOrder(s)
      PROVE  Once(t)
  BY <1>1, <1>2, <1>4 DEF Once, InOrder
<1> QED BY <1>1, <1>3, <1>4 DEF t

(* The prefixes of what Kept keeps of s. *)
KeepsOf(f, s, gone) ==
    /\ f[0] = <<>>
    /\ \A i \in 1..Len(s) : f[i] = IF s[i] \in gone THEN f[i - 1] ELSE Append(f[i - 1], s[i])

(* Kept's recursive function exists. *)
LEMMA KeptDefined ==
  ASSUME NEW K, NEW s \in Seq(K), NEW gone
  PROVE  \E f : KeepsOf(f, s, gone) /\ Kept(s, gone) = f[Len(s)]
<1> DEFINE step(f, i) == IF s[i] \in gone THEN f[i - 1] ELSE Append(f[i - 1], s[i])
           Q(n) == \E f : f = [i \in 0..n |-> IF i = 0 THEN <<>> ELSE step(f, i)]
           Bad == {n \in Nat : ~Q(n)}
<1>1. Bad = {}
  <2>1. SUFFICES ASSUME Bad # {} PROVE FALSE
    OBVIOUS
  <2>2. PICK n \in Bad : \A m \in Bad : n <= m
    <3> HIDE DEF Bad
    <3>1. Bad \subseteq Nat
      BY DEF Bad
    <3> QED BY <2>1, <3>1, LeastNatural
  <2>3. n \in Nat /\ ~Q(n)
    BY <2>2
  <2>4. CASE n = 0
    <3> DEFINE f == [i \in 0..0 |-> <<>>]
    <3>1. f = [i \in 0..0 |-> IF i = 0 THEN <<>> ELSE step(f, i)]
      <4> HIDE DEF step
      <4> QED OBVIOUS
    <3>2. Q(0)
      <4> HIDE DEF f, step
      <4> QED BY <3>1
    <3> QED BY <2>3, <2>4, <3>2
  <2>5. CASE n # 0
    <3>1. n - 1 \in Nat
      BY <2>3, <2>5
    <3>2. Q(n - 1)
      <4> HIDE DEF Q
      <4>1. n - 1 \notin Bad
        <5> HIDE DEF Bad
        <5> QED BY <2>2, <2>3, <3>1
      <4> QED BY <3>1, <4>1
    <3>3. PICK f : f = [i \in 0..(n - 1) |-> IF i = 0 THEN <<>> ELSE step(f, i)]
      BY <3>2
    <3>4. \A i \in 0..(n - 1) : f[i] = IF i = 0 THEN <<>> ELSE step(f, i)
      BY <3>3
    <3> DEFINE g == [i \in 0..n |-> IF i < n THEN f[i] ELSE step(f, n)]
    <3>5. \A i \in 0..n : g[i] = IF i < n THEN f[i] ELSE step(f, n)
      <4> HIDE DEF step
      <4> QED OBVIOUS
    <3>6. \A i \in 1..n : i - 1 \in 0..n /\ i - 1 < n
      BY <2>3
    <3>7. \A i \in 1..n : g[i - 1] = f[i - 1]
      <4> HIDE DEF g, step
      <4> QED BY <3>5, <3>6
    <3>8. \A i \in 1..n : step(g, i) = step(f, i)
      <4> HIDE DEF g
      <4> QED BY <3>7
    <3>9. \A i \in 0..n : g[i] = IF i = 0 THEN <<>> ELSE step(g, i)
      <4> HIDE DEF g, step
      <4>1. SUFFICES ASSUME NEW i \in 0..n PROVE g[i] = IF i = 0 THEN <<>> ELSE step(g, i)
        OBVIOUS
      <4>2. CASE i = 0
        BY <2>3, <2>5, <3>1, <3>4, <3>5, <4>2
      <4>3. CASE i # 0 /\ i < n
        <5>1. i \in 0..(n - 1) /\ i \in 1..n
          BY <2>3, <4>3
        <5>2. g[i] = f[i] /\ f[i] = step(f, i) /\ step(g, i) = step(f, i)
          BY <3>4, <3>5, <3>8, <4>3, <5>1
        <5> QED BY <4>3, <5>2
      <4>4. CASE i = n
        <5>1. n \in 1..n /\ n \in 0..n /\ ~(n < n)
          BY <2>3, <2>5
        <5>2. g[n] = step(f, n) /\ step(g, n) = step(f, n)
          BY <3>5, <3>8, <5>1
        <5> QED BY <2>5, <4>4, <5>2
      <4> QED BY <2>3, <4>2, <4>3, <4>4
    <3>10. g = [i \in 0..n |-> IF i = 0 THEN <<>> ELSE step(g, i)]
      <4>1. g = [i \in 0..n |-> g[i]]
        <5> HIDE DEF step
        <5> QED OBVIOUS
      <4> HIDE DEF g, step
      <4> QED BY <3>9, <4>1
    <3>11. Q(n)
      <4> HIDE DEF g, step
      <4> QED BY <3>10
    <3> QED BY <2>3, <3>11
  <2> QED BY <2>4, <2>5
<1> DEFINE h == CHOOSE f : f = [i \in 0..Len(s) |-> IF i = 0 THEN <<>> ELSE step(f, i)]
<1>2. Q(Len(s)) /\ Len(s) \in Nat
  <2> HIDE DEF Q
  <2> QED BY <1>1
<1>3. h = [i \in 0..Len(s) |-> IF i = 0 THEN <<>> ELSE step(h, i)]
  <2> HIDE DEF step
  <2> QED BY <1>2, Zenon
<1>4. Kept(s, gone) = h[Len(s)]
  BY DEF Kept
<1>5. KeepsOf(h, s, gone)
  <2> HIDE DEF h
  <2>1. \A i \in 0..Len(s) : h[i] = IF i = 0 THEN <<>> ELSE step(h, i)
    <3> HIDE DEF step
    <3> QED BY <1>3, Zenon
  <2>2. h[0] = <<>>
    BY <1>2, <2>1
  <2>3. \A i \in 1..Len(s) : i \in 0..Len(s) /\ i # 0
    BY <1>2
  <2>4. \A i \in 1..Len(s) : h[i] = step(h, i)
    <3> HIDE DEF step
    <3> QED BY <2>1, <2>3
  <2> QED BY <2>2, <2>4 DEF KeepsOf
<1> QED BY <1>4, <1>5

(* Kept removes what is gone and nothing else, and repeats nothing. *)
LEMMA KeptOrder ==
  ASSUME NEW K, NEW s \in Seq(K), NEW gone
  PROVE  /\ Kept(s, gone) \in Seq(K)
         /\ InOrder(Kept(s, gone)) = InOrder(s) \ gone
         /\ Once(s) => Once(Kept(s, gone))
<1>1. PICK f : KeepsOf(f, s, gone) /\ Kept(s, gone) = f[Len(s)]
  BY KeptDefined
<1> DEFINE Before(i) == {s[j] : j \in 1..i}
           P(i) == /\ f[i] \in Seq(K)
                   /\ InOrder(f[i]) = Before(i) \ gone
                   /\ Once(s) => Once(f[i])
           Bad == {i \in 0..Len(s) : ~P(i)}
<1>2. Len(s) \in Nat
  OBVIOUS
<1>3. Bad = {}
  <2>1. SUFFICES ASSUME Bad # {} PROVE FALSE
    OBVIOUS
  <2>2. PICK n \in Bad : \A m \in Bad : n <= m
    <3> HIDE DEF P
    <3>1. Bad \subseteq Nat
      BY <1>2
    <3> HIDE DEF Bad
    <3> QED BY <2>1, <3>1, LeastNatural
  <2>3. n \in 0..Len(s) /\ ~P(n)
    <3> HIDE DEF P
    <3> QED BY <2>2
  <2>4. CASE n = 0
    <3>1. f[n] = <<>>
      BY <1>1, <2>4 DEF KeepsOf
    <3>2. <<>> \in Seq(K) /\ InOrder(<<>>) = {} /\ Once(<<>>)
      BY DEF InOrder, Once
    <3>3. Before(n) = {}
      BY <2>4
    <3> HIDE DEF Before
    <3> QED BY <2>3, <3>1, <3>2, <3>3
  <2>5. CASE n # 0
    <3>1. n \in 1..Len(s) /\ n - 1 \in 0..Len(s)
      BY <1>2, <2>3, <2>5
    <3>2. P(n - 1)
      <4> HIDE DEF P
      <4>1. n - 1 \notin Bad
        <5> HIDE DEF Bad
        <5> QED BY <1>2, <2>2, <3>1
      <4> QED BY <3>1, <4>1
    <3>3. s[n] \in K
      BY <3>1
    <3>4. Before(n) = Before(n - 1) \cup {s[n]}
      <4>1. \A j \in 1..n : j \in 1..(n - 1) \/ j = n
        BY <3>1
      <4>2. \A j \in 1..(n - 1) : j \in 1..n
        BY <3>1
      <4>3. n \in 1..n
        BY <3>1
      <4> QED BY <4>1, <4>2, <4>3
    <3>5. CASE s[n] \in gone
      <4>1. f[n] = f[n - 1]
        BY <1>1, <3>1, <3>5 DEF KeepsOf
      <4>2. Before(n) \ gone = Before(n - 1) \ gone
        <5> HIDE DEF Before
        <5> QED BY <3>4, <3>5
      <4> HIDE DEF Before
      <4> QED BY <2>3, <3>2, <4>1, <4>2
    <3>6. CASE s[n] \notin gone
      <4>1. f[n] = Append(f[n - 1], s[n])
        BY <1>1, <3>1, <3>6 DEF KeepsOf
      <4>2. Before(n) \ gone = (Before(n - 1) \ gone) \cup {s[n]}
        <5> HIDE DEF Before
        <5> QED BY <3>4, <3>6
      <4>3. Once(s) => s[n] \notin Before(n - 1)
        <5>1. \A j \in 1..(n - 1) : j \in 1..Len(s) /\ j # n
          BY <1>2, <3>1
        <5> QED BY <3>1, <5>1 DEF Once
      <4> HIDE DEF Before
      <4>4. /\ f[n] \in Seq(K)
            /\ InOrder(f[n]) = InOrder(f[n - 1]) \cup {s[n]}
            /\ Once(f[n - 1]) /\ s[n] \notin InOrder(f[n - 1]) => Once(f[n])
        BY <3>2, <3>3, <4>1, AppendOrder
      <4> QED BY <2>3, <3>2, <4>2, <4>3, <4>4
    <3> QED BY <3>5, <3>6
  <2> QED BY <2>4, <2>5
<1>4. P(Len(s))
  <2> HIDE DEF P
  <2>1. Len(s) \in 0..Len(s)
    BY <1>2
  <2> QED BY <1>3, <2>1
<1>5. Before(Len(s)) = InOrder(s)
  BY DEF InOrder
<1> HIDE DEF Before
<1> QED BY <1>1, <1>4, <1>5

(* A sequence without repetitions is as long as what it lists is large. *)
LEMMA OrderLength ==
  ASSUME NEW K, NEW s \in Seq(K), Once(s)
  PROVE  /\ IsFiniteSet(InOrder(s))
         /\ Cardinality(InOrder(s)) = Len(s)
<1>1. Len(s) \in Nat /\ s \in [1..Len(s) -> InOrder(s)]
  BY DEF InOrder
<1>2. IsFiniteSet(1..Len(s)) /\ Cardinality(1..Len(s)) = Len(s)
  BY <1>1, FS_Interval
<1>3. s \in Bijection(1..Len(s), InOrder(s))
  BY <1>1 DEF Bijection, Injection, Surjection, IsInjective, Once, InOrder
<1>4. ExistsBijection(1..Len(s), InOrder(s))
  BY <1>3 DEF ExistsBijection
<1> QED BY <1>1, <1>2, <1>4, FS_Bijection

(* There are finitely many keys. *)
LEMMA KeysFinite == IsFiniteSet(Keys)
<1> DEFINE f == [m \in Modules |-> ModuleCacheKey(m)]
<1>1. IsFiniteSet(Modules) /\ f \in Surjection(Modules, Keys)
  BY ModuleCacheAssumption DEF Keys, Surjection
<1> HIDE DEF f
<1> QED BY <1>1, FS_Surjection

-----------------------------------------------------------------------------
(* Eviction *)

(* What the cache knows of a map c: the order lists its entries once, and   *)
(* the count is the sum of their sizes.                                     *)
Tracks(c, ord, bytes) ==
    /\ c \in CacheType
    /\ ord \in Seq(Keys) /\ Once(ord)
    /\ InOrder(ord) = Cached(c)
    /\ bytes = Bytes(c, Cached(c))

(* The entries are finitely many keys. *)
LEMMA CachedFinite ==
  ASSUME NEW c
  PROVE  /\ Cached(c) \in SUBSET Keys
         /\ \A S \in SUBSET Cached(c) : S \in SUBSET Keys /\ IsFiniteSet(S)
BY KeysFinite, FS_Subset DEF Cached

(* Removing entries keeps track of the others: the count never gets to its  *)
(* clamp at zero with anything left to subtract.                            *)
LEMMA RemovalTracks ==
  ASSUME NEW c, NEW ord, NEW bytes, Tracks(c, ord, bytes), NEW gone \in SUBSET Cached(c)
  PROVE  /\ BytesWithout(bytes, c, gone) = Bytes(c, Cached(c) \ gone)
         /\ Cached(Without(c, gone)) = Cached(c) \ gone
         /\ Tracks(Without(c, gone), Kept(ord, gone), BytesWithout(bytes, c, gone))
<1> DEFINE S == Cached(c)
           d == Without(c, gone)
<1>1. S \in SUBSET Keys /\ IsFiniteSet(S) /\ S \ gone \in SUBSET Keys /\ IsFiniteSet(S \ gone)
  BY CachedFinite
<1>2. c \in CacheType /\ ord \in Seq(Keys) /\ Once(ord) /\ InOrder(ord) = S /\ bytes = Bytes(c, S)
  BY DEF Tracks
<1>3. BytesWithout(bytes, c, gone) = Bytes(c, S \ gone)
  <2>1. /\ Bytes(c, S) = Bytes(c, gone) + Bytes(c, S \ gone)
        /\ Bytes(c, gone) \in Nat /\ Bytes(c, S \ gone) \in Nat /\ Bytes(c, S) \in Nat
    <3> HIDE DEF S
    <3>1. gone \in SUBSET S
      BY DEF S
    <3> QED BY <1>1, <1>2, <3>1, BytesSplit
  <2> HIDE DEF S
  <2> QED BY <1>2, <2>1 DEF BytesWithout
<1>4. d \in CacheType /\ Cached(d) = S \ gone /\ \A k \in S \ gone : d[k] = c[k]
  BY <1>2 DEF Without, NotCached, Cached, CacheType
<1>5. Bytes(d, S \ gone) = Bytes(c, S \ gone)
  <2> HIDE DEF S, d
  <2> QED BY <1>1, <1>2, <1>4, BytesSame
<1>6. /\ Kept(ord, gone) \in Seq(Keys) /\ Once(Kept(ord, gone))
      /\ InOrder(Kept(ord, gone)) = S \ gone
  <2> HIDE DEF S
  <2> QED BY <1>2, KeptOrder
<1> HIDE DEF S, d
<1>7. Tracks(d, Kept(ord, gone), BytesWithout(bytes, c, gone))
  BY <1>3, <1>4, <1>5, <1>6 DEF Tracks
<1> QED BY <1>3, <1>4, <1>7 DEF S, d

(* Without the least recently used entries over the limit, at most the      *)
(* limit is left.                                                           *)
LEMMA CountLimited ==
  ASSUME NEW ord \in Seq(Keys), NEW S \in SUBSET (InOrder(ord) \ OverCount(ord))
  PROVE  IsFiniteSet(S) /\ Cardinality(S) <= MaxCachedModules
<1> DEFINE n == Len(ord)
           lo == IF n > MaxCachedModules THEN n - MaxCachedModules + 1 ELSE 1
           f == [i \in lo..n |-> ord[i]]
           R == {ord[i] : i \in lo..n}
<1>1. n \in Nat /\ MaxCachedModules \in Nat \ {0} /\ lo \in Nat \ {0}
  BY ModuleCacheAssumption
<1>2. IsFiniteSet(lo..n) /\ Cardinality(lo..n) <= MaxCachedModules
  <2>1. IsFiniteSet(lo..n) /\ Cardinality(lo..n) = IF lo > n THEN 0 ELSE n - lo + 1
    <3> HIDE DEF lo, n
    <3> QED BY <1>1, FS_Interval
  <2>2. (IF lo > n THEN 0 ELSE n - lo + 1) <= MaxCachedModules
    <3> HIDE DEF n
    <3> QED BY <1>1
  <2> HIDE DEF lo, n
  <2> QED BY <2>1, <2>2
<1>3. S \subseteq R
  <2>1. SUFFICES ASSUME NEW x \in S PROVE x \in R
    OBVIOUS
  <2>2. PICK i \in 1..n : x = ord[i]
    BY DEF InOrder
  <2>3. i \notin 1..(n - MaxCachedModules)
    BY <2>2 DEF OverCount
  <2>4. i \in lo..n
    BY <1>1, <2>2, <2>3
  <2> HIDE DEF lo, n
  <2> QED BY <2>2, <2>4
<1>4. f \in Surjection(lo..n, R)
  <2> HIDE DEF lo, n
  <2> QED BY DEF Surjection
<1>5. IsFiniteSet(R) /\ Cardinality(R) <= Cardinality(lo..n)
  <2> HIDE DEF lo, n, f, R
  <2> QED BY <1>2, <1>4, FS_Surjection
<1>6. IsFiniteSet(S) /\ Cardinality(S) <= Cardinality(R) /\ Cardinality(S) \in Nat
  <2> HIDE DEF lo, n, f, R
  <2> QED BY <1>3, <1>5, FS_Subset, FS_CardinalityType
<1>7. Cardinality(R) \in Nat /\ Cardinality(lo..n) \in Nat
  <2> HIDE DEF lo, n, f, R
  <2> QED BY <1>2, <1>5, FS_CardinalityType
<1> HIDE DEF lo, n, f, R
<1> QED BY <1>1, <1>2, <1>5, <1>6, <1>7

(* The entries over the byte limit are entries, and without them the rest   *)
(* is within it.                                                            *)
LEMMA BytesLimited ==
  ASSUME NEW c \in CacheType, NEW ord \in Seq(Keys), NEW bytes, bytes = Bytes(c, InOrder(ord)),
         IsFiniteSet(InOrder(ord))
  PROVE  /\ OverBytes(c, ord, bytes) \in SUBSET InOrder(ord)
         /\ Bytes(c, InOrder(ord) \ OverBytes(c, ord, bytes)) <= MaxCacheBytes
<1> DEFINE S == InOrder(ord)
           before(n) == {ord[j] : j \in 1..(n - 1)}
           N == {n \in 1..Len(ord) : bytes - Bytes(c, before(n)) > MaxCacheBytes}
           large == {ord[i] : i \in N}
           Rest == (1..(Len(ord) + 1)) \ N
<1>1. OverBytes(c, ord, bytes) = large
  BY DEF OverBytes
<1>2. Len(ord) \in Nat /\ S \in SUBSET Keys /\ MaxCacheBytes \in Nat
  BY ModuleCacheAssumption DEF InOrder
<1>3. large \in SUBSET S
  BY DEF InOrder
<1>4. PICK n \in Rest : \A m \in Rest : n <= m
  <2>1. Rest \subseteq Nat /\ Len(ord) + 1 \in Rest
    BY <1>2
  <2> HIDE DEF Rest
  <2> QED BY <2>1, LeastNatural
<1>5. n \in 1..(Len(ord) + 1) /\ n \notin N
  <2> HIDE DEF N
  <2> QED BY <1>4
<1>6. \A j \in 1..(n - 1) : j \in N
  <2> HIDE DEF N
  <2>1. SUFFICES ASSUME NEW j \in 1..(n - 1) PROVE j \in N
    OBVIOUS
  <2>2. j \in 1..(Len(ord) + 1) /\ ~(n <= j)
    BY <1>2, <1>5
  <2> QED BY <1>4, <2>2
<1>7. before(n) \in SUBSET large
  <2> HIDE DEF N
  <2> QED BY <1>6
<1>8. bytes - Bytes(c, before(n)) <= MaxCacheBytes
  <2>0. S \in SUBSET S /\ before(n) \in SUBSET S
    <3> HIDE DEF S, large, before
    <3> QED BY <1>3, <1>7
  <2>1. Bytes(c, before(n)) \in Nat /\ Bytes(c, S) \in Nat
    <3> HIDE DEF S, large, before
    <3> QED BY <1>2, <2>0, BytesSplit DEF S
  <2>2. CASE n = Len(ord) + 1
    <3>1. before(n) = S
      BY <1>2, <2>2 DEF InOrder
    <3> HIDE DEF S, before
    <3> QED BY <1>2, <2>1, <3>1 DEF S
  <2>3. CASE n # Len(ord) + 1
    <3>1. n \in 1..Len(ord)
      BY <1>2, <1>5, <2>3
    <3> HIDE DEF before, S
    <3>2. ~(bytes - Bytes(c, before(n)) > MaxCacheBytes)
      BY <1>5, <3>1
    <3> QED BY <1>2, <2>1, <3>2 DEF S
  <2> QED BY <2>2, <2>3
<1> HIDE DEF S, large, before, N, Rest
<1>9. /\ Bytes(c, S) = Bytes(c, large) + Bytes(c, S \ large)
      /\ Bytes(c, S) \in Nat /\ Bytes(c, large) \in Nat /\ Bytes(c, S \ large) \in Nat
  BY <1>2, <1>3, BytesSplit DEF S
<1>10. Bytes(c, before(n)) <= Bytes(c, large) /\ Bytes(c, before(n)) \in Nat
  <2>1. large \in SUBSET Keys /\ IsFiniteSet(large)
    BY <1>2, <1>3, FS_Subset DEF S
  <2> QED BY <1>7, <2>1, BytesSplit
<1>11. Bytes(c, S \ large) <= MaxCacheBytes
  BY <1>2, <1>8, <1>9, <1>10 DEF S
<1> QED BY <1>1, <1>3, <1>11 DEF S

(* What evictLocked removes are entries, and leaves the cache within both   *)
(* limits.                                                                  *)
LEMMA EvictionLimits ==
  ASSUME NEW c, NEW ord, NEW bytes, Tracks(c, ord, bytes)
  PROVE  LET gone == Evicted(c, ord, bytes)
         IN  /\ gone \in SUBSET Cached(c)
             /\ Cardinality(Cached(c) \ gone) <= MaxCachedModules
             /\ Bytes(c, Cached(c) \ gone) <= MaxCacheBytes
<1> DEFINE S == Cached(c)
           old == Expired(c)
           many == OverCount(Kept(ord, old))
           first == old \cup many
           rest == Kept(ord, first)
           large == OverBytes(c, rest, BytesWithout(bytes, c, first))
           gone == Evicted(c, ord, bytes)
<1>1. gone = first \cup large
  BY DEF Evicted
<1>2. c \in CacheType /\ ord \in Seq(Keys) /\ InOrder(ord) = S
  BY DEF Tracks
<1>3. old \in SUBSET S
  BY DEF Expired
<1>4. Kept(ord, old) \in Seq(Keys) /\ InOrder(Kept(ord, old)) = S \ old
  <2> HIDE DEF S, old
  <2> QED BY <1>2, KeptOrder
<1>5. many \in SUBSET S
  <2>1. Len(Kept(ord, old)) \in Nat /\ MaxCachedModules \in Nat
    BY <1>4, ModuleCacheAssumption
  <2>2. \A i \in 1..(Len(Kept(ord, old)) - MaxCachedModules) : i \in 1..Len(Kept(ord, old))
    BY <2>1
  <2>3. many \subseteq InOrder(Kept(ord, old))
    BY <2>2 DEF OverCount, InOrder
  <2> HIDE DEF S, old, many
  <2> QED BY <1>4, <2>3
<1>6. first \in SUBSET S
  <2> HIDE DEF S, old, many
  <2> QED BY <1>3, <1>5
<1> HIDE DEF first, S
<1>7. BytesWithout(bytes, c, first) = Bytes(c, S \ first)
  BY <1>6, RemovalTracks DEF S
<1>8. rest \in Seq(Keys) /\ InOrder(rest) = S \ first
  BY <1>2, KeptOrder
<1>9. IsFiniteSet(S \ first)
  BY <1>6, CachedFinite DEF S
<1>10. /\ large \in SUBSET (S \ first)
       /\ Bytes(c, (S \ first) \ large) <= MaxCacheBytes
  <2>1. IsFiniteSet(InOrder(rest)) /\ BytesWithout(bytes, c, first) = Bytes(c, InOrder(rest))
    BY <1>7, <1>8, <1>9
  <2>2. /\ large \in SUBSET InOrder(rest)
        /\ Bytes(c, InOrder(rest) \ large) <= MaxCacheBytes
    <3> HIDE DEF rest
    <3> QED BY <1>2, <1>8, <2>1, BytesLimited
  <2> HIDE DEF rest, large
  <2> QED BY <1>8, <2>2
<1> HIDE DEF large, rest, gone, old, many
<1>11. S \ gone = (S \ first) \ large /\ gone \in SUBSET S
  BY <1>1, <1>6, <1>10
<1>12. Cardinality(S \ gone) <= MaxCachedModules
  <2>1. S \ gone \in SUBSET (InOrder(Kept(ord, old)) \ OverCount(Kept(ord, old)))
    BY <1>1, <1>4 DEF first, many
  <2> QED BY <1>4, <2>1, CountLimited
<1>13. Bytes(c, S \ gone) <= MaxCacheBytes
  BY <1>10, <1>11
<1> QED BY <1>11, <1>12, <1>13 DEF S, gone

-----------------------------------------------------------------------------
(* The limits of the cache *)

Aged == \A k \in Keys : cache[k].age \in 0..(ModuleCacheTTL + 1)

Limits ==
    /\ Tracks(cache, order, cacheBytes)
    /\ Aged
    /\ CacheBounded

(* An entry that is used becomes the last one of the order. *)
LEMMA TouchedOrder ==
  ASSUME NEW k \in Keys, order \in Seq(Keys), Once(order)
  PROVE  /\ Touched(k) \in Seq(Keys) /\ Once(Touched(k))
         /\ InOrder(Touched(k)) = InOrder(order) \cup {k}
<1> DEFINE s == Kept(order, {k})
<1>1. s \in Seq(Keys) /\ Once(s) /\ InOrder(s) = InOrder(order) \ {k}
  BY KeptOrder
<1> HIDE DEF s
<1>2. /\ Append(s, k) \in Seq(Keys) /\ Once(Append(s, k))
      /\ InOrder(Append(s, k)) = InOrder(s) \cup {k}
  BY <1>1, AppendOrder
<1> QED BY <1>1, <1>2 DEF Touched, s

(* A cache that loses entries stays within its limits. *)
LEMMA RemovalLimits ==
  ASSUME Limits, NEW gone \in SUBSET Cached(cache),
         cache' = Without(cache, gone), order' = Kept(order, gone),
         cacheBytes' = BytesWithout(cacheBytes, cache, gone)
  PROVE  Limits'
<1>1. /\ Tracks(cache, order, cacheBytes)'
      /\ Cached(cache') = Cached(cache) \ gone
      /\ cacheBytes' = Bytes(cache, Cached(cache) \ gone)
  BY RemovalTracks DEF Limits
<1>2. Aged'
  BY ModuleCacheAssumption DEF Limits, Aged, Without, NotCached
<1>3. /\ Cached(cache) \in SUBSET Keys /\ IsFiniteSet(Cached(cache))
      /\ Cached(cache) \ gone \in SUBSET Cached(cache)
      /\ IsFiniteSet(Cached(cache) \ gone)
  BY CachedFinite
<1>4. Cardinality(Cached(cache')) <= MaxCachedModules
  <2>1. /\ Cardinality(Cached(cache) \ gone) <= Cardinality(Cached(cache))
        /\ Cardinality(Cached(cache) \ gone) \in Nat /\ Cardinality(Cached(cache)) \in Nat
    BY <1>3, FS_Subset, FS_CardinalityType
  <2>2. Cardinality(Cached(cache)) <= MaxCachedModules
    BY DEF Limits, CacheBounded
  <2>3. MaxCachedModules \in Nat
    BY ModuleCacheAssumption
  <2> QED BY <1>1, <2>1, <2>2, <2>3
<1>5. cacheBytes' <= MaxCacheBytes
  <2>1. cache \in CacheType /\ cacheBytes = Bytes(cache, Cached(cache))
    BY DEF Limits, Tracks
  <2>2. /\ Bytes(cache, Cached(cache) \ gone) <= Bytes(cache, Cached(cache))
        /\ Bytes(cache, Cached(cache) \ gone) \in Nat /\ Bytes(cache, Cached(cache)) \in Nat
    BY <1>3, <2>1, BytesSplit
  <2>3. cacheBytes <= MaxCacheBytes
    BY DEF Limits, CacheBounded
  <2>4. MaxCacheBytes \in Nat
    BY ModuleCacheAssumption
  <2> QED BY <1>1, <2>1, <2>2, <2>3, <2>4
<1> QED BY <1>1, <1>2, <1>4, <1>5 DEF Limits, CacheBounded

(* A lookup stays within the limits, whatever comes of it. *)
LEMMA LookupLimits ==
  ASSUME Limits, NEW q \in Requests, req[q].key \in Keys, NEW hit, NEW miss, Lookup(q, hit, miss)
  PROVE  Limits'
<1> DEFINE k == req[q].key
<1>1. CASE cache[k].cached /\ ~entryExpired(cache[k])
  <2>1. order' = Touched(k) /\ cache' = cache /\ cacheBytes' = cacheBytes
    BY <1>1 DEF Lookup
  <2>2. k \in Cached(cache)
    BY <1>1 DEF Cached
  <2>3. /\ Touched(k) \in Seq(Keys) /\ Once(Touched(k))
        /\ InOrder(Touched(k)) = InOrder(order) \cup {k}
    <3> HIDE DEF k
    <3>1. k \in Keys
      BY DEF k
    <3> QED BY <3>1, TouchedOrder DEF Limits, Tracks
  <2>4. InOrder(Touched(k)) = Cached(cache)
    BY <2>2, <2>3 DEF Limits, Tracks
  <2> HIDE DEF k
  <2> QED BY <2>1, <2>3, <2>4 DEF Limits, Tracks, Aged, CacheBounded
<1>2. CASE cache[k].cached /\ entryExpired(cache[k])
  <2>1. /\ cache' = Without(cache, {k}) /\ order' = Kept(order, {k})
        /\ cacheBytes' = BytesWithout(cacheBytes, cache, {k})
    BY <1>2 DEF Lookup
  <2>2. {k} \in SUBSET Cached(cache)
    BY <1>2 DEF Cached
  <2> QED BY <2>1, <2>2, RemovalLimits
<1>3. CASE ~cache[k].cached
  <2>1. order' = order /\ cache' = cache /\ cacheBytes' = cacheBytes
    BY <1>3 DEF Lookup
  <2> QED BY <2>1 DEF Limits, Aged, CacheBounded
<1> QED BY <1>1, <1>2, <1>3

(* An insertion stays within the limits, however large the module. *)
LEMMA InsertLimits ==
  ASSUME Inv, Limits, NEW q \in Requests, NEW b \in Contents, Insert(q, b)
  PROVE  Limits'
<1> DEFINE k == req[q].key
           S == Cached(cache)
           added == [cache EXCEPT ![k] = [cached |-> TRUE, age |-> 0, content |-> b]]
           bytes == cacheBytes + Size[b]
           gone == Evicted(added, Touched(k), bytes)
<1>1. k \in Keys /\ ~cache[k].cached
  BY ReqKey DEF Inv, Needed, Insert
<1>2. /\ cache' = Without(added, gone)
      /\ cacheBytes' = BytesWithout(bytes, added, gone)
      /\ order' = Kept(Touched(k), gone)
  BY <1>1 DEF Insert
<1>3. cache \in CacheType /\ order \in Seq(Keys) /\ Once(order) /\ InOrder(order) = S
      /\ cacheBytes = Bytes(cache, S)
  BY DEF Limits, Tracks
<1>4. /\ added \in CacheType
      /\ added[k] = [cached |-> TRUE, age |-> 0, content |-> b]
      /\ \A j \in Keys \ {k} : added[j] = cache[j]
  BY <1>1, <1>3 DEF CacheType
<1>5. added[k].cached /\ added[k].content = b /\ added[k].age = 0
  <2> HIDE DEF added
  <2> QED BY <1>4
<1> HIDE DEF added, k
<1>6. Cached(added) = S \cup {k} /\ k \notin S
  BY <1>1, <1>4, <1>5 DEF Cached
<1> HIDE DEF S, gone
<1>7. Bytes(added, S \cup {k}) = bytes
  <2>1. S \cup {k} \in SUBSET Keys /\ IsFiniteSet(S \cup {k}) /\ S \in SUBSET Keys /\ IsFiniteSet(S)
    <3>1. S \in SUBSET Keys /\ IsFiniteSet(S)
      BY CachedFinite DEF S
    <3> QED BY <1>1, <3>1, FS_AddElement
  <2>2. k \in S \cup {k} /\ (S \cup {k}) \ {k} = S
    BY <1>6
  <2>3. Bytes(added, S \cup {k}) = Size[b] + Bytes(added, (S \cup {k}) \ {k})
    BY <1>4, <1>5, <2>1, <2>2, BytesStep
  <2>4. Bytes(added, (S \cup {k}) \ {k}) = Bytes(added, S)
    BY <2>2, Zenon
  <2>5. Bytes(added, S) = Bytes(cache, S) /\ Bytes(cache, S) \in Nat
    <3>1. \A j \in S : added[j].content = cache[j].content
      BY <1>4, <1>6, <2>1
    <3> QED BY <1>3, <1>4, <2>1, <3>1, BytesSame, BytesStep
  <2>6. Size[b] \in Nat
    BY ModuleCacheAssumption
  <2> QED BY <1>3, <2>3, <2>4, <2>5, <2>6
<1>8. Tracks(added, Touched(k), bytes)
  <2>1. /\ Touched(k) \in Seq(Keys) /\ Once(Touched(k))
        /\ InOrder(Touched(k)) = S \cup {k}
    BY <1>1, <1>3, TouchedOrder
  <2> HIDE DEF bytes
  <2> QED BY <1>4, <1>6, <1>7, <2>1 DEF Tracks
<1> HIDE DEF bytes
<1>9. /\ gone \in SUBSET Cached(added)
      /\ Cardinality(Cached(added) \ gone) <= MaxCachedModules
      /\ Bytes(added, Cached(added) \ gone) <= MaxCacheBytes
  BY <1>8, EvictionLimits DEF gone
<1>10. /\ Tracks(cache, order, cacheBytes)'
       /\ Cached(cache') = Cached(added) \ gone
       /\ cacheBytes' = Bytes(added, Cached(added) \ gone)
  BY <1>2, <1>8, <1>9, RemovalTracks
<1>11. CacheBounded'
  BY <1>9, <1>10 DEF CacheBounded
<1>12. Aged'
  <2>1. \A j \in Keys : added[j].age \in 0..(ModuleCacheTTL + 1)
    BY <1>4, <1>5, ModuleCacheAssumption DEF Limits, Aged
  <2> QED BY <1>2, <2>1, ModuleCacheAssumption DEF Aged, Without, NotCached
<1> QED BY <1>10, <1>11, <1>12 DEF Limits

(* Every step keeps the cache within its limits. *)
LEMMA NextLimits == Inv /\ Limits /\ [Next]_vars => Limits'
<1> SUFFICES ASSUME Inv, Limits, [Next]_vars
             PROVE  Limits'
  OBVIOUS
<1>1. ASSUME cache' = cache, order' = order, cacheBytes' = cacheBytes
      PROVE  Limits'
  BY <1>1 DEF Limits, Aged, CacheBounded
<1>2. ASSUME NEW q \in Requests, FirstLook(q) \/ Woken(q) \/ SecondLook(q) \/ Load(q)
      PROVE  Limits'
  <2>1. req[q].key \in Keys
    BY <1>2, ReqKey DEF FirstLook, Woken, SecondLook, Load
  <2>2. PICK hit, miss : Lookup(q, hit, miss)
    BY <1>2 DEF FirstLook, Woken, SecondLook, Load
  <2> QED BY <2>1, <2>2, LookupLimits
<1>3. ASSUME NEW q \in Requests, NEW b \in Contents, Insert(q, b)
      PROVE  Limits'
  BY <1>3, InsertLimits
<1>4. ASSUME NEW q \in Requests,
             \/ \E m \in Modules : Arrive(q, m)
             \/ beginCompile(q) \/ DownloadFails(q) \/ finishCompile(q) \/ finishFailedCompile(q)
             \/ NotLoaded(q) \/ Instantiate(q) \/ Run(q) \/ Answer(q) \/ WaitTimeout(q)
      PROVE  Limits'
  BY <1>1, <1>4 DEF Arrive, beginCompile, DownloadFails, finishCompile, finishFailedCompile,
                    NotLoaded, Instantiate, Run, Answer, WaitTimeout
<1>5. CASE Tick
  <2>1. cache \in CacheType /\ order' = order /\ cacheBytes' = cacheBytes
    BY <1>5 DEF Tick, Limits, Tracks
  <2>2. ASSUME NEW k \in Keys
        PROVE  /\ cache'[k] \in [cached: BOOLEAN, age: Nat, content: Contents \cup {NoContent}]
               /\ cache'[k].cached = cache[k].cached
               /\ cache'[k].content = cache[k].content
               /\ cache'[k].age \in 0..(ModuleCacheTTL + 1)
    <3>1. cache[k].age \in 0..(ModuleCacheTTL + 1) /\ ModuleCacheTTL \in Nat
      BY ModuleCacheAssumption DEF Limits, Aged
    <3>2. CASE cache[k].cached /\ ~entryExpired(cache[k])
      <4>1. cache'[k] = [cache[k] EXCEPT !.age = @ + 1]
        BY <1>5, <3>2 DEF Tick
      <4>2. cache[k].age + 1 \in 0..(ModuleCacheTTL + 1)
        BY <3>1, <3>2 DEF entryExpired
      <4> QED BY <2>1, <4>1, <4>2 DEF CacheType
    <3>3. CASE ~(cache[k].cached /\ ~entryExpired(cache[k]))
      <4>1. cache'[k] = cache[k]
        BY <1>5, <3>3 DEF Tick
      <4> QED BY <2>1, <3>1, <4>1 DEF CacheType
    <3> QED BY <3>2, <3>3
  <2>3. cache' \in CacheType
    <3>1. cache' = [k \in Keys |-> cache'[k]]
      BY <1>5 DEF Tick
    <3> QED BY <2>2, <3>1 DEF CacheType
  <2>4. Cached(cache') = Cached(cache)
    BY <2>2 DEF Cached
  <2>5. Bytes(cache', Cached(cache)) = Bytes(cache, Cached(cache))
    <3>1. Cached(cache) \in SUBSET Keys /\ IsFiniteSet(Cached(cache))
      BY CachedFinite
    <3>2. \A k \in Cached(cache) : cache'[k].content = cache[k].content
      BY <2>2, <3>1
    <3> QED BY <2>1, <2>3, <3>1, <3>2, BytesSame
  <2>6. Tracks(cache, order, cacheBytes)'
    BY <2>1, <2>3, <2>4, <2>5 DEF Limits, Tracks
  <2>7. Aged' /\ CacheBounded'
    BY <2>1, <2>2, <2>4 DEF Limits, Aged, CacheBounded
  <2> QED BY <2>6, <2>7 DEF Limits
<1>6. CASE UNCHANGED vars
  BY <1>1, <1>6 DEF vars
<1> QED BY <1>2, <1>3, <1>4, <1>5, <1>6 DEF Next, Step

(* Initially the cache is empty. *)
LEMMA InitLimits == Init => Limits
<1> SUFFICES ASSUME Init PROVE Limits
  OBVIOUS
<1> USE ModuleCacheAssumption
<1>1. /\ cache \in CacheType /\ Cached(cache) = {} /\ Aged
      /\ order = <<>> /\ cacheBytes = 0
  BY DEF Init, CacheType, NotCached, Cached, Aged
<1>2. <<>> \in Seq(Keys) /\ Once(<<>>) /\ InOrder(<<>>) = {}
  BY DEF Once, InOrder
<1>3. IsFiniteSet({}) /\ Cardinality({}) = 0
  BY FS_EmptySet
<1>4. Bytes(cache, {}) = 0
  BY <1>1, <1>3, BytesStep
<1> QED BY <1>1, <1>2, <1>3, <1>4 DEF Limits, Tracks, CacheBounded

(* The order, the byte count and both limits hold in every state. *)
THEOREM LimitsHold == Spec => []Limits
<1> QED BY InitLimits, NextLimits, InvHolds, PTL DEF Spec

(* For every sequence of insertions, hits, expiries and evictions, the byte *)
(* count is the sum of the sizes of the cached modules.                     *)
THEOREM BytesHold == Spec => []BytesAccounted
<1>1. Limits => BytesAccounted
  BY DEF Limits, Tracks, BytesAccounted
<1> QED BY <1>1, LimitsHold, PTL

(* For any limits and any sizes, the cache is within both limits between    *)
(* two critical sections, even when a module alone exceeds the byte limit.  *)
THEOREM CacheStaysBounded == Spec => []CacheBounded
<1>1. Limits => CacheBounded
  BY DEF Limits
<1> QED BY <1>1, LimitsHold, PTL

-----------------------------------------------------------------------------
(* The outputs of guests *)

(* Max finds the largest element of a nonempty set of indices. *)
LEMMA LargestIndex ==
  ASSUME NEW n \in Nat, NEW T \in SUBSET (1..n), T # {}
  PROVE  Max(T) \in T /\ \A y \in T : Max(T) >= y
<1> DEFINE D == {n - t : t \in T}
<1>1. D \subseteq Nat /\ D # {}
  <2>1. \A t \in T : t \in 1..n
    OBVIOUS
  <2>2. \A t \in T : n - t \in Nat
    BY <2>1
  <2>3. PICK t : t \in T
    OBVIOUS
  <2>4. n - t \in D
    BY <2>3
  <2> QED BY <2>2, <2>4
<1>2. \E d \in D : \A e \in D : d <= e
  <2> HIDE DEF D
  <2> QED BY <1>1, LeastNatural
<1>3. PICK x \in T : \A y \in T : n - x <= n - y
  BY <1>2
<1>4. \A y \in T : x >= y
  <2>1. \A t \in T : t \in Nat
    OBVIOUS
  <2> QED BY <1>3, <2>1
<1> QED BY <1>4 DEF Max

(* In particular of an initial segment. *)
LEMMA LastIndex ==
  ASSUME NEW i \in Nat \ {0}
  PROVE  Max(1..i) = i /\ (1..i) \ {i} = 1..(i - 1)
<1>1. Max(1..i) \in 1..i /\ Max(1..i) >= i
  <2>1. 1..i \in SUBSET (1..i) /\ 1..i # {} /\ i \in 1..i /\ i \in Nat
    OBVIOUS
  <2> QED BY <2>1, LargestIndex
<1> QED BY <1>1

(* A fold over the indices of a sequence, from the last to the first. *)
IndexFoldable(n, V, base, st) ==
    base \in V /\ \A x \in 1..n, v \in V : st[x][v] \in V

IsIndexFold(it, n, V, base, st) ==
    /\ it \in [SUBSET (1..n) -> V]
    /\ it[{}] = base
    /\ \A T \in SUBSET (1..n) : T # {} => it[T] = st[Max(T)][it[T \ {Max(T)}]]

(* It exists, as folds do. *)
LEMMA IndexFold ==
  ASSUME NEW n \in Nat, NEW V, NEW base, NEW st, IndexFoldable(n, V, base, st)
  PROVE  \E it : IsIndexFold(it, n, V, base, st)
<1> DEFINE S == 1..n
           ch == [T \in SUBSET S |-> Max(T)]
<1>1. \A T \in SUBSET S : ch[T] = Max(T)
  OBVIOUS
<1>2. \A T \in SUBSET S : T # {} => ch[T] \in T
  <2> HIDE DEF ch
  <2> QED BY <1>1, LargestIndex
<1>3. IsFiniteSet(S)
  BY FS_Interval
<1>4. base \in V /\ \A x \in S, v \in V : st[x][v] \in V
  BY DEF IndexFoldable
<1> HIDE DEF S, ch
<1>5. Foldable(S, V, base, ch, st)
  BY <1>2, <1>3, <1>4 DEF Foldable
<1>6. PICK it : IsFold(it, S, V, base, ch, st)
  BY <1>5, FoldDefined
<1>7. /\ it \in [SUBSET S -> V] /\ it[{}] = base
      /\ \A T \in SUBSET S : T # {} => it[T] = st[Max(T)][it[T \ {Max(T)}]]
  BY <1>1, <1>6 DEF IsFold
<1>8. IsIndexFold(it, n, V, base, st)
  BY <1>7, Zenon DEF IsIndexFold, S
<1> QED BY <1>8

EmptyBuffer == [len |-> 0, overflow |-> FALSE]
Buffers == [len: Nat, overflow: BOOLEAN]

(* A chunk that is written to a buffer. *)
LEMMA WriteType ==
  ASSUME NEW buf \in Buffers, NEW p \in Nat
  PROVE  cappedWrite(buf, p) \in Buffers
<1> DEFINE b == cappedWrite(buf, p)
<1>1. buf.len \in Nat /\ MaxOutputBytes \in Nat
  BY ModuleCacheAssumption DEF Buffers
<1>2. CASE buf.overflow
  BY <1>2 DEF cappedWrite
<1>3. CASE ~buf.overflow /\ MaxOutputBytes - buf.len <= 0
  BY <1>3 DEF cappedWrite, Buffers
<1>4. CASE ~buf.overflow /\ ~(MaxOutputBytes - buf.len <= 0) /\ p > MaxOutputBytes - buf.len
  <2>1. b = [len |-> buf.len + (MaxOutputBytes - buf.len), overflow |-> TRUE]
    BY <1>4 DEF cappedWrite
  <2>2. buf.len + (MaxOutputBytes - buf.len) \in Nat
    BY <1>1
  <2> QED BY <2>1, <2>2 DEF Buffers
<1>5. CASE ~buf.overflow /\ ~(MaxOutputBytes - buf.len <= 0) /\ ~(p > MaxOutputBytes - buf.len)
  <2>1. b = [buf EXCEPT !.len = @ + p]
    BY <1>5 DEF cappedWrite
  <2>2. buf.len + p \in Nat
    BY <1>1
  <2> QED BY <2>1, <2>2 DEF Buffers
<1> QED BY <1>2, <1>3, <1>4, <1>5

(* FoldLeft writes the chunks one after the other. *)
LEMMA StdoutWrites ==
  ASSUME NEW chunks \in Seq(Nat)
  PROVE  \E g : /\ g[0] = EmptyBuffer
                /\ \A i \in 1..Len(chunks) : g[i] = cappedWrite(g[i - 1], chunks[i])
                /\ FoldLeft(cappedWrite, EmptyBuffer, chunks) = g[Len(chunks)]
<1> DEFINE n == Len(chunks)
           S == 1..n
           body(it) == [T \in SUBSET S |->
                IF T = {} THEN EmptyBuffer ELSE cappedWrite(it[T \ {Max(T)}], chunks[Max(T)])]
           st == [i \in S |-> [v \in Buffers |-> cappedWrite(v, chunks[i])]]
           h == CHOOSE it : it = body(it)
<1>1. n \in Nat /\ DOMAIN chunks = S /\ \A i \in S : chunks[i] \in Nat
  OBVIOUS
<1>2. EmptyBuffer \in Buffers
  BY DEF EmptyBuffer, Buffers
<1>3. \E it : it = body(it)
  <2>1. \A i \in S, v \in Buffers : st[i][v] = cappedWrite(v, chunks[i])
    <3> HIDE DEF S
    <3> QED OBVIOUS
  <2>2. \A i \in S, v \in Buffers : st[i][v] \in Buffers
    <3> HIDE DEF st, S
    <3> QED BY <1>1, <2>1, WriteType
  <2> HIDE DEF st, n
  <2>3. IndexFoldable(n, Buffers, EmptyBuffer, st)
    BY <1>2, <2>2 DEF IndexFoldable
  <2>4. PICK it : IsIndexFold(it, n, Buffers, EmptyBuffer, st)
    BY <1>1, <2>3, IndexFold
  <2>5. /\ it \in [SUBSET S -> Buffers]
        /\ it[{}] = EmptyBuffer
        /\ \A T \in SUBSET S : T # {} => it[T] = st[Max(T)][it[T \ {Max(T)}]]
    BY <2>4, Zenon DEF IsIndexFold
  <2>6. \A T \in SUBSET S : T # {} => Max(T) \in T
    BY <1>1, LargestIndex
  <2> HIDE DEF S
  <2>7. ASSUME NEW T \in SUBSET S, T # {}
        PROVE  it[T] = cappedWrite(it[T \ {Max(T)}], chunks[Max(T)])
    <3>1. Max(T) \in S /\ it[T \ {Max(T)}] \in Buffers
      BY <2>5, <2>6, <2>7
    <3> QED BY <2>1, <2>5, <2>7, <3>1
  <2>8. \A T \in SUBSET S :
            it[T] = IF T = {} THEN EmptyBuffer ELSE cappedWrite(it[T \ {Max(T)}], chunks[Max(T)])
    BY <2>5, <2>7
  <2>9. it = body(it)
    BY <2>5, <2>8
  <2> HIDE DEF body
  <2> QED BY <2>9
<1>4. h = body(h)
  <2> HIDE DEF body
  <2> QED BY <1>3
<1>5. FoldLeft(cappedWrite, EmptyBuffer, chunks) = h[S]
  <2>1. FoldLeft(cappedWrite, EmptyBuffer, chunks) =
           (CHOOSE it : it = [T \in SUBSET DOMAIN chunks |->
                IF T = {} THEN EmptyBuffer ELSE cappedWrite(it[T \ {Max(T)}], chunks[Max(T)])])[DOMAIN chunks]
    BY DEF FoldLeft, MapThenFoldSet
  <2> QED BY <1>1, <2>1, Zenon
<1> HIDE DEF h, n
<1>6. \A T \in SUBSET S :
        h[T] = IF T = {} THEN EmptyBuffer ELSE cappedWrite(h[T \ {Max(T)}], chunks[Max(T)])
  <2> HIDE DEF S
  <2> QED BY <1>4, Zenon
<1> DEFINE g == [i \in 0..n |-> h[1..i]]
<1>7. g[0] = EmptyBuffer
  <2>1. 0 \in 0..n /\ 1..0 = {} /\ {} \in SUBSET S
    BY <1>1
  <2>2. g[0] = h[{}]
    BY <2>1
  <2> HIDE DEF S, g
  <2> QED BY <1>6, <2>1, <2>2
<1>8. ASSUME NEW i \in 1..n
      PROVE  g[i] = cappedWrite(g[i - 1], chunks[i])
  <2>1. /\ i \in Nat \ {0} /\ i \in 0..n /\ i - 1 \in 0..n
        /\ 1..i \in SUBSET S /\ 1..i # {}
    BY <1>1
  <2>2. g[i] = h[1..i] /\ g[i - 1] = h[1..(i - 1)]
    BY <2>1
  <2>3. h[1..i] = cappedWrite(h[(1..i) \ {Max(1..i)}], chunks[Max(1..i)])
    <3> HIDE DEF S
    <3> QED BY <1>6, <2>1
  <2>4. Max(1..i) = i /\ (1..i) \ {i} = 1..(i - 1)
    BY <2>1, LastIndex
  <2>5. h[1..i] = cappedWrite(h[1..(i - 1)], chunks[i])
    BY <2>3, <2>4, Zenon
  <2> HIDE DEF g
  <2> QED BY <2>2, <2>5
<1>9. g[n] = h[S]
  BY <1>1
<1> HIDE DEF g
<1> QED BY <1>5, <1>7, <1>8, <1>9 DEF n
(* FoldLeft adds up the chunks one after the other. *)
LEMMA ChunksAddUp ==
  ASSUME NEW chunks \in Seq(Nat)
  PROVE  \E g : /\ g[0] = 0
                /\ \A i \in 1..Len(chunks) : g[i] = g[i - 1] + chunks[i]
                /\ FoldLeft(+, 0, chunks) = g[Len(chunks)]
<1> DEFINE n == Len(chunks)
           S == 1..n
           body(it) == [T \in SUBSET S |->
                IF T = {} THEN 0 ELSE it[T \ {Max(T)}] + chunks[Max(T)]]
           st == [i \in S |-> [v \in Nat |-> v + chunks[i]]]
           h == CHOOSE it : it = body(it)
<1>1. n \in Nat /\ DOMAIN chunks = S /\ \A i \in S : chunks[i] \in Nat
  OBVIOUS
<1>2. 0 \in Nat
  OBVIOUS
<1>3. \E it : it = body(it)
  <2>1. \A i \in S, v \in Nat : st[i][v] = v + chunks[i]
    <3> HIDE DEF S
    <3> QED OBVIOUS
  <2>2. \A i \in S, v \in Nat : st[i][v] \in Nat
    <3> HIDE DEF st, S
    <3>1. \A i \in S, v \in Nat : v + chunks[i] \in Nat
      BY <1>1
    <3> QED BY <2>1, <3>1, Zenon
  <2> HIDE DEF st, n
  <2>3. IndexFoldable(n, Nat, 0, st)
    BY <1>2, <2>2 DEF IndexFoldable
  <2>4. PICK it : IsIndexFold(it, n, Nat, 0, st)
    BY <1>1, <2>3, IndexFold
  <2>5. /\ it \in [SUBSET S -> Nat]
        /\ it[{}] = 0
        /\ \A T \in SUBSET S : T # {} => it[T] = st[Max(T)][it[T \ {Max(T)}]]
    BY <2>4, Zenon DEF IsIndexFold
  <2>6. \A T \in SUBSET S : T # {} => Max(T) \in T
    BY <1>1, LargestIndex
  <2> HIDE DEF S
  <2>7. ASSUME NEW T \in SUBSET S, T # {}
        PROVE  it[T] = it[T \ {Max(T)}] + chunks[Max(T)]
    <3>1. Max(T) \in S /\ it[T \ {Max(T)}] \in Nat
      BY <2>5, <2>6, <2>7
    <3> QED BY <2>1, <2>5, <2>7, <3>1
  <2>8. \A T \in SUBSET S :
            it[T] = IF T = {} THEN 0 ELSE it[T \ {Max(T)}] + chunks[Max(T)]
    BY <2>5, <2>7
  <2>9. it = body(it)
    BY <2>5, <2>8
  <2> HIDE DEF body
  <2> QED BY <2>9
<1>4. h = body(h)
  <2> HIDE DEF body
  <2> QED BY <1>3
<1>5. FoldLeft(+, 0, chunks) = h[S]
  <2>1. FoldLeft(+, 0, chunks) =
           (CHOOSE it : it = [T \in SUBSET DOMAIN chunks |->
                IF T = {} THEN 0 ELSE it[T \ {Max(T)}] + chunks[Max(T)]])[DOMAIN chunks]
    BY DEF FoldLeft, MapThenFoldSet
  <2> QED BY <1>1, <2>1, Zenon
<1> HIDE DEF h, n
<1>6. \A T \in SUBSET S :
        h[T] = IF T = {} THEN 0 ELSE h[T \ {Max(T)}] + chunks[Max(T)]
  <2> HIDE DEF S
  <2> QED BY <1>4, Zenon
<1> DEFINE g == [i \in 0..n |-> h[1..i]]
<1>7. g[0] = 0
  <2>1. 0 \in 0..n /\ 1..0 = {} /\ {} \in SUBSET S
    BY <1>1
  <2>2. g[0] = h[{}]
    BY <2>1
  <2> HIDE DEF S, g
  <2> QED BY <1>6, <2>1, <2>2
<1>8. ASSUME NEW i \in 1..n
      PROVE  g[i] = g[i - 1] + chunks[i]
  <2>1. /\ i \in Nat \ {0} /\ i \in 0..n /\ i - 1 \in 0..n
        /\ 1..i \in SUBSET S /\ 1..i # {}
    BY <1>1
  <2>2. g[i] = h[1..i] /\ g[i - 1] = h[1..(i - 1)]
    BY <2>1
  <2>3. h[1..i] = h[(1..i) \ {Max(1..i)}] + chunks[Max(1..i)]
    <3> HIDE DEF S
    <3> QED BY <1>6, <2>1
  <2>4. Max(1..i) = i /\ (1..i) \ {i} = 1..(i - 1)
    BY <2>1, LastIndex
  <2>5. h[1..i] = h[1..(i - 1)] + chunks[i]
    BY <2>3, <2>4, Zenon
  <2> HIDE DEF g
  <2> QED BY <2>2, <2>5
<1>9. g[n] = h[S]
  BY <1>1
<1> HIDE DEF g
<1> QED BY <1>5, <1>7, <1>8, <1>9 DEF n

(* What a buffer holds: everything that was written, unless it overflowed. *)
Holds(buf, total) ==
    /\ buf \in Buffers /\ total \in Nat
    /\ buf.len <= MaxOutputBytes
    /\ ~buf.overflow => buf.len = total

(* One write keeps it so. *)
LEMMA WriteHolds ==
  ASSUME NEW buf, NEW total, Holds(buf, total), NEW p \in Nat
  PROVE  Holds(cappedWrite(buf, p), total + p)
<1> DEFINE b == cappedWrite(buf, p)
<1>1. /\ buf \in Buffers /\ buf.len \in Nat /\ MaxOutputBytes \in Nat /\ total \in Nat
      /\ buf.len <= MaxOutputBytes
      /\ ~buf.overflow => buf.len = total
  BY ModuleCacheAssumption DEF Holds, Buffers
<1>2. b \in Buffers /\ total + p \in Nat
  BY <1>1, WriteType
<1>3. CASE buf.overflow
  <2>1. b = buf
    BY <1>3 DEF cappedWrite
  <2> QED BY <1>1, <1>2, <1>3, <2>1 DEF Holds
<1>4. CASE ~buf.overflow /\ MaxOutputBytes - buf.len <= 0
  <2>1. b.len = buf.len /\ b.overflow = TRUE
    BY <1>1, <1>4 DEF cappedWrite, Buffers
  <2> QED BY <1>1, <1>2, <2>1 DEF Holds
<1>5. CASE ~buf.overflow /\ ~(MaxOutputBytes - buf.len <= 0) /\ p > MaxOutputBytes - buf.len
  <2>1. b.len = buf.len + (MaxOutputBytes - buf.len) /\ b.overflow = TRUE
    BY <1>5 DEF cappedWrite
  <2>2. b.len <= MaxOutputBytes
    BY <1>1, <2>1
  <2> QED BY <1>2, <2>1, <2>2 DEF Holds
<1>6. CASE ~buf.overflow /\ ~(MaxOutputBytes - buf.len <= 0) /\ ~(p > MaxOutputBytes - buf.len)
  <2>1. b.len = buf.len + p
    BY <1>1, <1>6 DEF cappedWrite, Buffers
  <2>2. b.len <= MaxOutputBytes /\ b.len = total + p
    BY <1>1, <1>6, <2>1
  <2> QED BY <1>2, <2>2 DEF Holds
<1> QED BY <1>3, <1>4, <1>5, <1>6

(* An answer of the right type that is whole when it is a result. *)
Whole(a) ==
    /\ a \in [ok: BOOLEAN, meant: Nat, got: Nat]
    /\ a.ok => a.got = a.meant /\ a.got <= MaxOutputBytes

LEMMA NoAnswerWhole == Whole(NoAnswer)
BY DEF Whole, NoAnswer

(* However a guest cuts its output into chunks, it is returned whole or not *)
(* at all.                                                                  *)
LEMMA WasiWhole ==
  ASSUME NEW chunks \in Seq(Nat)
  PROVE  Whole(WasiAnswer(chunks))
<1> DEFINE n == Len(chunks)
<1>1. PICK g : /\ g[0] = EmptyBuffer
               /\ \A i \in 1..n : g[i] = cappedWrite(g[i - 1], chunks[i])
               /\ FoldLeft(cappedWrite, EmptyBuffer, chunks) = g[n]
  BY StdoutWrites
<1>2. PICK t : /\ t[0] = 0
               /\ \A i \in 1..n : t[i] = t[i - 1] + chunks[i]
               /\ FoldLeft(+, 0, chunks) = t[n]
  BY ChunksAddUp
<1>3. n \in Nat /\ \A i \in 1..n : chunks[i] \in Nat
  OBVIOUS
<1> HIDE DEF n
<1> DEFINE Bad == {i \in 0..n : ~Holds(g[i], t[i])}
<1>4. Bad = {}
  <2>1. SUFFICES ASSUME Bad # {} PROVE FALSE
    OBVIOUS
  <2>2. PICK i \in Bad : \A j \in Bad : i <= j
    <3>1. Bad \subseteq Nat
      BY <1>3
    <3> HIDE DEF Bad
    <3> QED BY <2>1, <3>1, LeastNatural
  <2>3. i \in 0..n /\ ~Holds(g[i], t[i])
    OBVIOUS
  <2>4. Holds(g[0], t[0])
    <3>1. Holds(EmptyBuffer, 0)
      BY ModuleCacheAssumption DEF Holds, EmptyBuffer, Buffers
    <3> QED BY <1>1, <1>2, <3>1
  <2>5. i # 0
    BY <2>3, <2>4
  <2>6. i \in 1..n /\ i - 1 \in 0..n /\ ~(i <= i - 1)
    BY <1>3, <2>3, <2>5
  <2>7. Holds(g[i - 1], t[i - 1])
    <3>1. i - 1 \notin Bad
      <4> HIDE DEF Bad
      <4> QED BY <2>2, <2>6
    <3> QED BY <2>6, <3>1
  <2>8. Holds(cappedWrite(g[i - 1], chunks[i]), t[i - 1] + chunks[i])
    BY <1>3, <2>6, <2>7, WriteHolds
  <2> QED BY <1>1, <1>2, <2>3, <2>6, <2>8
<1>5. Holds(g[n], t[n])
  BY <1>3, <1>4
<1> DEFINE buf == FoldLeft(cappedWrite, EmptyBuffer, chunks)
           total == FoldLeft(+, 0, chunks)
<1>6. Holds(buf, total)
  BY <1>1, <1>2, <1>5
<1>7. WasiAnswer(chunks) =
        IF buf.overflow THEN NoAnswer ELSE [ok |-> TRUE, meant |-> total, got |-> buf.len]
  BY DEF WasiAnswer, EmptyBuffer
<1> HIDE DEF buf, total
<1>8. CASE buf.overflow
  BY <1>7, <1>8, NoAnswerWhole
<1>9. CASE ~buf.overflow
  BY <1>6, <1>7, <1>9 DEF Holds, Whole, Buffers
<1> QED BY <1>8, <1>9

(* The host takes the length apart as the guest packed it. *)
LEMMA LengthUnpacked ==
  ASSUME NEW ptr \in Nat, NEW len \in 0..(Word - 1)
  PROVE  outputLen(pack(ptr, len)) = len
<1> DEFINE a == ptr * Word + len
           d == a \div Word
           m == a % Word
<1>1. Word \in Nat \ {0} /\ len \in Nat /\ len < Word
  BY ModuleCacheAssumption
<1>2. a \in Nat
  BY <1>1
<1>3. d \in Nat /\ m \in 0..(Word - 1)
  BY <1>1, <1>2
<1>4. a = d * Word + m
  BY <1>1, <1>2
<1> HIDE DEF d, m
<1>5. (ptr - d) * Word = m - len
  BY <1>1, <1>3, <1>4
<1>6. ptr - d = 0
  BY <1>1, <1>3, <1>5
<1>7. m = len
  BY <1>1, <1>3, <1>5, <1>6
<1> QED BY <1>7 DEF outputLen, pack, m

(* So a result of the wasmcat ABI has the length that the guest meant. *)
LEMMA WasmcatWhole ==
  ASSUME NEW mem, NEW ptr \in 0..(Word - 1), NEW len \in 0..(Word - 1)
  PROVE  Whole(WasmcatAnswer(mem, ptr, len))
<1>1. ptr \in Nat /\ len \in Nat
  BY ModuleCacheAssumption
<1>2. outputLen(pack(ptr, len)) = len
  BY <1>1, LengthUnpacked
<1>3. \/ WasmcatAnswer(mem, ptr, len) = NoAnswer
      \/ /\ len <= MaxOutputBytes
         /\ WasmcatAnswer(mem, ptr, len) = [ok |-> TRUE, meant |-> len, got |-> len]
  BY <1>2 DEF WasmcatAnswer
<1>4. len <= MaxOutputBytes => Whole([ok |-> TRUE, meant |-> len, got |-> len])
  BY <1>1 DEF Whole
<1> QED BY <1>3, <1>4, NoAnswerWhole, Zenon

(* Whatever a guest may answer is whole. *)
LEMMA AnswersWhole ==
  ASSUME NEW a \in SomeAnswers
  PROVE  Whole(a)
<1>1. \/ a = NoAnswer
      \/ \E chunks \in Outputs : a = WasiAnswer(chunks)
      \/ \E mem \in 0..Word : \E ptr, len \in 0..(Word - 1) : a = WasmcatAnswer(mem, ptr, len)
  BY DEF SomeAnswers, Answers
<1>2. ASSUME NEW chunks \in Outputs, a = WasiAnswer(chunks)
      PROVE  Whole(a)
  BY <1>2, WasiWhole, ModuleCacheAssumption
<1>3. ASSUME NEW mem \in 0..Word, NEW ptr \in 0..(Word - 1), NEW len \in 0..(Word - 1),
             a = WasmcatAnswer(mem, ptr, len)
      PROVE  Whole(a)
  BY <1>3, WasmcatWhole
<1> QED BY <1>1, <1>2, <1>3, NoAnswerWhole

(* For every word size, output limit and guest: a result is all that the    *)
(* guest wrote or pointed at, and within the limit.                         *)
THEOREM OutputsWhole == Spec => []OutputWhole
<1>1. Inv => OutputWhole
  <2>1. SUFFICES ASSUME Inv, NEW q \in Requests PROVE Whole(req[q].answer)
    BY DEF OutputWhole, Whole
  <2>2. req[q].answer \in SomeAnswers
    BY <2>1 DEF Inv, Types, ReqType, OneReq
  <2> QED BY <2>2, AnswersWhole
<1> QED BY <1>1, InvHolds, PTL

(* The type invariant of the engine: usedOrder lists every cached key once, *)
(* ages stop at the first one that is too old, answers have their fields.   *)
THEOREM TypesHold == Spec => []TypeOK
<1>1. Inv /\ SlotInv /\ Limits => TypeOK
  <2> SUFFICES ASSUME Inv, SlotInv, Limits PROVE TypeOK
    OBVIOUS
  <2>1. cache \in [Keys -> [cached: BOOLEAN, age: 0..(ModuleCacheTTL + 1),
                            content: Contents \cup {NoContent}]]
    BY DEF Limits, Tracks, CacheType, Aged
  <2>2. /\ order \in Seq(Keys) /\ Len(order) = Cardinality(Cached(cache))
        /\ {order[i] : i \in 1..Len(order)} = Cached(cache)
    <3>1. order \in Seq(Keys) /\ Once(order) /\ InOrder(order) = Cached(cache)
      BY DEF Limits, Tracks
    <3>2. Cardinality(InOrder(order)) = Len(order)
      BY <3>1, OrderLength
    <3> QED BY <3>1, <3>2 DEF InOrder
  <2>3. cacheBytes \in Nat
    BY CachedFinite, BytesStep DEF Limits, Tracks
  <2>4. sem \in Nat
    BY FS_CardinalityType DEF SlotInv, SlotsAccounted, Active
  <2>5. req \in [Requests -> [pc: PCs, key: Keys \cup {NoKey}, mod: Modules \cup {NoKey}, ok: BOOLEAN,
                              content: Contents \cup {NoContent},
                              answer: [ok: BOOLEAN, meant: Nat, got: Nat]]]
    <3>1. \A a \in SomeAnswers : a \in [ok: BOOLEAN, meant: Nat, got: Nat]
      BY AnswersWhole DEF Whole
    <3>2. req \in ReqType
      BY DEF Inv, Types
    <3> QED BY <3>1, <3>2 DEF ReqType, OneReq
  <2>6. inflight \subseteq Keys
    BY DEF Inv, Types
  <2> QED BY <2>1, <2>2, <2>3, <2>4, <2>5, <2>6 DEF TypeOK, PCs
<1> QED BY <1>1, InvHolds, SlotInvHolds, LimitsHold, PTL
=============================================================================
