--------------------------------- MODULE Sums ---------------------------------
(***************************************************************************)
(* Lemmas about finite sums, SumFunction of the community modules: how it  *)
(* unfolds, that the order does not matter, monotonicity, and counting a   *)
(* set by its parts.  They are proved by induction over the subsets of a   *)
(* finite set, in the form of a minimal counterexample.                    *)
(***************************************************************************)
EXTENDS Integers, FiniteSets, Functions, FiniteSetTheorems, TLAPS

-----------------------------------------------------------------------------
(* Induction over the subsets of a finite set, for a set of subsets.       *)

LEMMA SubsetInduction ==
    ASSUME NEW S, IsFiniteSet(S), NEW G,
           \A T \in SUBSET S : (\A U \in SUBSET T : U # T => U \in G) => T \in G
    PROVE  SUBSET S \subseteq G
<1> SUFFICES ASSUME ~(SUBSET S \subseteq G) PROVE FALSE
  OBVIOUS
<1> DEFINE B == (SUBSET S) \ G
           R == StrictSubsetOrdering(S)
<1>1. IsWellFoundedOn(R, SUBSET S)
  <2>1. IsWellFoundedOn(R, FiniteSubsetsOf(S))
    BY FS_StrictSubsetOrderingWellFounded
  <2>2. FiniteSubsetsOf(S) = SUBSET S
    BY FS_FiniteSubsetsOfFinite
  <2> HIDE DEF R
  <2> QED BY <2>1, <2>2
<1>2. B \subseteq SUBSET S /\ B # {}
  OBVIOUS
<1> HIDE DEF B, R
<1>3. PICK T \in B : \A U \in B : <<U, T>> \notin R
  BY <1>1, <1>2, WFMin
<1>4. T \in SUBSET S /\ T \notin G
  BY <1>3 DEF B
<1>5. ASSUME NEW U \in SUBSET T, U # T PROVE U \in G
  <2>1. U \in SUBSET S /\ <<U, T>> \in R
    BY <1>4, <1>5 DEF R, StrictSubsetOrdering
  <2> QED BY <1>3, <2>1 DEF B
<1> QED BY <1>4, <1>5

LEMMA FiniteInduction ==
    ASSUME NEW S, IsFiniteSet(S), NEW G, {} \in G,
           \A T \in SUBSET S, x \in S : T \in G /\ x \notin T => T \cup {x} \in G
    PROVE  SUBSET S \subseteq G
<1>1. ASSUME NEW T \in SUBSET S, \A U \in SUBSET T : U # T => U \in G PROVE T \in G
  <2>1. CASE T = {}
    BY <2>1
  <2>2. CASE T # {}
    <3>1. PICK x \in T : TRUE
      BY <2>2
    <3>2. T \ {x} \in G /\ T \ {x} \in SUBSET S /\ x \in S /\ x \notin T \ {x} /\ (T \ {x}) \cup {x} = T
      BY <1>1, <3>1
    <3> QED BY <3>2
  <2> QED BY <2>1, <2>2
<1> QED BY <1>1, SubsetInduction

LEMMA FiniteImage ==
    ASSUME NEW S, IsFiniteSet(S), NEW f, DOMAIN f = S
    PROVE  IsFiniteSet({f[x] : x \in S})
<1> DEFINE T == {f[x] : x \in S}
           g == [x \in S |-> f[x]]
<1>1. g \in Surjection(S, T)
  BY DEF Surjection
<1> HIDE DEF g
<1> QED BY <1>1, FS_Surjection

LEMMA FiniteUnion ==
    ASSUME NEW D, IsFiniteSet(D), NEW part, \A x \in D : IsFiniteSet(part[x])
    PROVE  IsFiniteSet(UNION {part[x] : x \in D})
<1> DEFINE P(S) == UNION {part[x] : x \in S}
           G == {S \in SUBSET D : IsFiniteSet(P(S))}
<1>1. {} \in G
  <2>1. P({}) = {}
    OBVIOUS
  <2> HIDE DEF P
  <2> QED BY <2>1, FS_EmptySet
<1>2. ASSUME NEW S \in SUBSET D, NEW y \in D, S \in G, y \notin S PROVE S \cup {y} \in G
  <2>1. P(S \cup {y}) = P(S) \cup part[y]
    OBVIOUS
  <2>2. IsFiniteSet(P(S)) /\ IsFiniteSet(part[y])
    BY <1>2
  <2> HIDE DEF P
  <2>3. IsFiniteSet(P(S) \cup part[y])
    BY <2>2, FS_Union
  <2> QED BY <2>1, <2>3
<1> HIDE DEF G
<1>3. D \in G
  BY <1>1, <1>2, FiniteInduction
<1> QED BY <1>3 DEF G

-----------------------------------------------------------------------------
(* What SumFunction is.                                                    *)

Chosen(s) == CHOOSE x \in s : TRUE

\* g is the sum of f over each subset of D.
Unfolds(g, f, D) == g = [s \in SUBSET D |-> IF s = {} THEN 0 ELSE f[Chosen(s)] + g[s \ {Chosen(s)}]]

LEMMA SumIs ==
    ASSUME NEW f, NEW D, D = DOMAIN f
    PROVE  SumFunction(f) = (CHOOSE g : Unfolds(g, f, D))[D]
BY DEF SumFunction, SumFunctionOnSet, FoldFunctionOnSet, MapThenFoldSet, Unfolds, Chosen

LEMMA ChosenIn == ASSUME NEW s, s # {} PROVE Chosen(s) \in s
BY DEF Chosen

LEMMA UnfoldsAt ==
    ASSUME NEW g, NEW f, NEW D, Unfolds(g, f, D), NEW s \in SUBSET D
    PROVE  /\ s = {} => g[s] = 0
           /\ s # {} => g[s] = f[Chosen(s)] + g[s \ {Chosen(s)}]
<1>1. g = [t \in SUBSET D |-> IF t = {} THEN 0 ELSE f[Chosen(t)] + g[t \ {Chosen(t)}]]
  BY DEF Unfolds
<1> QED BY <1>1

\* The sum over a set does not depend on what lies outside it.
LEMMA UnfoldsOnce ==
    ASSUME NEW g, NEW f, NEW D, Unfolds(g, f, D), NEW h, NEW e, NEW E, Unfolds(h, e, E),
           NEW S, S \subseteq D, S \subseteq E, IsFiniteSet(S), \A x \in S : f[x] = e[x]
    PROVE  g[S] = h[S]
<1> DEFINE G == {T \in SUBSET S : g[T] = h[T]}
<1>1. ASSUME NEW T \in SUBSET S, \A U \in SUBSET T : U # T => U \in G PROVE T \in G
  <2>1. CASE T = {}
    BY <2>1, UnfoldsAt
  <2>2. CASE T # {}
    <3>1. PICK c : c = Chosen(T) /\ c \in T
      BY <2>2, ChosenIn
    <3>2. T \in SUBSET D /\ T \in SUBSET E
      OBVIOUS
    <3> HIDE DEF G
    <3>3. T # {} => g[T] = f[Chosen(T)] + g[T \ {Chosen(T)}]
      <4>1. Unfolds(g, f, D) /\ T \in SUBSET D
        BY <3>2
      <4> QED BY ONLY <4>1, UnfoldsAt
    <3>4. T # {} => h[T] = e[Chosen(T)] + h[T \ {Chosen(T)}]
      <4>1. Unfolds(h, e, E) /\ T \in SUBSET E
        BY <3>2
      <4> QED BY ONLY <4>1, UnfoldsAt
    <3>5. g[T] = f[c] + g[T \ {c}]
      BY <2>2, <3>1, <3>3, Zenon
    <3>6. h[T] = e[c] + h[T \ {c}]
      BY <2>2, <3>1, <3>4, Zenon
    <3> USE DEF G
    <3>7. T \ {c} \in G
      BY <1>1, <3>1
    <3> QED BY <3>1, <3>5, <3>6, <3>7
  <2> QED BY <2>1, <2>2
<1> HIDE DEF G
<1>2. SUBSET S \subseteq G
  BY <1>1, SubsetInduction
<1> QED BY <1>2 DEF G

LEMMA SumExists ==
    ASSUME NEW D, IsFiniteSet(D), NEW f
    PROVE  \E g : Unfolds(g, f, D)
<1> DEFINE G == {T \in SUBSET D : \E g : Unfolds(g, f, T)}
<1>1. ASSUME NEW T \in SUBSET D, \A U \in SUBSET T : U # T => U \in G PROVE T \in G
  <2> DEFINE A(s) == (CHOOSE g : Unfolds(g, f, s))
             g == [s \in SUBSET T |-> IF s = {} THEN 0 ELSE f[Chosen(s)] + A(s \ {Chosen(s)})[s \ {Chosen(s)}]]
  <2>1. \A s \in SUBSET T : s # T => Unfolds(A(s), f, s)
    BY <1>1
  <2> HIDE DEF A
  <2>2. ASSUME NEW s \in SUBSET T, s # T PROVE A(s)[s] = g[s]
    <3>1. CASE s = {}
      BY <2>1, <2>2, <3>1, UnfoldsAt
    <3>2. CASE s # {}
      <4> DEFINE c == Chosen(s)
                 u == s \ {c}
      <4>1. c \in s
        BY <3>2, ChosenIn
      <4>2. A(s)[s] = f[c] + A(s)[u]
        BY <2>1, <2>2, <3>2, UnfoldsAt
      <4>3. g[s] = f[c] + A(u)[u]
        BY <3>2
      <4> HIDE DEF g, c
      <4>4. u \subseteq s /\ u \in SUBSET T /\ u # T /\ IsFiniteSet(u)
        BY <2>2, <4>1, FS_Subset
      <4>5. Unfolds(A(s), f, s) /\ Unfolds(A(u), f, u)
        BY <2>1, <2>2, <4>4
      <4> HIDE DEF u
      <4>6. A(s)[u] = A(u)[u]
        BY <4>4, <4>5, UnfoldsOnce
      <4> QED BY <4>2, <4>3, <4>6
    <3> QED BY <3>1, <3>2
  <2>3. \A s \in SUBSET T : s # {} => A(s \ {Chosen(s)})[s \ {Chosen(s)}] = g[s \ {Chosen(s)}]
    <3> SUFFICES ASSUME NEW s \in SUBSET T, s # {}
                 PROVE  A(s \ {Chosen(s)})[s \ {Chosen(s)}] = g[s \ {Chosen(s)}]
      OBVIOUS
    <3>1. Chosen(s) \in s
      BY ChosenIn
    <3>2. s \ {Chosen(s)} \in SUBSET T /\ s \ {Chosen(s)} # T
      BY <3>1
    <3> HIDE DEF g
    <3> QED BY <2>2, <3>2
  <2>4. Unfolds(g, f, T)
    BY <2>3 DEF Unfolds
  <2> HIDE DEF g
  <2>5. \E e : Unfolds(e, f, T)
    BY <2>4
  <2> QED BY <2>5
<1> HIDE DEF G
<1>2. SUBSET D \subseteq G
  BY <1>1, SubsetInduction
<1> QED BY <1>2 DEF G

\* The sums over the parts of D are numbers and may be taken in any order.
AnyOrder(g, f, D) == \A S \in SUBSET D : g[S] \in Int /\ \A y \in S : g[S] = f[y] + g[S \ {y}]

LEMMA UnfoldsAnyOrder ==
    ASSUME NEW D, IsFiniteSet(D), NEW f \in [D -> Int], NEW g, Unfolds(g, f, D)
    PROVE  AnyOrder(g, f, D)
<1> DEFINE G == {S \in SUBSET D : g[S] \in Int /\ \A y \in S : g[S] = f[y] + g[S \ {y}]}
<1>1. ASSUME NEW T \in SUBSET D, \A U \in SUBSET T : U # T => U \in G PROVE T \in G
  <2>1. CASE T = {}
    <3>1. g[T] = 0
      BY <2>1, UnfoldsAt
    <3> QED BY <2>1, <3>1
  <2>2. CASE T # {}
    <3>1. PICK c : c = Chosen(T) /\ c \in T /\ f[c] \in Int
      BY <2>2, ChosenIn
    <3>2. g[T] = f[c] + g[T \ {c}]
      <4> HIDE DEF G
      <4> QED BY <2>2, <3>1, UnfoldsAt
    <3>3. T \ {c} \in G
      BY <1>1, <3>1
    <3>4. ASSUME NEW y \in T PROVE g[T] = f[y] + g[T \ {y}]
      <4>1. CASE y = c
        BY <3>2, <4>1
      <4>2. CASE y # c /\ y \in T \ {c}
        <5> DEFINE r == (T \ {c}) \ {y}
        <5>1. g[T \ {c}] = f[y] + g[r] /\ f[y] \in Int
          BY <3>3, <4>2
        <5>2. T \ {y} \in G /\ c \in T \ {y}
          BY <1>1, <3>1, <4>2
        <5>3. g[T \ {y}] = f[c] + g[(T \ {y}) \ {c}] /\ (T \ {y}) \ {c} = r
          BY <5>2
        <5>4. r \in G
          <6>1. r \in SUBSET T /\ r # T
            BY <3>1
          <6> QED BY <1>1, <6>1
        <5>5. g[r] \in Int
          BY <5>4
        <5>6. PICK i \in Int, j \in Int, k \in Int : i = f[c] /\ j = f[y] /\ k = g[r]
          BY <3>1, <5>1, <5>5
        <5> HIDE DEF r
        <5>7. g[T] = i + (j + k) /\ g[T \ {y}] = i + k
          BY <3>2, <5>1, <5>3, <5>6
        <5> QED BY <5>6, <5>7
      <4> QED BY <4>1, <4>2
    <3>5. g[T] \in Int
      BY <3>1, <3>2, <3>3
    <3> QED BY <3>4, <3>5
  <2> QED BY <2>1, <2>2
<1> HIDE DEF G
<1>2. SUBSET D \subseteq G
  BY <1>1, SubsetInduction
<1> QED BY <1>2 DEF G, AnyOrder

-----------------------------------------------------------------------------
(* The lemmas to use.                                                      *)

\* The sum of f over a part of its domain.
SumOver(f, S) == SumFunction([x \in S |-> f[x]])

LEMMA SumOverParts ==
    ASSUME NEW D, IsFiniteSet(D), NEW f \in [D -> Int]
    PROVE  /\ SumOver(f, {}) = 0 /\ SumOver(f, D) = SumFunction(f)
           /\ \A S \in SUBSET D : SumOver(f, S) \in Int
           /\ \A S \in SUBSET D, y \in D : y \notin S => SumOver(f, S \cup {y}) = SumOver(f, S) + f[y]
<1>1. PICK g : Unfolds(g, f, D)
  BY SumExists
<1>2. ASSUME NEW S \in SUBSET D PROVE SumOver(f, S) = g[S]
  <2> DEFINE e == [x \in S |-> f[x]]
             h == CHOOSE h : Unfolds(h, e, S)
  <2>1. IsFiniteSet(S)
    BY FS_Subset
  <2>2. DOMAIN e = S /\ \A x \in S : e[x] = f[x]
    OBVIOUS
  <2> HIDE DEF e
  <2>3. Unfolds(h, e, S)
    BY <2>1, SumExists
  <2>4. SumFunction(e) = h[S]
    BY <2>2, SumIs
  <2> HIDE DEF h
  <2>5. h[S] = g[S]
    BY <1>1, <2>1, <2>2, <2>3, UnfoldsOnce
  <2> QED BY <2>4, <2>5 DEF e, SumOver
<1>3. \A S \in SUBSET D : g[S] \in Int /\ \A y \in S : g[S] = f[y] + g[S \ {y}]
  <2>1. AnyOrder(g, f, D)
    BY <1>1, UnfoldsAnyOrder
  <2> QED BY <2>1 DEF AnyOrder
<1>4. SumOver(f, {}) = 0
  BY <1>1, <1>2, UnfoldsAt
<1>5. SumOver(f, D) = SumFunction(f)
  <2>1. f = [x \in D |-> f[x]]
    OBVIOUS
  <2> QED BY <2>1 DEF SumOver
<1>6. ASSUME NEW S \in SUBSET D, NEW y \in D, y \notin S PROVE SumOver(f, S \cup {y}) = SumOver(f, S) + f[y]
  <2>1. S \cup {y} \in SUBSET D /\ (S \cup {y}) \ {y} = S /\ f[y] \in Int
    BY <1>6
  <2>2. g[S \cup {y}] = f[y] + g[S] /\ g[S] \in Int
    BY <1>3, <2>1
  <2> QED BY <1>2, <2>1, <2>2
<1> QED BY <1>2, <1>3, <1>4, <1>5, <1>6

LEMMA SumType ==
    ASSUME NEW D, IsFiniteSet(D), NEW f \in [D -> Int]
    PROVE  SumFunction(f) \in Int
BY SumOverParts

LEMMA SumEmpty ==
    ASSUME NEW f, DOMAIN f = {}
    PROVE  SumFunction(f) = 0
<1>1. IsFiniteSet({})
  BY FS_EmptySet
<1>2. PICK g : Unfolds(g, f, {})
  BY <1>1, SumExists
<1>3. Unfolds(CHOOSE h : Unfolds(h, f, {}), f, {})
  BY <1>2
<1>4. (CHOOSE h : Unfolds(h, f, {}))[{}] = 0
  BY <1>3, UnfoldsAt
<1> QED BY <1>4, SumIs

LEMMA SumSingle ==
    ASSUME NEW y, NEW f \in [{y} -> Int]
    PROVE  SumFunction(f) = f[y]
<1>1. IsFiniteSet({y})
  BY FS_Singleton
<1>2. SumOver(f, {} \cup {y}) = SumOver(f, {}) + f[y]
  BY <1>1, SumOverParts
<1>3. SumOver(f, {}) = 0 /\ SumOver(f, {y}) = SumFunction(f) /\ {} \cup {y} = {y} /\ f[y] \in Int
  BY <1>1, SumOverParts
<1> QED BY <1>2, <1>3

\* A larger function has a larger sum.
LEMMA SumLe ==
    ASSUME NEW D, IsFiniteSet(D), NEW f \in [D -> Int], NEW h \in [D -> Int], \A x \in D : f[x] <= h[x]
    PROVE  SumFunction(f) <= SumFunction(h)
<1> DEFINE G == {S \in SUBSET D : SumOver(f, S) <= SumOver(h, S)}
<1>1. {} \in G
  BY SumOverParts
<1>2. ASSUME NEW S \in SUBSET D, NEW y \in D, S \in G, y \notin S PROVE S \cup {y} \in G
  <2>1. /\ SumOver(f, S \cup {y}) = SumOver(f, S) + f[y] /\ SumOver(h, S \cup {y}) = SumOver(h, S) + h[y]
        /\ SumOver(f, S) \in Int /\ SumOver(h, S) \in Int
    BY <1>2, SumOverParts
  <2>2. f[y] \in Int /\ h[y] \in Int /\ f[y] <= h[y] /\ SumOver(f, S) <= SumOver(h, S)
    BY <1>2
  <2>3. SumOver(f, S \cup {y}) <= SumOver(h, S \cup {y})
    BY <2>1, <2>2
  <2> QED BY <2>3
<1> HIDE DEF G
<1>3. D \in G
  BY <1>1, <1>2, FiniteInduction
<1> QED BY <1>3, SumOverParts DEF G

\* Counting a set by its parts: the elements that key maps to x, for each x of D.
LEMMA SumCounts ==
    ASSUME NEW D, IsFiniteSet(D), NEW A, IsFiniteSet(A), NEW key \in [A -> D]
    PROVE  SumFunction([x \in D |-> Cardinality({a \in A : key[a] = x})]) = Cardinality(A)
<1> DEFINE P(S) == {a \in A : key[a] \in S}
           f == [x \in D |-> Cardinality({a \in A : key[a] = x})]
           G == {S \in SUBSET D : SumOver(f, S) = Cardinality(P(S))}
<1>1. \A x \in D : IsFiniteSet({a \in A : key[a] = x}) /\ f[x] = Cardinality({a \in A : key[a] = x}) /\ f[x] \in Nat
  BY FS_Subset, FS_CardinalityType
<1>2. f \in [D -> Int]
  BY <1>1
<1>3. {} \in G
  <2>1. P({}) = {} /\ Cardinality({}) = 0
    BY FS_EmptySet
  <2> HIDE DEF f
  <2> QED BY <1>2, <2>1, SumOverParts
<1>4. ASSUME NEW S \in SUBSET D, NEW y \in D, S \in G, y \notin S PROVE S \cup {y} \in G
  <2> DEFINE Q == {a \in A : key[a] = y}
  <2>1. IsFiniteSet(P(S)) /\ IsFiniteSet(Q) /\ Cardinality(P(S)) \in Nat /\ Cardinality(Q) \in Nat
    BY FS_Subset, FS_CardinalityType
  <2>2. P(S \cup {y}) = P(S) \cup Q /\ P(S) \cap Q = {}
    BY <1>4
  <2>3. Cardinality(P(S) \cup Q) = Cardinality(P(S)) + Cardinality(Q)
    <3> HIDE DEF P, Q
    <3>1. Cardinality(P(S) \cup Q) = Cardinality(P(S)) + Cardinality(Q) - Cardinality(P(S) \cap Q)
      BY <2>1, FS_Union
    <3> QED BY <2>1, <2>2, <3>1, FS_EmptySet
  <2>4. f[y] = Cardinality(Q) /\ SumOver(f, S) = Cardinality(P(S))
    BY <1>1, <1>4
  <2> HIDE DEF f, P, Q
  <2>5. SumOver(f, S \cup {y}) = SumOver(f, S) + f[y]
    BY <1>2, <1>4, SumOverParts
  <2> QED BY <2>2, <2>3, <2>4, <2>5 DEF G
<1>5. D \in G
  <2> HIDE DEF G
  <2> QED BY <1>3, <1>4, FiniteInduction
<1>6. P(D) = A
  OBVIOUS
<1> HIDE DEF P, f
<1>7. SumOver(f, D) = SumFunction(f)
  BY <1>2, SumOverParts
<1> QED BY <1>5, <1>6, <1>7 DEF f

\* Parts of T that have nothing in common are together no larger than T.
LEMMA SumOfParts ==
    ASSUME NEW D, IsFiniteSet(D), NEW T, IsFiniteSet(T), NEW part \in [D -> SUBSET T], NEW f \in [D -> Int],
           \A x, y \in D : x # y => part[x] \cap part[y] = {},
           \A x \in D : f[x] <= Cardinality(part[x])
    PROVE  SumFunction(f) <= Cardinality(T)
<1> DEFINE P(S) == UNION {part[x] : x \in S}
           G == {S \in SUBSET D : SumOver(f, S) <= Cardinality(P(S))}
<1>1. \A S \in SUBSET D : P(S) \subseteq T /\ IsFiniteSet(P(S)) /\ Cardinality(P(S)) \in Nat
  <2>1. \A S \in SUBSET D : P(S) \subseteq T
    OBVIOUS
  <2> HIDE DEF P
  <2> QED BY <2>1, FS_Subset, FS_CardinalityType
<1>2. {} \in G
  <2>1. P({}) = {} /\ Cardinality({}) = 0
    BY FS_EmptySet
  <2> QED BY <2>1, SumOverParts
<1>3. ASSUME NEW S \in SUBSET D, NEW y \in D, S \in G, y \notin S PROVE S \cup {y} \in G
  <2> DEFINE Q == part[y]
  <2>1. IsFiniteSet(Q) /\ Cardinality(Q) \in Nat
    BY FS_Subset, FS_CardinalityType
  <2>2. P(S \cup {y}) = P(S) \cup Q /\ P(S) \cap Q = {}
    BY <1>3
  <2>3. f[y] <= Cardinality(Q) /\ f[y] \in Int /\ SumOver(f, S) <= Cardinality(P(S))
    BY <1>3
  <2> HIDE DEF P, Q
  <2>4. Cardinality(P(S) \cup Q) = Cardinality(P(S)) + Cardinality(Q)
    <3>1. Cardinality(P(S) \cup Q) = Cardinality(P(S)) + Cardinality(Q) - Cardinality(P(S) \cap Q)
      BY <1>1, <2>1, FS_Union
    <3>2. Cardinality(P(S) \cap Q) = 0
      BY <2>2, FS_EmptySet
    <3> QED BY <1>1, <2>1, <3>1, <3>2
  <2>5. SumOver(f, S \cup {y}) = SumOver(f, S) + f[y] /\ SumOver(f, S) \in Int
    BY <1>3, SumOverParts
  <2>6. SumOver(f, S \cup {y}) <= Cardinality(P(S \cup {y}))
    BY <1>1, <2>1, <2>2, <2>3, <2>4, <2>5
  <2> QED BY <2>6
<1>4. D \in G
  <2> HIDE DEF G
  <2> QED BY <1>2, <1>3, FiniteInduction
<1> HIDE DEF P
<1>5. SumOver(f, D) = SumFunction(f) /\ SumFunction(f) \in Int
  BY SumOverParts
<1>6. Cardinality(P(D)) <= Cardinality(T) /\ Cardinality(P(D)) \in Nat /\ Cardinality(T) \in Nat
  BY <1>1, FS_Subset, FS_CardinalityType
<1> QED BY <1>4, <1>5, <1>6

\* What is charged to different elements of D adds up to no more than their sum.
LEMMA SumCharged ==
    ASSUME NEW D, IsFiniteSet(D), NEW h \in [D -> Nat], NEW A, IsFiniteSet(A), NEW f \in [A -> Int],
           NEW key \in [A -> D], \A a, b \in A : key[a] = key[b] => a = b,
           \A a \in A : f[a] <= h[key[a]]
    PROVE  SumFunction(f) <= SumFunction(h)
<1> DEFINE K(S) == {key[a] : a \in S}
           G == {S \in SUBSET A : SumOver(f, S) <= SumOver(h, K(S))}
<1>1. h \in [D -> Int]
  OBVIOUS
<1>2. {} \in G
  <2>1. K({}) = {}
    OBVIOUS
  <2> HIDE DEF K
  <2>2. SumOver(f, {}) = 0 /\ SumOver(h, K({})) = 0
    BY <1>1, <2>1, SumOverParts
  <2> QED BY <2>2
<1>3. ASSUME NEW S \in SUBSET A, NEW y \in A, S \in G, y \notin S PROVE S \cup {y} \in G
  <2>1. K(S) \in SUBSET D /\ key[y] \in D /\ key[y] \notin K(S) /\ K(S \cup {y}) = K(S) \cup {key[y]}
    BY <1>3
  <2>2. SumOver(f, S) <= SumOver(h, K(S)) /\ f[y] <= h[key[y]] /\ f[y] \in Int /\ h[key[y]] \in Int
    BY <1>3
  <2> HIDE DEF K
  <2>3. /\ SumOver(f, S \cup {y}) = SumOver(f, S) + f[y] /\ SumOver(f, S) \in Int
        /\ SumOver(h, K(S) \cup {key[y]}) = SumOver(h, K(S)) + h[key[y]] /\ SumOver(h, K(S)) \in Int
    BY <1>1, <1>3, <2>1, SumOverParts
  <2>4. SumOver(f, S \cup {y}) <= SumOver(h, K(S \cup {y}))
    BY <2>1, <2>2, <2>3
  <2> QED BY <2>4
<1>4. A \in G
  <2> HIDE DEF G
  <2> QED BY <1>2, <1>3, FiniteInduction
<1> DEFINE H == {S \in SUBSET D : SumOver(h, K(A)) <= SumOver(h, K(A) \cup S)}
<1>5. K(A) \in SUBSET D
  OBVIOUS
<1> HIDE DEF K
<1>6. {} \in H
  <2>1. K(A) \cup {} = K(A)
    OBVIOUS
  <2> QED BY <1>1, <1>5, <2>1, SumOverParts
<1>7. ASSUME NEW S \in SUBSET D, NEW y \in D, S \in H, y \notin S PROVE S \cup {y} \in H
  <2> DEFINE k == K(A)
  <2>1. SumOver(h, k) <= SumOver(h, k \cup S) /\ k \cup S \in SUBSET D /\ k \in SUBSET D
    BY <1>5, <1>7
  <2>2. SumOver(h, k) \in Int /\ SumOver(h, k \cup S) \in Int
    BY <1>1, <2>1, SumOverParts
  <2>3. CASE y \in k
    <3>1. k \cup (S \cup {y}) = k \cup S
      BY <2>3
    <3> QED BY <2>1, <3>1
  <2>4. CASE y \notin k
    <3>1. y \notin k \cup S /\ k \cup (S \cup {y}) = (k \cup S) \cup {y} /\ h[y] \in Nat
      BY <1>7, <2>4
    <3>2. SumOver(h, (k \cup S) \cup {y}) = SumOver(h, k \cup S) + h[y]
      BY <1>1, <2>1, <3>1, SumOverParts
    <3>3. SumOver(h, k) <= SumOver(h, k \cup (S \cup {y}))
      BY <2>1, <2>2, <3>1, <3>2
    <3> QED BY <3>3
  <2> QED BY <2>3, <2>4
<1>8. D \in H
  <2> HIDE DEF H
  <2> QED BY <1>6, <1>7, FiniteInduction
<1>9. K(A) \cup D = D
  BY <1>5
<1>10. SumOver(h, D) = SumFunction(h) /\ SumOver(f, A) = SumFunction(f) /\ SumOver(h, K(A)) \in Int
       /\ SumFunction(h) \in Int /\ SumFunction(f) \in Int
  BY <1>1, <1>5, SumOverParts
<1>11. SumOver(f, A) <= SumOver(h, K(A))
  BY <1>4
<1>12. SumOver(h, K(A)) <= SumOver(h, D)
  BY <1>8, <1>9
<1> QED BY <1>10, <1>11, <1>12
=============================================================================
