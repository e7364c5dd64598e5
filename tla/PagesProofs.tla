----------------------------- MODULE PagesProofs -----------------------------
(* What Pages serves, proved for every value of the constants: the wizard,   *)
(* rules and charts that are suggested, the cache of attribute keys,         *)
(* visitors, charts, turns of the AI and source maps, each by an invariant   *)
(* of its own part, and then of the server as a whole, in whose behaviours   *)
(* a single part is at work.                                                 *)
EXTENDS Pages, Sequences, FiniteSets, FiniteSetTheorems, SequenceTheorems,
        WellFoundedInduction, TLAPS

-----------------------------------------------------------------------------
(* Numbers and finite sets.                                                 *)

\* A bounded set of numbers has a greatest.
LEMMA MaxExists ==
  ASSUME NEW n \in Nat, NEW T \in SUBSET (0..n), T # {}
  PROVE  \E i \in T : \A j \in T : j <= i
<1> DEFINE D == {n - i : i \in T}
           R == OpToRel(<, Nat)
<1>1. D \subseteq Nat /\ D # {}
  <2>1. PICK i \in T : TRUE
    OBVIOUS
  <2>2. n - i \in D
    BY <2>1
  <2>3. \A j \in 0..n : n - j \in Nat
    OBVIOUS
  <2> QED
    BY <2>2, <2>3
<1>2. IsWellFoundedOn(R, Nat)
  BY NatLessThanWellFounded
<1>3. \A a, b \in Nat : a < b => <<a, b>> \in R
  BY DEF OpToRel
<1> HIDE DEF R, D
<1>4. PICK d \in D : \A e \in D : ~ (<<e, d>> \in R)
  BY <1>1, <1>2, WFMin
<1>5. \A e \in D : d <= e
  <2> SUFFICES ASSUME NEW e \in D PROVE d <= e
    OBVIOUS
  <2>1. e \in Nat /\ d \in Nat
    BY <1>1
  <2>2. ~ e < d
    BY <1>3, <1>4, <2>1
  <2> QED
    BY <2>1, <2>2
<1>6. PICK i \in T : d = n - i
  BY DEF D
<1>7. \A j \in T : n - i <= n - j
  BY <1>5, <1>6 DEF D
<1> QED
  BY <1>7

\* So has a finite one: the number that is ahead of most.
LEMMA FiniteMax ==
  ASSUME NEW S \in SUBSET Nat, IsFiniteSet(S), S # {}
  PROVE  \E i \in S : \A j \in S : j <= i
<1> DEFINE Under(x) == {y \in S : y < x}
           rank == [x \in S |-> Cardinality(Under(x))]
           R == {rank[x] : x \in S}
<1>1. Cardinality(S) \in Nat
  BY FS_CardinalityType
<1>2. \A x \in S : /\ IsFiniteSet(Under(x)) /\ Cardinality(Under(x)) \in Nat
                   /\ Cardinality(Under(x)) <= Cardinality(S)
  BY FS_Subset, FS_CardinalityType
<1>3. R \in SUBSET (0 .. Cardinality(S)) /\ R # {}
  <2>1. \A x \in S : rank[x] \in 0 .. Cardinality(S)
    BY <1>1, <1>2
  <2>2. PICK x \in S : TRUE
    OBVIOUS
  <2>3. rank[x] \in R
    BY <2>2
  <2> HIDE DEF rank
  <2> QED
    BY <2>1, <2>3
<1>4. PICK m \in R : \A e \in R : e <= m
  <2> HIDE DEF R
  <2> QED
    BY <1>1, <1>3, MaxExists
<1>5. PICK i \in S : m = rank[i]
  OBVIOUS
<1>6. ASSUME NEW j \in S, ~ j <= i PROVE FALSE
  <2>0. i \in Nat /\ j \in Nat /\ i < j
    BY <1>6
  <2>1. Under(i) \in SUBSET Under(j) /\ i \in Under(j) /\ i \notin Under(i)
    <3>1. \A y \in S : y \in Nat /\ (y < i => y < j)
      BY <2>0
    <3>2. i \in S /\ i < j /\ ~ i < i
      BY <2>0
    <3> HIDE DEF rank, R
    <3>3. i \in Under(j) /\ i \notin Under(i)
      BY <3>2
    <3>4. \A y \in Under(i) : y \in Under(j)
      BY <3>1
    <3> QED
      BY <3>3, <3>4
  <2>2. /\ Cardinality(Under(i)) <= Cardinality(Under(j))
        /\ Cardinality(Under(j)) = Cardinality(Under(i)) => Under(j) = Under(i)
    BY <1>2, <2>1, FS_Subset
  <2>3. Cardinality(Under(j)) <= Cardinality(Under(i))
    BY <1>4, <1>5
  <2>4. Cardinality(Under(i)) \in Nat /\ Cardinality(Under(j)) \in Nat
    BY <1>2
  <2> HIDE DEF Under, rank, R
  <2> QED
    BY <2>1, <2>2, <2>3, <2>4
<1> QED
  BY <1>6

\* What a function makes of a finite set is finite.
LEMMA ImageIsFinite ==
  ASSUME NEW S, IsFiniteSet(S), NEW T, NEW f \in [S -> T], \A y \in T : \E x \in S : f[x] = y
  PROVE  IsFiniteSet(T)
<1>1. f \in Surjection(S, T)
  BY DEF Surjection
<1> QED
  BY <1>1, FS_Surjection

\* What has no element in common counts separately.
LEMMA PartsAddUp ==
  ASSUME NEW S, NEW T, IsFiniteSet(S), IsFiniteSet(T), S \cap T = {}
  PROVE  Cardinality(S \cup T) = Cardinality(S) + Cardinality(T)
<1>1. Cardinality(S \cup T) = Cardinality(S) + Cardinality(T) - Cardinality(S \cap T)
  BY FS_Union
<1>2. Cardinality(S) \in Nat /\ Cardinality(T) \in Nat /\ Cardinality(S \cap T) = 0
  BY FS_CardinalityType, FS_EmptySet
<1> QED
  BY <1>1, <1>2

-----------------------------------------------------------------------------
(* Folds.                                                                  *)

\* Numbers that hold zero and each next one are all numbers.
LEMMA NumbersAreReached ==
  ASSUME NEW G \in SUBSET Nat, 0 \in G, \A n \in G : n + 1 \in G
  PROVE  G = Nat
<1> DEFINE R == OpToRel(<, Nat)
<1> SUFFICES ASSUME Nat \ G # {} PROVE FALSE
  OBVIOUS
<1>1. IsWellFoundedOn(R, Nat)
  BY NatLessThanWellFounded
<1>2. \A a, b \in Nat : a < b => <<a, b>> \in R
  BY DEF OpToRel
<1> HIDE DEF R
<1>3. PICK n \in Nat \ G : \A m \in Nat \ G : ~ (<<m, n>> \in R)
  BY <1>1, WFMin
<1>4. n # 0
  OBVIOUS
<1>5. n - 1 \in Nat /\ n - 1 < n
  BY <1>4
<1>6. n - 1 \in G
  BY <1>2, <1>3, <1>5
<1>7. (n - 1) + 1 \in G
  BY <1>6
<1> QED
  BY <1>3, <1>7

\* A family of subsets that holds a set with those that lack one element of it
\* holds all.
LEMMA SubsetsAreReached ==
  ASSUME NEW S, IsFiniteSet(S), NEW Q,
         \A T \in SUBSET S : (\A x \in T : T \ {x} \in Q) => T \in Q
  PROVE  \A T \in SUBSET S : T \in Q
<1> DEFINE G == {n \in Nat : \A T \in SUBSET S : Cardinality(T) = n => T \in Q}
<1>1. \A T \in SUBSET S : IsFiniteSet(T) /\ Cardinality(T) \in Nat
  BY FS_Subset, FS_CardinalityType
<1>2. 0 \in G
  <2> SUFFICES ASSUME NEW T \in SUBSET S, Cardinality(T) = 0 PROVE T \in Q
    OBVIOUS
  <2>1. T = {}
    BY <1>1, FS_EmptySet
  <2> QED
    BY <2>1
<1>3. ASSUME NEW n \in G PROVE n + 1 \in G
  <2> SUFFICES ASSUME NEW T \in SUBSET S, Cardinality(T) = n + 1 PROVE T \in Q
    OBVIOUS
  <2>1. ASSUME NEW x \in T PROVE T \ {x} \in Q
    <3>1. Cardinality(T \ {x}) = n
      BY <1>1, FS_RemoveElement
    <3> QED
      BY <3>1
  <2> QED
    BY <2>1
<1> HIDE DEF G
<1>4. G = Nat
  <2>1. G \in SUBSET Nat
    BY DEF G
  <2> QED
    BY <1>2, <1>3, <2>1, NumbersAreReached
<1> QED
  BY <1>1, <1>4 DEF G

\* A fold over a set: it starts from base and takes the elements in turn.
CanFold(S, X, c, g) ==
    /\ \A T \in SUBSET S : T # {} => c[T] \in T
    /\ \A x \in S, v \in X : g[x][v] \in X
IsFold(F, S, X, base, c, g) ==
    /\ F \in [SUBSET S -> X]
    /\ \A T \in SUBSET S : F[T] = IF T = {} THEN base ELSE g[c[T]][F[T \ {c[T]}]]

\* It exists, in whatever order it takes the elements.
LEMMA FoldExists ==
  ASSUME NEW S, IsFiniteSet(S), NEW X, NEW base \in X, NEW c, NEW g, CanFold(S, X, c, g)
  PROVE  \E F : IsFold(F, S, X, base, c, g)
<1> DEFINE Small(n) == {T \in SUBSET S : Cardinality(T) <= n}
           Step(F, T) == IF T = {} THEN base ELSE g[c[T]][F[T \ {c[T]}]]
           Folds(F, n) == F \in [Small(n) -> X] /\ \A T \in Small(n) : F[T] = Step(F, T)
           G == {n \in Nat : \E F : Folds(F, n)}
<1>0. /\ \A T \in SUBSET S : T # {} => c[T] \in T
      /\ \A x \in S, v \in X : g[x][v] \in X
  BY DEF CanFold
<1>1. \A T \in SUBSET S : IsFiniteSet(T) /\ Cardinality(T) \in Nat
  BY FS_Subset, FS_CardinalityType
<1>2. 0 \in G
  <2> DEFINE F == [T \in Small(0) |-> base]
  <2>1. \A T \in Small(0) : T = {}
    BY <1>1, FS_EmptySet
  <2>2. F \in [Small(0) -> X] /\ \A T \in Small(0) : F[T] = base
    OBVIOUS
  <2> HIDE DEF F
  <2>3. Folds(F, 0)
    BY <2>1, <2>2
  <2> QED
    BY <2>3
<1>3. ASSUME NEW n \in G PROVE n + 1 \in G
  <2>1. PICK F : Folds(F, n)
    OBVIOUS
  <2> DEFINE E == [T \in Small(n + 1) |-> IF T \in Small(n) THEN F[T] ELSE Step(F, T)]
  <2>2. \A T \in Small(n + 1) : T # {} => c[T] \in T /\ c[T] \in S /\ T \ {c[T]} \in Small(n)
    <3> SUFFICES ASSUME NEW T \in Small(n + 1), T # {} PROVE c[T] \in T /\ c[T] \in S /\ T \ {c[T]} \in Small(n)
      OBVIOUS
    <3>1. c[T] \in T /\ T \in SUBSET S
      BY <1>0
    <3>2. Cardinality(T \ {c[T]}) = Cardinality(T) - 1
      BY <1>1, <3>1, FS_RemoveElement
    <3>3. Cardinality(T) <= n + 1 /\ Cardinality(T) \in Nat /\ n \in Nat
      BY <1>1
    <3> QED
      BY <3>1, <3>2, <3>3
  <2>3. \A T \in Small(n + 1) : Step(F, T) \in X
    <3> SUFFICES ASSUME NEW T \in Small(n + 1), T # {} PROVE Step(F, T) \in X
      OBVIOUS
    <3>1. c[T] \in S /\ F[T \ {c[T]}] \in X
      BY <2>1, <2>2
    <3> QED
      BY <1>0, <3>1
  <2>4. E \in [Small(n + 1) -> X]
    BY <2>1, <2>3
  <2>5. \A T \in Small(n) : T \in Small(n + 1) /\ E[T] = F[T]
    BY <1>1
  <2>6. \A T \in Small(n + 1) : E[T] = Step(F, T)
    BY <2>1, <2>4
  <2> HIDE DEF E
  <2>7. \A T \in Small(n + 1) : Step(E, T) = Step(F, T)
    <3> SUFFICES ASSUME NEW T \in Small(n + 1), T # {} PROVE Step(E, T) = Step(F, T)
      OBVIOUS
    <3>1. E[T \ {c[T]}] = F[T \ {c[T]}]
      BY <2>2, <2>5
    <3> QED
      BY <3>1
  <2>8. Folds(E, n + 1)
    BY <2>4, <2>6, <2>7
  <2>9. n + 1 \in Nat
    OBVIOUS
  <2> HIDE DEF Folds
  <2> QED
    BY <2>8, <2>9
<1> HIDE DEF G
<1>4. G = Nat
  <2>1. G \in SUBSET Nat
    BY DEF G
  <2> QED
    BY <1>2, <1>3, <2>1, NumbersAreReached
<1>5. PICK F : Folds(F, Cardinality(S))
  BY <1>1, <1>4 DEF G
<1>6. Small(Cardinality(S)) = SUBSET S
  BY <1>1, FS_Subset
<1>7. F \in [SUBSET S -> X] /\ \A T \in SUBSET S : F[T] = Step(F, T)
  BY <1>5, <1>6
<1> QED
  BY <1>7 DEF IsFold

\* A fold over the first numbers goes through them in order.
LEMMA FoldGoesInOrder ==
  ASSUME NEW n \in Nat, NEW X, NEW base, NEW c, NEW g, NEW F, IsFold(F, 1 .. n, X, base, c, g),
         \A T \in SUBSET (1 .. n) : T # {} => c[T] \in T /\ \A j \in T : j <= c[T],
         NEW A, A[0] = base, \A k \in 1 .. n : A[k] = g[k][A[k - 1]]
  PROVE  \A k \in 0 .. n : F[1 .. k] = A[k]
<1> DEFINE G == {k \in Nat : k <= n => F[1 .. k] = A[k]}
<1>1. \A T \in SUBSET (1 .. n) : F[T] = IF T = {} THEN base ELSE g[c[T]][F[T \ {c[T]}]]
  BY DEF IsFold
<1>2. 0 \in G
  <2>1. 1 .. 0 = {} /\ {} \in SUBSET (1 .. n)
    OBVIOUS
  <2>2. F[{}] = base
    BY <1>1, <2>1
  <2> QED
    BY <2>1, <2>2
<1>3. ASSUME NEW k \in G PROVE k + 1 \in G
  <2> SUFFICES ASSUME k + 1 <= n PROVE F[1 .. (k + 1)] = A[k + 1]
    OBVIOUS
  <2> DEFINE T == 1 .. (k + 1)
  <2>1. T \in SUBSET (1 .. n) /\ k + 1 \in T /\ \A j \in T : j \in Nat /\ j <= k + 1
    OBVIOUS
  <2>2. c[T] \in T /\ k + 1 <= c[T]
    BY <2>1
  <2>3. c[T] = k + 1
    BY <2>1, <2>2
  <2>4. T \ {k + 1} = 1 .. k
    OBVIOUS
  <2>5. F[T] = g[k + 1][F[1 .. k]]
    <3> HIDE DEF T
    <3> QED
      BY <1>1, <2>1, <2>3, <2>4
  <2>6. F[1 .. k] = A[k] /\ k + 1 \in 1 .. n /\ (k + 1) - 1 = k
    OBVIOUS
  <2>7. A[k + 1] = g[k + 1][A[k]]
    BY <2>6
  <2> QED
    BY <2>5, <2>6, <2>7
<1> HIDE DEF G
<1>4. G = Nat
  <2>1. G \in SUBSET Nat
    BY DEF G
  <2> QED
    BY <1>2, <1>3, <2>1, NumbersAreReached
<1> QED
  BY <1>4 DEF G

-----------------------------------------------------------------------------
(* Sums.                                                                   *)

Total(f) ==
    LET Sum[T \in SUBSET DOMAIN f] ==
            IF T = {} THEN 0 ELSE f[CHOOSE x \in T : TRUE] + Sum[T \ {CHOOSE x \in T : TRUE}]
    IN Sum[DOMAIN f]
IsSum(G, S, f) ==
    /\ G \in [SUBSET S -> Int]
    /\ \A T \in SUBSET S : G[T] = IF T = {} THEN 0
                                  ELSE f[CHOOSE x \in T : TRUE] + G[T \ {CHOOSE x \in T : TRUE}]

LEMMA TotalIsSum ==
  ASSUME NEW S, IsFiniteSet(S), NEW f \in [S -> Int]
  PROVE  \E G : IsSum(G, S, f) /\ Total(f) = G[S]
<1> DEFINE c == [T \in (SUBSET S) \ {{}} |-> CHOOSE x \in T : TRUE]
           g == [x \in S |-> [v \in Int |-> f[x] + v]]
           Step(G, T) == IF T = {} THEN 0
                         ELSE f[CHOOSE x \in T : TRUE] + G[T \ {CHOOSE x \in T : TRUE}]
           H == CHOOSE G : G = [T \in SUBSET S |-> Step(G, T)]
<1>1. Total(f) = H[S]
  BY DEF Total
<1>2. \A T \in SUBSET S : T # {} => c[T] = (CHOOSE x \in T : TRUE) /\ c[T] \in T
  <2> SUFFICES ASSUME NEW T \in SUBSET S, T # {} PROVE c[T] = (CHOOSE x \in T : TRUE) /\ c[T] \in T
    OBVIOUS
  <2>1. (CHOOSE x \in T : TRUE) \in T
    OBVIOUS
  <2> QED
    BY <2>1
<1>3. \A x \in S, v \in Int : g[x][v] = f[x] + v /\ g[x][v] \in Int
  OBVIOUS
<1> HIDE DEF c, g
<1>4. PICK F : IsFold(F, S, Int, 0, c, g)
  <2>1. CanFold(S, Int, c, g)
    BY <1>2, <1>3 DEF CanFold
  <2>2. 0 \in Int
    OBVIOUS
  <2> QED
    BY <2>1, <2>2, FoldExists
<1>5. \A T \in SUBSET S : F[T] = Step(F, T)
  <2> SUFFICES ASSUME NEW T \in SUBSET S PROVE F[T] = Step(F, T)
    OBVIOUS
  <2>1. F[T] = IF T = {} THEN 0 ELSE g[c[T]][F[T \ {c[T]}]]
    BY <1>4 DEF IsFold
  <2>2. CASE T = {}
    BY <2>1, <2>2
  <2>3. CASE T # {}
    <3>1. c[T] \in S /\ T \ {c[T]} \in SUBSET S /\ c[T] = CHOOSE x \in T : TRUE
      BY <1>2, <2>3
    <3>2. F[T \ {c[T]}] \in Int
      BY <1>4, <3>1 DEF IsFold
    <3>3. F[T] = f[c[T]] + F[T \ {c[T]}]
      BY <1>3, <2>1, <2>3, <3>1, <3>2
    <3> QED
      BY <2>3, <3>1, <3>3
  <2> QED
    BY <2>2, <2>3
<1>6. F \in [SUBSET S -> Int]
  BY <1>4 DEF IsFold
<1>7. F = [T \in SUBSET S |-> Step(F, T)]
  <2> HIDE DEF Step
  <2> QED
    BY <1>5, <1>6
<1> HIDE DEF Step
<1>8. H = [T \in SUBSET S |-> Step(H, T)]
  BY <1>7
<1> HIDE DEF H
<1> DEFINE Q == {T \in SUBSET S : H[T] = F[T]}
<1>9. ASSUME NEW T \in SUBSET S, \A x \in T : T \ {x} \in Q PROVE T \in Q
  <2>1. H[T] = Step(H, T) /\ F[T] = Step(F, T)
    BY <1>5, <1>8
  <2>2. Step(H, T) = Step(F, T)
    <3>1. CASE T = {}
      BY <3>1 DEF Step
    <3>2. CASE T # {}
      <4>1. (CHOOSE x \in T : TRUE) \in T
        BY <3>2
      <4>2. H[T \ {CHOOSE x \in T : TRUE}] = F[T \ {CHOOSE x \in T : TRUE}]
        BY <1>9, <4>1
      <4> QED
        BY <4>2 DEF Step
    <3> QED
      BY <3>1, <3>2
  <2> QED
    BY <2>1, <2>2
<1>10. H[S] = F[S]
  <2>1. \A T \in SUBSET S : (\A x \in T : T \ {x} \in Q) => T \in Q
    BY <1>9
  <2> HIDE DEF Q
  <2>2. \A T \in SUBSET S : T \in Q
    BY <2>1, SubsetsAreReached
  <2>3. S \in Q
    BY <2>2
  <2> QED
    BY <2>3 DEF Q
<1>11. IsSum(F, S, f)
  BY <1>5, <1>6 DEF IsSum, Step
<1> QED
  BY <1>1, <1>10, <1>11

\* Two sums of the same numbers are the same.
LEMMA SumsAgree ==
  ASSUME NEW S, NEW R \in SUBSET S, IsFiniteSet(R), NEW f, NEW h, NEW F, NEW G,
         IsSum(F, S, f), IsSum(G, R, h), \A x \in R : f[x] = h[x]
  PROVE  F[R] = G[R]
<1> DEFINE Q == {T \in SUBSET R : F[T] = G[T]}
<1>1. ASSUME NEW T \in SUBSET R, \A x \in T : T \ {x} \in Q PROVE T \in Q
  <2>1. /\ F[T] = IF T = {} THEN 0 ELSE f[CHOOSE x \in T : TRUE] + F[T \ {CHOOSE x \in T : TRUE}]
        /\ G[T] = IF T = {} THEN 0 ELSE h[CHOOSE x \in T : TRUE] + G[T \ {CHOOSE x \in T : TRUE}]
    <3>1. T \in SUBSET S
      OBVIOUS
    <3> QED
      BY <3>1 DEF IsSum
  <2>2. CASE T = {}
    BY <2>1, <2>2
  <2>3. CASE T # {}
    <3>1. (CHOOSE x \in T : TRUE) \in T
      BY <2>3
    <3>2. F[T \ {CHOOSE x \in T : TRUE}] = G[T \ {CHOOSE x \in T : TRUE}]
      BY <1>1, <3>1
    <3> QED
      BY <2>1, <2>3, <3>1, <3>2
  <2> QED
    BY <2>2, <2>3
<1>2. \A T \in SUBSET R : (\A x \in T : T \ {x} \in Q) => T \in Q
  BY <1>1
<1> HIDE DEF Q
<1>3. \A T \in SUBSET R : T \in Q
  BY <1>2, SubsetsAreReached
<1>4. R \in Q
  BY <1>3
<1> QED
  BY <1>4 DEF Q

\* A sum may begin with any of its numbers.
LEMMA SumInAnyOrder ==
  ASSUME NEW S, IsFiniteSet(S), NEW f \in [S -> Int], NEW F, IsSum(F, S, f)
  PROVE  \A T \in SUBSET S : \A x \in T : F[T] = f[x] + F[T \ {x}]
<1> DEFINE Q == {T \in SUBSET S : \A x \in T : F[T] = f[x] + F[T \ {x}]}
<1>1. ASSUME NEW T \in SUBSET S, \A x \in T : T \ {x} \in Q, NEW x \in T
      PROVE  F[T] = f[x] + F[T \ {x}]
  <2> DEFINE y == CHOOSE z \in T : TRUE
  <2>1. y \in T /\ F[T] = f[y] + F[T \ {y}]
    BY DEF IsSum
  <2> HIDE DEF y
  <2>2. CASE x = y
    BY <2>1, <2>2
  <2>3. CASE x # y
    <3>1. x \in T \ {y} /\ y \in T \ {x} /\ T \ {y} \in Q /\ T \ {x} \in Q
      BY <1>1, <2>1, <2>3
    <3>2. F[T \ {y}] = f[x] + F[(T \ {y}) \ {x}] /\ F[T \ {x}] = f[y] + F[(T \ {x}) \ {y}]
      BY <3>1
    <3>3. (T \ {y}) \ {x} = (T \ {x}) \ {y}
      OBVIOUS
    <3>4. f[x] \in Int /\ f[y] \in Int /\ F[(T \ {x}) \ {y}] \in Int
      <4>1. (T \ {x}) \ {y} \in SUBSET S /\ x \in S /\ y \in S
        BY <2>1
      <4> QED
        BY <4>1 DEF IsSum
    <3>5. F[(T \ {y}) \ {x}] = F[(T \ {x}) \ {y}]
      BY <3>3, Zenon
    <3> DEFINE a == F[T]
               b == F[T \ {y}]
               d == F[T \ {x}]
               e == F[(T \ {x}) \ {y}]
               m == f[x]
               k == f[y]
    <3>6. a = k + b /\ b = m + e /\ d = k + e /\ m \in Int /\ k \in Int /\ e \in Int
      BY <2>1, <3>2, <3>4, <3>5
    <3>7. a = m + d
      <4> HIDE DEF a, b, d, e, m, k
      <4> QED
        BY <3>6
    <3> QED
      BY <3>7
  <2> QED
    BY <2>2, <2>3
<1>2. \A T \in SUBSET S : (\A x \in T : T \ {x} \in Q) => T \in Q
  BY <1>1
<1> HIDE DEF Q
<1>3. \A T \in SUBSET S : T \in Q
  BY <1>2, SubsetsAreReached
<1> QED
  BY <1>3 DEF Q

LEMMA TotalOfNone ==
  ASSUME NEW f \in [{} -> Int]
  PROVE  Total(f) = 0
<1>1. PICK G : IsSum(G, {}, f) /\ Total(f) = G[{}]
  BY FS_EmptySet, TotalIsSum
<1> QED
  BY <1>1 DEF IsSum

LEMMA TotalIsInt ==
  ASSUME NEW S, IsFiniteSet(S), NEW f \in [S -> Int]
  PROVE  Total(f) \in Int
<1>1. PICK G : IsSum(G, S, f) /\ Total(f) = G[S]
  BY TotalIsSum
<1> QED
  BY <1>1 DEF IsSum

LEMMA TotalAdds ==
  ASSUME NEW S, IsFiniteSet(S), NEW f \in [S -> Int], NEW x \in S,
         NEW h, h = [y \in S \ {x} |-> f[y]]
  PROVE  Total(f) = f[x] + Total(h)
<1>1. PICK F : IsSum(F, S, f) /\ Total(f) = F[S]
  BY TotalIsSum
<1>2. IsFiniteSet(S \ {x}) /\ h \in [S \ {x} -> Int] /\ S \ {x} \in SUBSET S
  BY FS_Subset
<1>3. PICK G : IsSum(G, S \ {x}, h) /\ Total(h) = G[S \ {x}]
  BY <1>2, TotalIsSum
<1>4. \A y \in S \ {x} : f[y] = h[y]
  OBVIOUS
<1>5. F[S \ {x}] = G[S \ {x}]
  BY <1>1, <1>2, <1>3, <1>4, SumsAgree
<1>6. F[S] = f[x] + F[S \ {x}]
  BY <1>1, SumInAnyOrder
<1> QED
  BY <1>1, <1>3, <1>5, <1>6

-----------------------------------------------------------------------------
(* The wizard of repositories.                                             *)

\* What GitHub holds of an issue, what a request holds at each of its steps, and a
\* work item.
Titles == STRING \cup {"ci", "other"}
Issue == [title : Titles, pull : BOOLEAN, open : BOOLEAN, touched : BOOLEAN,
          copilot : BOOLEAN, asOf : Nat, blind : BOOLEAN, byWizard : BOOLEAN]
KindLists == Seq(STRING) \ {<<>>}
Lists == [at : {"list"}, todo : KindLists, assign : BOOLEAN]
Looks == [at : {"create", "detail", "update"}, todo : KindLists, assign : BOOLEAN,
          number : Nat, asOf : Nat, blind : BOOLEAN]
Ends == [at : {"assign", "persist"}, todo : KindLists, assign : BOOLEAN, number : Nat,
         decision : {"created", "updated", "reused"},
         copilot : {"not_requested", "requested", "failed", "blocked"}]
WizardSteps == {Wizard!Idle, Wizard!Done} \cup Lists \cup Looks \cup Ends

WizTypes ==
    /\ issues \in Seq(Issue)
    /\ wizard \in [Wizards -> WizardSteps]
\* An open issue of a title is overlooked by whoever looked for it without finding it.
Asks(i, title) == issues[i].open /\ ~ issues[i].pull /\ issues[i].title = title
IssuesSound ==
    \A n \in 1 .. Len(issues) :
        /\ issues[n].byWizard => \A i \in 1 .. Len(issues) :
               i < n /\ Asks(i, issues[n].title) => Wizard!Overlooked(i, issues[n])
        /\ issues[n].pull => ~ issues[n].copilot
\* What a request has in hand is an issue that is there and no pull request, and its
\* verdict on it is true; before it makes one it has overlooked those that are open.
StepSound(w) ==
    /\ wizard[w].at = "create" =>
           /\ wizard[w].asOf <= Len(issues)
           /\ \A i \in 1 .. Len(issues) :
                  Asks(i, Wizard!Kind(w)) => Wizard!Overlooked(i, wizard[w])
    /\ wizard[w].at \in {"detail", "update", "assign", "persist"} =>
           wizard[w].number \in 1 .. Len(issues) /\ ~ issues[wizard[w].number].pull
    /\ wizard[w].at \in {"assign", "persist"} =>
           /\ wizard[w].decision = "created" => issues[wizard[w].number].byWizard
           /\ wizard[w].decision = "updated" => issues[wizard[w].number].touched
           /\ wizard[w].copilot = "requested" => issues[wizard[w].number].copilot
ItemSound(x) ==
    /\ x.number \in 1 .. Len(issues) /\ ~ issues[x.number].pull
    /\ x.decision \in {"created", "updated"}
    /\ x.decision = "created" => issues[x.number].byWizard
    /\ x.decision = "updated" => issues[x.number].touched
    /\ x.copilot = "requested" => issues[x.number].copilot
\* The request that has made an issue is the only one to say so, and no work item does
\* before it.
Says(w, n) == wizard[w].at \in {"assign", "persist"} /\ wizard[w].decision = "created" /\ wizard[w].number = n
OneSays ==
    /\ \A v, w \in Wizards : \A n \in 1 .. Len(issues) : Says(v, n) /\ Says(w, n) => v = w
    /\ \A w \in Wizards : \A x \in items : x.decision = "created" => ~ Says(w, x.number)
    /\ \A x, y \in items :
           x.number = y.number /\ x.decision = "created" /\ y.decision = "created" => x = y
WizInv ==
    /\ WizTypes /\ IssuesSound /\ OneSays /\ Wizard!InspectionIsTrue
    /\ \A w \in Wizards : StepSound(w)
    /\ \A x \in items : ItemSound(x)

\* Issues are added, and those that are there keep what they are.
Lasts ==
    /\ issues' \in Seq(Issue) /\ Len(issues) <= Len(issues')
    /\ \A n \in 1 .. Len(issues) :
           /\ issues'[n].pull = issues[n].pull /\ issues'[n].byWizard = issues[n].byWizard
           /\ issues'[n].title = issues[n].title /\ (issues'[n].open => issues[n].open)
           /\ issues[n].touched => issues'[n].touched
           /\ issues[n].copilot => issues'[n].copilot
    /\ IssuesSound'

LEMMA IssueIsAdded ==
  ASSUME issues \in Seq(Issue), IssuesSound, NEW e \in Issue, ~e.copilot,
         e.byWizard => \A i \in 1 .. Len(issues) : Asks(i, e.title) => Wizard!Overlooked(i, e),
         issues' = Append(issues, e)
  PROVE  /\ Lasts /\ Len(issues') = Len(issues) + 1 /\ issues'[Len(issues) + 1] = e
<1>1. /\ issues' \in Seq(Issue) /\ Len(issues') = Len(issues) + 1 /\ Len(issues) \in Nat
      /\ \A n \in 1 .. Len(issues) : issues'[n] = issues[n]
      /\ issues'[Len(issues) + 1] = e
  BY AppendProperties, LenProperties
<1>2. IssuesSound'
  BY <1>1 DEF IssuesSound, Asks, Wizard!Overlooked
<1> QED
  BY <1>1, <1>2 DEF Lasts

LEMMA IssueIsWritten ==
  ASSUME issues \in Seq(Issue), IssuesSound, NEW n \in 1 .. Len(issues), NEW e \in Issue,
         e.pull = issues[n].pull, e.byWizard = issues[n].byWizard, e.title = issues[n].title,
         e.asOf = issues[n].asOf, e.blind = issues[n].blind, e.open => issues[n].open,
         issues[n].touched => e.touched, issues[n].copilot => e.copilot, e.pull => ~e.copilot,
         issues' = [issues EXCEPT ![n] = e]
  PROVE  Lasts /\ Len(issues') = Len(issues) /\ issues'[n] = e
<1>1. /\ issues' \in Seq(Issue) /\ Len(issues') = Len(issues) /\ Len(issues) \in Nat
      /\ \A j \in 1 .. Len(issues) : issues'[j] = IF j = n THEN e ELSE issues[j]
  BY ExceptSeq, LenProperties
<1>2. \A j \in 1 .. Len(issues) :
          /\ issues'[j].pull = issues[j].pull /\ issues'[j].byWizard = issues[j].byWizard
          /\ issues'[j].title = issues[j].title /\ issues'[j].asOf = issues[j].asOf
          /\ issues'[j].blind = issues[j].blind /\ (issues'[j].open => issues[j].open)
          /\ (issues[j].touched => issues'[j].touched) /\ (issues[j].copilot => issues'[j].copilot)
          /\ issues'[j].pull => ~issues'[j].copilot
  BY <1>1 DEF IssuesSound
<1>3. IssuesSound'
  BY <1>1, <1>2 DEF IssuesSound, Asks, Wizard!Overlooked
<1> QED
  BY <1>1, <1>2, <1>3 DEF Lasts

LEMMA IssueIsTouched ==
  ASSUME issues \in Seq(Issue), IssuesSound, NEW n \in 1 .. Len(issues),
         \/ issues' = [issues EXCEPT ![n].touched = TRUE]
         \/ issues' = [issues EXCEPT ![n].open = FALSE, ![n].touched = TRUE]
  PROVE  Lasts /\ Len(issues') = Len(issues) /\ issues'[n].touched
<1>1. issues[n] \in Issue
  BY ElementOfSeq
<1>2. CASE issues' = [issues EXCEPT ![n].touched = TRUE]
  <2> DEFINE e == [issues[n] EXCEPT !.touched = TRUE]
  <2>1. issues' = [issues EXCEPT ![n] = e]
    BY <1>2
  <2>2. /\ e \in Issue /\ e.pull = issues[n].pull /\ e.byWizard = issues[n].byWizard
        /\ e.title = issues[n].title /\ e.asOf = issues[n].asOf /\ e.blind = issues[n].blind
        /\ e.touched /\ e.copilot = issues[n].copilot /\ (e.open => issues[n].open)
    BY <1>1 DEF Issue
  <2>3. e.pull => ~e.copilot
    BY <2>2 DEF IssuesSound
  <2> HIDE DEF e
  <2> QED
    BY <2>1, <2>2, <2>3, IssueIsWritten
<1>3. CASE issues' = [issues EXCEPT ![n].open = FALSE, ![n].touched = TRUE]
  <2> DEFINE e == [issues[n] EXCEPT !.open = FALSE, !.touched = TRUE]
  <2>1. issues' = [issues EXCEPT ![n] = e]
    <3>1. n \in DOMAIN issues
      BY LenProperties
    <3> QED
      BY <1>3, <3>1
  <2>2. /\ e \in Issue /\ e.pull = issues[n].pull /\ e.byWizard = issues[n].byWizard
        /\ e.title = issues[n].title /\ e.asOf = issues[n].asOf /\ e.blind = issues[n].blind
        /\ e.touched /\ e.copilot = issues[n].copilot /\ (e.open => issues[n].open)
    BY <1>1 DEF Issue
  <2>3. e.pull => ~e.copilot
    BY <2>2 DEF IssuesSound
  <2> HIDE DEF e
  <2> QED
    BY <2>1, <2>2, <2>3, IssueIsWritten
<1> QED
  BY <1>2, <1>3

LEMMA IssueIsAssigned ==
  ASSUME issues \in Seq(Issue), IssuesSound, NEW n \in 1 .. Len(issues), ~issues[n].pull,
         issues' = [issues EXCEPT ![n].touched = TRUE, ![n].copilot = TRUE]
  PROVE  Lasts /\ Len(issues') = Len(issues) /\ issues'[n].copilot
<1>1. issues[n] \in Issue
  BY ElementOfSeq
<1> DEFINE e == [issues[n] EXCEPT !.touched = TRUE, !.copilot = TRUE]
<1>2. issues' = [issues EXCEPT ![n] = e]
  <2>1. n \in DOMAIN issues
    BY LenProperties
  <2> QED
    BY <2>1
<1>3. /\ e \in Issue /\ e.pull = issues[n].pull /\ e.byWizard = issues[n].byWizard
      /\ e.title = issues[n].title /\ e.asOf = issues[n].asOf /\ e.blind = issues[n].blind
      /\ e.touched /\ e.copilot /\ (e.open => issues[n].open)
  BY <1>1 DEF Issue
<1> HIDE DEF e
<1> QED
  BY <1>2, <1>3, IssueIsWritten

LEMMA HeldSteps ==
  ASSUME WizTypes, NEW w \in Wizards
  PROVE  /\ wizard[w].at = "list" => wizard[w] \in Lists
         /\ wizard[w].at \in {"create", "detail", "update"} => wizard[w] \in Looks
         /\ wizard[w].at \in {"assign", "persist"} => wizard[w] \in Ends
BY DEF WizTypes, WizardSteps, Wizard!Idle, Wizard!Done, Lists, Looks, Ends

LEMMA WizardGoes ==
  ASSUME WizTypes, NEW w \in Wizards, NEW to \in WizardSteps, Wizard!Go(w, to)
  PROVE  /\ wizard' \in [Wizards -> WizardSteps] /\ wizard'[w] = to
         /\ \A v \in Wizards \ {w} : wizard'[v] = wizard[v]
BY DEF WizTypes, Wizard!Go

LEMMA OthersStaySound ==
  ASSUME NEW v \in Wizards, issues \in Seq(Issue), StepSound(v), wizard'[v] = wizard[v], Lasts,
         wizard[v].at = "create" => wizard[v] \in Looks
  PROVE  StepSound(v)'
<1>1. Len(issues) \in Nat /\ Len(issues') \in Nat
  BY LenProperties DEF Lasts
<1>2. wizard[v].at = "create" =>
          /\ wizard'[v].asOf <= Len(issues')
          /\ \A i \in 1 .. Len(issues') :
                 Asks(i, Wizard!Kind(v))' => Wizard!Overlooked(i, wizard'[v])
  <2> SUFFICES ASSUME wizard[v].at = "create"
               PROVE  /\ wizard'[v].asOf <= Len(issues')
                      /\ \A i \in 1 .. Len(issues') :
                             Asks(i, Wizard!Kind(v))' => Wizard!Overlooked(i, wizard'[v])
    OBVIOUS
  <2>1. wizard[v].asOf \in Nat /\ wizard[v].asOf <= Len(issues) /\ Len(issues) <= Len(issues')
    BY DEF StepSound, Lasts, Looks
  <2>2. ASSUME NEW i \in 1 .. Len(issues'), Asks(i, Wizard!Kind(v))'
        PROVE  Wizard!Overlooked(i, wizard'[v])
    <3>1. CASE i > Len(issues)
      BY <1>1, <2>1, <3>1 DEF Wizard!Overlooked
    <3>2. CASE i \in 1 .. Len(issues)
      <4>1. Asks(i, Wizard!Kind(v))
        BY <2>2, <3>2 DEF Asks, Wizard!Kind, Lasts
      <4> QED
        BY <3>2, <4>1 DEF StepSound
    <3> QED
      BY <1>1, <3>1, <3>2
  <2> QED
    BY <1>1, <2>1, <2>2
<1> QED
  BY <1>1, <1>2 DEF StepSound, Lasts

LEMMA ItemStaysSound ==
  ASSUME NEW x, issues \in Seq(Issue), ItemSound(x), Lasts
  PROVE  ItemSound(x)'
<1>1. Len(issues) \in Nat /\ Len(issues') \in Nat
  BY LenProperties DEF Lasts
<1> QED
  BY <1>1 DEF ItemSound, Lasts

LEMMA InspectionStays ==
  ASSUME Wizard!InspectionIsTrue, inspected' \in {inspected, Wizard!Idle}
  PROVE  Wizard!InspectionIsTrue'
<1>1. CASE inspected' = Wizard!Idle
  BY <1>1 DEF Wizard!InspectionIsTrue, Wizard!Idle
<1>2. CASE inspected' = inspected
  BY <1>2 DEF Wizard!InspectionIsTrue, Wizard!Idle
<1> QED
  BY <1>1, <1>2

\* A step of one request keeps the invariant, if what it then has in hand is true and
\* it says "created" of no issue but one it has just made.
LEMMA WizardMoves ==
  ASSUME WizInv, NEW w \in Wizards, NEW to \in WizardSteps, Wizard!Go(w, to), Lasts,
         items' = items, inspected' \in {inspected, Wizard!Idle}, StepSound(w)',
         \A n \in Nat : Says(w, n)' => Says(w, n) \/ n = Len(issues) + 1
  PROVE  WizInv'
<1>1. WizTypes /\ issues \in Seq(Issue) /\ OneSays /\ Len(issues) \in Nat /\ Len(issues') \in Nat
  BY LenProperties DEF WizInv, WizTypes, Lasts
<1>2. /\ wizard' \in [Wizards -> WizardSteps] /\ wizard'[w] = to
      /\ \A v \in Wizards \ {w} : wizard'[v] = wizard[v]
  BY <1>1, WizardGoes
<1>3. WizTypes' /\ IssuesSound' /\ Wizard!InspectionIsTrue'
  BY <1>2, InspectionStays DEF WizTypes, Lasts, WizInv
<1>4. ASSUME NEW v \in Wizards PROVE StepSound(v)'
  <2>1. CASE v = w
    BY <2>1
  <2>2. CASE v # w
    BY <1>1, <1>2, <2>2, HeldSteps, OthersStaySound DEF WizInv
  <2> QED
    BY <2>1, <2>2
<1>5. ASSUME NEW x \in items PROVE ItemSound(x)'
  BY <1>1, ItemStaysSound DEF WizInv
<1>6. \A v \in Wizards : \A n \in Nat :
          /\ Says(v, n)' => Says(v, n) \/ (v = w /\ n = Len(issues) + 1)
          /\ Says(v, n) => n \in 1 .. Len(issues)
  BY <1>2 DEF Says, WizInv, StepSound
<1>7. \A x \in items : x.number \in 1 .. Len(issues)
  BY DEF WizInv, ItemSound
<1>8. OneSays'
  <2>1. \A v, u \in Wizards : \A n \in 1 .. Len(issues') : Says(v, n)' /\ Says(u, n)' => v = u
    BY <1>1, <1>6 DEF OneSays
  <2>2. \A v \in Wizards : \A x \in items : x.decision = "created" => ~ Says(v, x.number)'
    BY <1>1, <1>6, <1>7 DEF OneSays
  <2> QED
    BY <1>1, <2>1, <2>2 DEF OneSays, Says
<1> QED
  BY <1>3, <1>4, <1>5, <1>8 DEF WizInv

LEMMA NothingLasts ==
  ASSUME WizInv, UNCHANGED issues PROVE Lasts
<1>1. issues \in Seq(Issue) /\ Len(issues) \in Nat
  BY LenProperties DEF WizInv, WizTypes
<1>2. IssuesSound'
  BY DEF WizInv, IssuesSound, Asks, Wizard!Overlooked
<1> QED
  BY <1>1, <1>2 DEF Lasts

\* On to the next issue of the form, or to the end.
LEMMA WizardAdvances ==
  ASSUME WizInv, NEW w \in Wizards, wizard[w] \in Looks \cup Ends, Wizard!Advance(w), Lasts,
         UNCHANGED <<items, inspected>>
  PROVE  WizInv'
<1> DEFINE rest == Tail(wizard[w].todo)
           to == IF rest = <<>> THEN Wizard!Done
                 ELSE [at |-> "list", todo |-> rest, assign |-> wizard[w].assign]
<1>1. Wizard!Go(w, to)
  BY DEF Wizard!Advance
<1>2. wizard[w].todo \in Seq(STRING) /\ wizard[w].todo # <<>> /\ wizard[w].assign \in BOOLEAN
  BY DEF Looks, Ends, KindLists
<1>3. rest \in Seq(STRING)
  BY <1>2, HeadTailProperties
<1>4. to \in WizardSteps /\ to.at \in {"done", "list"}
  BY <1>2, <1>3 DEF WizardSteps, Lists, KindLists, Wizard!Done
<1> HIDE DEF to
<1>5. wizard'[w] = to
  BY <1>1, <1>4, WizardGoes DEF WizInv
<1> QED
  BY <1>1, <1>4, <1>5, WizardMoves DEF StepSound, Says

\* What a request tells of its issue.
LEMMA WizardTells ==
  ASSUME WizInv, NEW w \in Wizards, wizard[w] \in Looks,
         NEW number \in 1 .. Len(issues'), NEW decision \in {"created", "updated", "reused"},
         Wizard!Outcome(w, number, decision), Lasts, UNCHANGED <<items, inspected>>,
         ~ issues'[number].pull, decision = "updated" => issues'[number].touched,
         decision = "created" => issues'[number].byWizard /\ number = Len(issues) + 1
  PROVE  WizInv'
<1> DEFINE to == [at |-> IF wizard[w].assign THEN "assign" ELSE "persist", todo |-> wizard[w].todo,
                  assign |-> wizard[w].assign, number |-> number, decision |-> decision,
                  copilot |-> "not_requested"]
<1>1. Wizard!Go(w, to)
  BY DEF Wizard!Outcome
<1>2. number \in Nat
  BY LenProperties DEF Lasts
<1>3. to \in WizardSteps
  BY <1>2 DEF WizardSteps, Looks, Ends
<1>4. /\ to.at \in {"assign", "persist"} /\ to.number = number /\ to.decision = decision
      /\ to.copilot = "not_requested"
  OBVIOUS
<1> HIDE DEF to
<1>5. wizard'[w] = to
  BY <1>1, <1>3, WizardGoes DEF WizInv
<1>6. StepSound(w)'
  BY <1>4, <1>5 DEF StepSound
<1>7. \A n \in Nat : Says(w, n)' => n = Len(issues) + 1
  BY <1>4, <1>5 DEF Says
<1> QED
  BY <1>1, <1>3, <1>6, <1>7, WizardMoves

-----------------------------------------------------------------------------
(* The steps of the requests.                                              *)

LEMMA WizardStarts ==
  ASSUME Wizard!OnboardingAssumption, WizInv, NEW w \in Wizards, NEW form \in Wishes,
         Wizard!Start(w, form)
  PROVE  WizInv'
<1> DEFINE to == [at |-> "list", todo |-> form.kinds, assign |-> form.assign]
<1>1. Wizard!Go(w, to) /\ UNCHANGED <<issues, items>> /\ inspected' = Wizard!Idle
  BY DEF Wizard!Start
<1>2. to \in WizardSteps
  BY DEF Wizard!OnboardingAssumption, Wizard!Start, WizardSteps, Lists, KindLists
<1>3. wizard'[w].at = "list"
  BY <1>1, <1>2, WizardGoes DEF WizInv
<1> HIDE DEF to
<1> QED
  BY <1>1, <1>2, <1>3, WizardMoves, NothingLasts DEF StepSound, Says

LEMMA WizardCounts ==
  ASSUME NEW S PROVE Wizard!Cardinality(S) = Cardinality(S)
BY DEF Wizard!Cardinality, Cardinality

LEMMA CountAfter ==
  ASSUME NEW n \in Nat, NEW i \in 1 .. n
  PROVE  IsFiniteSet((i + 1) .. n) /\ Cardinality((i + 1) .. n) = n - i
<1>1. PICK j \in Int : j = i + 1
  OBVIOUS
<1>2. IsFiniteSet(j .. n) /\ Cardinality(j .. n) = IF j > n THEN 0 ELSE n - j + 1
  BY FS_Interval
<1>3. (IF j > n THEN 0 ELSE n - j + 1) = n - i
  BY <1>1
<1> QED
  BY <1>1, <1>2, <1>3

\* An open issue that is not on the page has as many newer ones as a page holds.
LEMMA UnlistedIsOld ==
  ASSUME Wizard!OnboardingAssumption, issues \in Seq(Issue), NEW i \in 1 .. Len(issues), issues[i].open,
         i \notin Wizard!Page
  PROVE  Len(issues) - i >= githubIssueDedupeCandidateMax
<1>1. Len(issues) \in Nat /\ DOMAIN issues = 1 .. Len(issues)
  BY LenProperties
<1> DEFINE newer == {k \in {n \in Wizard!Numbers : issues[n].open} : k > i}
<1>2. ~(Wizard!Cardinality(newer) < githubIssueDedupeCandidateMax)
  BY <1>1 DEF Wizard!Page, Wizard!Numbers
<1>3. newer \in SUBSET ((i + 1) .. Len(issues))
  BY <1>1 DEF Wizard!Numbers
<1> HIDE DEF newer
<1>4. IsFiniteSet((i + 1) .. Len(issues)) /\ Cardinality((i + 1) .. Len(issues)) = Len(issues) - i
  BY <1>1, CountAfter
<1>5. Cardinality(newer) \in Nat /\ Cardinality(newer) <= Len(issues) - i
  BY <1>3, <1>4, FS_Subset, FS_CardinalityType
<1> QED
  BY <1>1, <1>2, <1>5, WizardCounts DEF Wizard!OnboardingAssumption

LEMMA IssuesAreListed ==
  ASSUME Wizard!OnboardingAssumption, WizInv, NEW w \in Wizards, Wizard!fetchOpenGithubIssues(w)
  PROVE  WizInv'
<1>1. /\ wizard[w] \in Lists /\ wizard[w].todo \in Seq(STRING) /\ wizard[w].todo # <<>>
      /\ issues \in Seq(Issue) /\ UNCHANGED <<issues, items, inspected>>
  BY HeldSteps DEF WizInv, WizTypes, Wizard!fetchOpenGithubIssues, Wizard!quiet, Lists, KindLists
<1> DEFINE candidates == Wizard!Candidates(Wizard!Kind(w))
           listingCame == Wizard!Listed(w, candidates, FALSE)
<1>a. PICK hits : hits = IF listingCame THEN candidates ELSE {}
  OBVIOUS
<1>b. PICK blind \in BOOLEAN : blind = IF listingCame THEN FALSE ELSE TRUE
  OBVIOUS
<1>2. /\ Wizard!Listed(w, hits, blind)
      /\ \/ hits = candidates
         \/ hits = {} /\ blind
  <2>1. listingCame \/ Wizard!Listed(w, {}, TRUE)
    BY DEF Wizard!fetchOpenGithubIssues
  <2> HIDE DEF candidates
  <2>2. CASE listingCame
    <3>1. hits = candidates /\ blind = FALSE
      BY <1>a, <1>b, <2>2
    <3> QED
      BY <2>2, <3>1
  <2>3. CASE ~listingCame
    <3>1. hits = {} /\ blind = TRUE
      BY <1>a, <1>b, <2>3
    <3> QED
      BY <2>1, <2>3, <3>1
  <2> QED
    BY <2>2, <2>3
<1> HIDE DEF listingCame
<1> DEFINE number == IF hits = {} THEN 0 ELSE Wizard!Max(hits)
           to == [at |-> IF hits = {} THEN "create" ELSE "detail", todo |-> wizard[w].todo,
                  assign |-> wizard[w].assign, number |-> number, asOf |-> Len(issues), blind |-> blind]
<1>3. Wizard!Go(w, to)
  BY <1>2 DEF Wizard!Listed
<1>4. hits \subseteq 1 .. Len(issues) /\ \A n \in hits : ~issues[n].pull
  BY <1>1, <1>2, LenProperties DEF Wizard!Candidates, Wizard!Page, Wizard!Numbers
<1>5. Len(issues) \in Nat
  BY <1>1, LenProperties
<1>6. ASSUME hits # {} PROVE Wizard!Max(hits) \in hits
  <2>1. hits \in SUBSET (0 .. Len(issues))
    BY <1>4, <1>5
  <2>2. PICK i \in hits : \A j \in hits : j <= i
    BY <1>5, <1>6, <2>1, MaxExists
  <2>3. \A j \in hits : i >= j
    BY <1>4, <1>5, <2>2
  <2> QED
    BY <2>3 DEF Wizard!Max
<1>7. number \in Nat /\ (hits # {} => number \in 1 .. Len(issues) /\ ~issues[number].pull)
  <2>1. CASE hits = {}
    BY <2>1
  <2>2. CASE hits # {}
    <3>1. number \in hits
      BY <1>6, <2>2
    <3> HIDE DEF number
    <3>2. number \in 1 .. Len(issues) /\ ~issues[number].pull
      BY <1>4, <3>1
    <3>3. number \in Nat
      BY <1>5, <3>2
    <3> QED
      BY <3>2, <3>3
  <2> QED
    BY <2>1, <2>2
<1>8. to \in WizardSteps
  <2> HIDE DEF number
  <2> QED
    BY <1>1, <1>5, <1>7 DEF WizardSteps, Lists, Looks
<1>9. /\ to.at = IF hits = {} THEN "create" ELSE "detail"
      /\ to.number = number /\ to.todo = wizard[w].todo
      /\ to.asOf = Len(issues) /\ to.blind = blind
  OBVIOUS
<1> HIDE DEF to, number
<1>10. wizard'[w] = to
  BY <1>3, <1>8, WizardGoes DEF WizInv
<1>11. ASSUME hits = {}, NEW i \in 1 .. Len(issues), Asks(i, Wizard!Kind(w))
       PROVE  blind \/ Len(issues) - i >= githubIssueDedupeCandidateMax
  BY <1>1, <1>2, <1>11, UnlistedIsOld DEF Asks, Wizard!Candidates, Wizard!Page
<1>12. StepSound(w)'
  <2>1. hits = {} => \A i \in 1 .. Len(issues') :
            Asks(i, Wizard!Kind(w))' => Wizard!Overlooked(i, wizard'[w])
    BY <1>1, <1>9, <1>10, <1>11 DEF Asks, Wizard!Kind, Wizard!Overlooked
  <2>2. wizard'[w].at = "create" => wizard'[w].asOf <= Len(issues')
    BY <1>1, <1>5, <1>9, <1>10
  <2> QED
    BY <1>1, <1>7, <1>9, <1>10, <2>1, <2>2 DEF StepSound
<1>13. \A n \in Nat : ~ Says(w, n)'
  BY <1>9, <1>10 DEF Says
<1> QED
  BY <1>1, <1>3, <1>8, <1>12, <1>13, WizardMoves, NothingLasts

LEMMA IssueIsMade ==
  ASSUME WizInv, NEW w \in Wizards, Wizard!createGithubIssueRecord(w)
  PROVE  WizInv'
<1> DEFINE issue == [title |-> Wizard!Kind(w), pull |-> FALSE, open |-> TRUE, touched |-> FALSE,
                     copilot |-> FALSE, asOf |-> wizard[w].asOf, blind |-> wizard[w].blind,
                     byWizard |-> TRUE]
<1>1. /\ wizard[w] \in Looks /\ wizard[w].at = "create" /\ StepSound(w) /\ issues \in Seq(Issue)
      /\ wizard[w].todo \in Seq(STRING) /\ wizard[w].todo # <<>> /\ IssuesSound
      /\ UNCHANGED <<items, inspected>>
  BY HeldSteps DEF WizInv, WizTypes, StepSound, Wizard!createGithubIssueRecord, Wizard!quiet, Looks, KindLists
<1>2. Wizard!Kind(w) \in Titles
  BY <1>1, HeadTailProperties DEF Wizard!Kind, Titles
<1>3. /\ issue \in Issue /\ ~issue.copilot /\ ~issue.pull /\ issue.byWizard
      /\ issue.title = Wizard!Kind(w) /\ issue.asOf = wizard[w].asOf /\ issue.blind = wizard[w].blind
  BY <1>1, <1>2 DEF Issue, Looks
<1>4. \/ issues' = Append(issues, issue) /\ Wizard!Outcome(w, Len(issues) + 1, "created")
      \/ issues' \in {issues, Append(issues, issue)} /\ Wizard!Advance(w)
  BY DEF Wizard!createGithubIssueRecord
<1> HIDE DEF issue
<1>0. \A i \in 1 .. Len(issues) : Asks(i, issue.title) => Wizard!Overlooked(i, issue)
  BY <1>1, <1>3 DEF StepSound, Wizard!Overlooked
<1>5. CASE issues' = Append(issues, issue) /\ Wizard!Outcome(w, Len(issues) + 1, "created")
  <2>1. Lasts /\ Len(issues') = Len(issues) + 1 /\ issues'[Len(issues) + 1] = issue
    BY <1>0, <1>1, <1>3, <1>5, IssueIsAdded
  <2>2. Len(issues) + 1 \in 1 .. Len(issues')
    BY <1>1, <2>1, LenProperties
  <2> QED
    BY <1>1, <1>3, <1>5, <2>1, <2>2, WizardTells
<1>6. CASE issues' \in {issues, Append(issues, issue)} /\ Wizard!Advance(w)
  <2>1. Lasts
    BY <1>0, <1>1, <1>3, <1>6, IssueIsAdded, NothingLasts
  <2> QED
    BY <1>1, <1>6, <2>1, WizardAdvances
<1> QED
  BY <1>4, <1>5, <1>6

LEMMA IssueIsLookedAt ==
  ASSUME WizInv, NEW w \in Wizards, Wizard!githubGetIssueDetail(w)
  PROVE  WizInv'
<1>1. /\ wizard[w] \in Looks /\ wizard[w].at = "detail" /\ UNCHANGED <<issues, items, inspected>>
      /\ wizard[w].number \in 1 .. Len(issues) /\ ~issues[wizard[w].number].pull
  BY HeldSteps DEF WizInv, StepSound, Wizard!githubGetIssueDetail, Wizard!quiet
<1>2. Lasts
  BY <1>1, NothingLasts
<1>3. \/ Wizard!Go(w, [wizard[w] EXCEPT !.at = "update"])
      \/ Wizard!Outcome(w, wizard[w].number, "reused")
  BY DEF Wizard!githubGetIssueDetail
<1>4. CASE Wizard!Outcome(w, wizard[w].number, "reused")
  BY <1>1, <1>2, <1>4, WizardTells
<1>5. CASE Wizard!Go(w, [wizard[w] EXCEPT !.at = "update"])
  <2> DEFINE to == [wizard[w] EXCEPT !.at = "update"]
  <2>1. to \in WizardSteps /\ to.at = "update" /\ to.number = wizard[w].number
    BY <1>1 DEF WizardSteps, Looks
  <2> HIDE DEF to
  <2>2. wizard'[w] = to
    BY <1>5, <2>1, WizardGoes DEF WizInv, to
  <2>3. StepSound(w)' /\ \A n \in Nat : ~ Says(w, n)'
    BY <1>1, <2>1, <2>2 DEF StepSound, Says
  <2> QED
    BY <1>1, <1>2, <1>5, <2>1, <2>3, WizardMoves DEF to
<1> QED
  BY <1>3, <1>4, <1>5

LEMMA IssueIsReplaced ==
  ASSUME WizInv, NEW w \in Wizards, Wizard!updateGithubIssueRecord(w)
  PROVE  WizInv'
<1> DEFINE n == wizard[w].number
<1>1. /\ wizard[w] \in Looks /\ UNCHANGED <<items, inspected>> /\ n \in 1 .. Len(issues)
      /\ ~issues[n].pull /\ issues \in Seq(Issue) /\ IssuesSound
  BY HeldSteps DEF WizInv, WizTypes, StepSound, Wizard!updateGithubIssueRecord, Wizard!quiet
<1>2. \/ /\ issues' = [issues EXCEPT ![n].touched = TRUE] /\ Wizard!Outcome(w, n, "updated")
      \/ issues' \in {issues, [issues EXCEPT ![n].touched = TRUE]} /\ Wizard!Advance(w)
  BY DEF Wizard!updateGithubIssueRecord
<1> HIDE DEF n
<1>3. CASE issues' = [issues EXCEPT ![n].touched = TRUE] /\ Wizard!Outcome(w, n, "updated")
  <2>1. Lasts /\ Len(issues') = Len(issues) /\ issues'[n].touched
    BY <1>1, <1>3, IssueIsTouched
  <2>2. n \in 1 .. Len(issues') /\ ~issues'[n].pull
    BY <1>1, <2>1 DEF Lasts
  <2> QED
    BY <1>1, <1>3, <2>1, <2>2, WizardTells
<1>4. CASE issues' \in {issues, [issues EXCEPT ![n].touched = TRUE]} /\ Wizard!Advance(w)
  <2>1. Lasts
    BY <1>1, <1>4, IssueIsTouched, NothingLasts
  <2> QED
    BY <1>1, <1>4, <2>1, WizardAdvances
<1> QED
  BY <1>2, <1>3, <1>4

LEMMA CopilotIsAsked ==
  ASSUME WizInv, NEW w \in Wizards, Wizard!assignIssueToCopilot(w)
  PROVE  WizInv'
<1> DEFINE n == wizard[w].number
           assigned == [issues EXCEPT ![n].touched = TRUE, ![n].copilot = TRUE]
           to(status) == [wizard[w] EXCEPT !.at = "persist", !.copilot = status]
<1>1. /\ wizard[w] \in Ends /\ wizard[w].at = "assign" /\ UNCHANGED <<items, inspected>>
      /\ n \in 1 .. Len(issues) /\ ~issues[n].pull /\ issues \in Seq(Issue) /\ IssuesSound
      /\ wizard[w].decision = "created" => issues[n].byWizard
      /\ wizard[w].decision = "updated" => issues[n].touched
  BY HeldSteps DEF WizInv, WizTypes, StepSound, Wizard!assignIssueToCopilot, Wizard!quiet
<1>2. \/ issues' = assigned /\ Wizard!Go(w, to("requested"))
      \/ issues' \in {issues, assigned} /\ Wizard!Go(w, to("failed"))
      \/ issues' = issues /\ Wizard!Go(w, to("blocked"))
  BY DEF Wizard!assignIssueToCopilot
<1>3. PICK status \in {"requested", "failed", "blocked"} :
        /\ Wizard!Go(w, to(status)) /\ issues' \in {issues, assigned}
        /\ status = "requested" => issues' = assigned
  BY <1>2
<1>4. /\ to(status) \in WizardSteps /\ to(status).at = "persist" /\ to(status).number = n
      /\ to(status).decision = wizard[w].decision /\ to(status).copilot = status
  BY <1>1 DEF WizardSteps, Ends
<1>5. Lasts /\ (status = "requested" => issues'[n].copilot)
  <2>1. CASE issues' = assigned
    BY <1>1, <2>1, IssueIsAssigned
  <2>2. CASE issues' = issues /\ status # "requested"
    BY <2>2, NothingLasts
  <2> QED
    BY <1>3, <2>1, <2>2
<1>6. n \in 1 .. Len(issues')
  BY <1>1, <1>5, LenProperties DEF Lasts
<1> HIDE DEF n, to, assigned
<1>7. wizard'[w] = to(status)
  BY <1>3, <1>4, WizardGoes DEF WizInv
<1>8. StepSound(w)'
  BY <1>1, <1>4, <1>5, <1>6, <1>7 DEF StepSound, Lasts
<1>9. \A k \in Nat : Says(w, k)' => Says(w, k)
  BY <1>1, <1>4, <1>7 DEF Says, n
<1> QED
  BY <1>1, <1>3, <1>4, <1>5, <1>8, <1>9, WizardMoves

LEMMA ItemIsKept ==
  ASSUME WizInv, NEW w \in Wizards, Wizard!persistOnboardingWorkItem(w)
  PROVE  WizInv'
<1> DEFINE item == [number |-> wizard[w].number, decision |-> wizard[w].decision,
                    copilot |-> wizard[w].copilot]
<1>1. /\ wizard[w] \in Ends /\ wizard[w].at = "persist" /\ UNCHANGED <<issues, inspected>>
      /\ Wizard!Advance(w)
  BY HeldSteps DEF WizInv, Wizard!persistOnboardingWorkItem, Wizard!quiet
<1>2. \/ items' = items
      \/ items' = items \cup {item} /\ item.decision \in {"created", "updated"}
  BY DEF Wizard!persistOnboardingWorkItem, Wizard!IsRecorded
<1>3. CASE items' = items
  BY <1>1, <1>3, NothingLasts, WizardAdvances
<1>4. CASE items' = items \cup {item} /\ item.decision \in {"created", "updated"}
  <2>1. StepSound(w) /\ OneSays /\ WizTypes
    BY DEF WizInv
  <2> DEFINE rest == Tail(wizard[w].todo)
             to == IF rest = <<>> THEN Wizard!Done
                   ELSE [at |-> "list", todo |-> rest, assign |-> wizard[w].assign]
  <2>2. Wizard!Go(w, to)
    BY <1>1 DEF Wizard!Advance
  <2>3. wizard[w].todo \in Seq(STRING) /\ wizard[w].todo # <<>> /\ wizard[w].assign \in BOOLEAN
    BY <1>1 DEF Ends, KindLists
  <2>4. rest \in Seq(STRING)
    BY <2>3, HeadTailProperties
  <2>5. to \in WizardSteps /\ to.at \in {"done", "list"}
    BY <2>3, <2>4 DEF WizardSteps, Lists, KindLists, Wizard!Done
  <2>6. /\ item.number = wizard[w].number /\ item.decision = wizard[w].decision
        /\ item.copilot = wizard[w].copilot
    OBVIOUS
  <2>7. ItemSound(item)
    BY <1>1, <1>4, <2>1, <2>6 DEF ItemSound, StepSound
  <2>8. item.decision = "created" => Says(w, item.number)
    BY <1>1, <2>6 DEF Says
  <2> HIDE DEF item, to
  <2>9. /\ wizard' \in [Wizards -> WizardSteps] /\ wizard'[w] = to
        /\ \A v \in Wizards \ {w} : wizard'[v] = wizard[v]
    BY <2>1, <2>2, <2>5, WizardGoes
  <2>10. WizTypes' /\ IssuesSound' /\ Wizard!InspectionIsTrue'
    BY <1>1, <2>9, NothingLasts DEF WizInv, WizTypes, Lasts, Wizard!InspectionIsTrue, Wizard!Capped,
           Wizard!Idle
  <2>11. \A v \in Wizards : StepSound(v)'
    <3>1. StepSound(w)'
      BY <2>5, <2>9 DEF StepSound
    <3>2. \A v \in Wizards \ {w} : StepSound(v)'
      BY <1>1, <2>1, <2>9, NothingLasts, HeldSteps, OthersStaySound DEF WizInv, WizTypes
    <3> QED
      BY <3>1, <3>2
  <2>12. \A x \in items' : ItemSound(x)'
    BY <1>1, <1>4, <2>7 DEF ItemSound, WizInv
  <2>13. \A v \in Wizards : \A n : Says(v, n)' => v # w /\ Says(v, n)
    BY <2>5, <2>9 DEF Says
  <2>14. OneSays'
    <3>1. \A v \in Wizards : \A x \in items' : x.decision = "created" => ~ Says(v, x.number)'
      <4>1. SUFFICES ASSUME NEW v \in Wizards, NEW x \in items', x.decision = "created",
                            Says(v, x.number)'
                     PROVE  FALSE
        OBVIOUS
      <4>2. v # w /\ Says(v, x.number)
        BY <2>13, <4>1
      <4>3. x = item
        BY <1>4, <2>1, <4>1, <4>2 DEF OneSays
      <4> QED
        BY <2>1, <2>7, <2>8, <4>1, <4>2, <4>3 DEF OneSays, ItemSound
    <3>2. \A x, y \in items' :
             x.number = y.number /\ x.decision = "created" /\ y.decision = "created" => x = y
      BY <1>4, <2>1, <2>8 DEF OneSays
    <3>3. \A v, u \in Wizards : \A n \in 1 .. Len(issues') : Says(v, n)' /\ Says(u, n)' => v = u
      BY <1>1, <2>1, <2>13 DEF OneSays
    <3> QED
      BY <3>1, <3>2, <3>3 DEF OneSays, Says
  <2> QED
    BY <2>10, <2>11, <2>12, <2>14 DEF WizInv
<1> QED
  BY <1>2, <1>3, <1>4

-----------------------------------------------------------------------------
(* People, and inspections.                                                *)

LEMMA PeopleWork ==
  ASSUME WizInv, Wizard!People
  PROVE  WizInv'
<1>1. issues \in Seq(Issue) /\ IssuesSound /\ UNCHANGED <<wizard, items, inspected>>
  BY DEF WizInv, WizTypes, Wizard!People
<1>2. Lasts
  <2>1. CASE \E n \in Wizard!Numbers : Wizard!Touch(n) \/ Wizard!Close(n)
    <3>1. PICK n \in 1 .. Len(issues) : Wizard!Touch(n) \/ Wizard!Close(n)
      BY <1>1, <2>1, LenProperties DEF Wizard!Numbers
    <3> QED
      BY <1>1, <3>1, IssueIsTouched DEF Wizard!Touch, Wizard!Close
  <2>2. CASE Wizard!Open
    <3>1. PICK title \in {"ci", "other"}, pull \in BOOLEAN :
            issues' = Append(issues, [title |-> title, pull |-> pull, open |-> TRUE, touched |-> FALSE,
                                      copilot |-> FALSE, asOf |-> 0, blind |-> FALSE, byWizard |-> FALSE])
      BY <2>2 DEF Wizard!Open
    <3> DEFINE e == [title |-> title, pull |-> pull, open |-> TRUE, touched |-> FALSE,
                     copilot |-> FALSE, asOf |-> 0, blind |-> FALSE, byWizard |-> FALSE]
    <3>3. title \in Titles
      BY DEF Titles
    <3>2. e \in Issue /\ ~e.byWizard /\ ~e.copilot
      BY <3>3 DEF Issue
    <3> HIDE DEF e
    <3> QED
      BY <1>1, <3>1, <3>2, IssueIsAdded DEF e
  <2> QED
    BY <2>1, <2>2 DEF Wizard!People
<1>3. WizTypes' /\ IssuesSound' /\ Wizard!InspectionIsTrue'
  BY <1>1, <1>2 DEF WizInv, WizTypes, Lasts, Wizard!InspectionIsTrue, Wizard!Capped, Wizard!Idle
<1>4. \A w \in Wizards : StepSound(w)'
  BY <1>1, <1>2, HeldSteps, OthersStaySound DEF WizInv
<1>5. \A x \in items : ItemSound(x)'
  BY <1>1, <1>2, ItemStaysSound DEF WizInv
<1>6. OneSays'
  <2>1. \A w \in Wizards : \A n : Says(w, n)' <=> Says(w, n)
    BY <1>1 DEF Says
  <2>2. \A w \in Wizards : \A n : Says(w, n) => n \in 1 .. Len(issues)
    BY DEF Says, WizInv, StepSound
  <2> QED
    BY <1>1, <2>1, <2>2 DEF OneSays, WizInv, Says
<1> QED
  BY <1>1, <1>3, <1>4, <1>5, <1>6 DEF WizInv

\* Where no call failed and no file tells of a thing, a file that has it came empty.
LEMMA FilesTell ==
  ASSUME NEW fs, NEW how, NEW keys, NEW k \in keys,
         Wizard!Unread(fs, how, keys) = {}, Wizard!Tells(fs, how, k) = {},
         NEW i \in DOMAIN fs, fs[i][k], how[i] \in Wizard!Answers
  PROVE  how[i] = "blank"
<1>1. i \in Wizard!LookedInto(fs, how, keys)
  BY DEF Wizard!LookedInto
<1>2. how[i] # "failed"
  BY <1>1 DEF Wizard!Unread
<1>3. how[i] # "read"
  BY DEF Wizard!Tells
<1> QED
  BY <1>2, <1>3 DEF Wizard!Answers

LEMMA RepositoryIsInspected ==
  ASSUME WizInv, NEW repo \in Repos, Wizard!Inspect(repo)
  PROVE  WizInv'
<1> DEFINE flows == Wizard!Capped(repo.workflows)
           manifests == repo.manifests
           Has(f, k) == \E i \in DOMAIN f : f[i][k]
           Blank(f, how, k) == \A i \in DOMAIN f : f[i][k] => how[i] = "blank"
<1>1. UNCHANGED <<issues, wizard, items>>
  BY DEF Wizard!Inspect
<1>2. PICK listing \in Wizard!Answers, flowsHow \in [DOMAIN flows -> Wizard!Answers],
           manifestsHow \in [DOMAIN manifests -> Wizard!Answers] :
          inspected' = [at |-> "done", repo |-> repo, listing |-> listing, flows |-> flowsHow,
              manifests |-> manifestsHow,
              found |-> Wizard!inspectRepoForOnboarding(repo, listing, flowsHow, manifestsHow)]
  BY DEF Wizard!Inspect
<1> DEFINE tell == Wizard!inspectRepoForOnboarding(repo, listing, flowsHow, manifestsHow)
           looked == IF listing = "read" THEN flows ELSE <<>>
           ci == Wizard!Tells(looked, flowsHow, "ci") # {}
           inFlows == Wizard!Tells(looked, flowsHow, "otel") # {}
           inManifests == Wizard!Tells(manifests, manifestsHow, "otel") # {}
           failed == \/ Wizard!Unread(looked, flowsHow, {"ci", "otel"}) # {}
                     \/ ~inFlows /\ Wizard!Unread(manifests, manifestsHow, {"otel"}) # {}
<1>3. /\ inspected'.found = tell /\ inspected'.repo = repo /\ inspected'.listing = listing
      /\ inspected'.flows = flowsHow /\ inspected'.manifests = manifestsHow
  BY <1>2
<1>4. /\ listing = "failed" => tell.ci = FALSE /\ tell.otel = FALSE /\ tell.failed = TRUE
      /\ listing # "failed" => /\ tell.ci <=> ci
                               /\ tell.otel <=> inFlows \/ inManifests
                               /\ tell.failed <=> failed
  BY DEF Wizard!inspectRepoForOnboarding
<1>5. listing = "read" \/ listing = "failed" \/ listing = "blank"
  BY DEF Wizard!Answers
<1>6. /\ listing = "read" => looked = flows
      /\ listing # "read" => DOMAIN looked = {}
  OBVIOUS
<1> HIDE DEF flows, looked, tell
<1>7. /\ \A i \in DOMAIN looked : flowsHow[i] \in Wizard!Answers
      /\ \A i \in DOMAIN manifests : manifestsHow[i] \in Wizard!Answers
  BY <1>2, <1>6
<1>8. /\ ci => Has(looked, "ci")
      /\ inFlows => Has(looked, "otel")
      /\ inManifests => Has(manifests, "otel")
  BY DEF Wizard!Tells
<1>9. ASSUME ~failed
      PROVE  /\ ~ci => Blank(looked, flowsHow, "ci")
             /\ ~inFlows /\ ~inManifests => /\ Blank(looked, flowsHow, "otel")
                                           /\ Blank(manifests, manifestsHow, "otel")
  BY <1>7, <1>9, FilesTell
<1> HIDE DEF ci, inFlows, inManifests, failed
<1>10. /\ tell.ci => Has(flows, "ci")
       /\ tell.otel => Has(flows, "otel") \/ Has(manifests, "otel")
       /\ ~tell.failed /\ ~tell.ci => listing = "blank" \/ Blank(flows, flowsHow, "ci")
       /\ ~tell.failed /\ ~tell.otel => /\ listing = "blank" \/ Blank(flows, flowsHow, "otel")
                                        /\ Blank(manifests, manifestsHow, "otel")
  BY <1>4, <1>5, <1>6, <1>8, <1>9
<1>11. Wizard!InspectionIsTrue'
  BY <1>3, <1>10 DEF Wizard!InspectionIsTrue, flows
<1>12. WizTypes' /\ OneSays' /\ \A x \in items' : ItemSound(x)'
  BY <1>1 DEF WizInv, WizTypes, OneSays, ItemSound, Says
<1>13. IssuesSound' /\ \A w \in Wizards : StepSound(w)'
  BY <1>1, NothingLasts, HeldSteps, OthersStaySound DEF WizInv, WizTypes, Lasts
<1> QED
  BY <1>11, <1>12, <1>13 DEF WizInv

\* However many requests and people: where the wizard makes an issue of a title that is
\* open already, its listing had failed, that one came after it, or as many newer ones as
\* a listing holds had come; it writes to no pull request, records what became of issues,
\* and what it finds missing in a repository without an error is in no file that came
\* (createOrUpdateOnboardingIssue, inspectRepoForOnboarding).
THEOREM OnboardingIsKept ==
  Wizard!OnboardingAssumption /\ Wizard!Spec
      => [](Wizard!OneIssueEach /\ Wizard!ItemsTellIssues /\ Wizard!InspectionIsTrue)
<1> SUFFICES ASSUME Wizard!OnboardingAssumption
             PROVE  Wizard!Spec => [](Wizard!OneIssueEach /\ Wizard!ItemsTellIssues /\ Wizard!InspectionIsTrue)
  OBVIOUS
<1>1. Wizard!Init => WizInv
  <2> SUFFICES ASSUME Wizard!Init PROVE WizInv
    OBVIOUS
  <2>1. issues = <<>> /\ items = {} /\ wizard = [w \in Wizards |-> Wizard!Idle] /\ inspected = Wizard!Idle
    BY DEF Wizard!Init
  <2>2. issues \in Seq(Issue) /\ Len(issues) = 0
    BY <2>1, EmptySeq
  <2>3. WizTypes /\ IssuesSound
    BY <2>1, <2>2 DEF WizTypes, IssuesSound, WizardSteps
  <2>4. \A w \in Wizards : StepSound(w) /\ \A n : ~ Says(w, n)
    BY <2>1 DEF StepSound, Says, Wizard!Idle
  <2> QED
    BY <2>1, <2>3, <2>4 DEF WizInv, OneSays, Wizard!InspectionIsTrue
<1>2. WizInv /\ [Wizard!Next]_Wizard!vars => WizInv'
  <2> SUFFICES ASSUME WizInv, [Wizard!Next]_Wizard!vars PROVE WizInv'
    OBVIOUS
  <2>1. CASE UNCHANGED Wizard!vars
    <3>1. UNCHANGED <<issues, wizard, items, inspected>>
      BY <2>1 DEF Wizard!vars
    <3>2. WizTypes' /\ OneSays' /\ Wizard!InspectionIsTrue' /\ \A x \in items' : ItemSound(x)'
      BY <3>1, InspectionStays DEF WizInv, WizTypes, OneSays, ItemSound, Says
    <3>3. IssuesSound' /\ \A w \in Wizards : StepSound(w)'
      BY <3>1, NothingLasts, HeldSteps, OthersStaySound DEF WizInv, WizTypes, Lasts
    <3> QED
      BY <3>2, <3>3 DEF WizInv
  <2> QED
    BY <2>1, WizardStarts, IssuesAreListed, IssueIsMade, IssueIsLookedAt, IssueIsReplaced, CopilotIsAsked,
       ItemIsKept, PeopleWork, RepositoryIsInspected DEF Wizard!Next
<1>3. WizInv => Wizard!OneIssueEach /\ Wizard!ItemsTellIssues /\ Wizard!InspectionIsTrue
  <2> SUFFICES ASSUME WizInv PROVE Wizard!OneIssueEach /\ Wizard!ItemsTellIssues
    BY DEF WizInv
  <2>1. Wizard!Numbers = 1 .. Len(issues)
    BY LenProperties DEF WizInv, WizTypes, Wizard!Numbers
  <2>2. Wizard!OneIssueEach
    BY <2>1 DEF WizInv, IssuesSound, Asks, StepSound, Wizard!OneIssueEach
  <2>3. Wizard!ItemsTellIssues
    BY <2>1 DEF WizInv, OneSays, ItemSound, Wizard!ItemsTellIssues
  <2> QED
    BY <2>2, <2>3
<1> QED
  BY <1>1, <1>2, <1>3, PTL DEF Wizard!Spec

-----------------------------------------------------------------------------
(* Rules and charts that are suggested.                                    *)

LEMMA SuggestFinites ==
  \A S : (Suggest!IsFiniteSet(S) <=> IsFiniteSet(S)) /\ Suggest!Cardinality(S) = Cardinality(S)
BY DEF Suggest!IsFiniteSet, IsFiniteSet, Suggest!Cardinality, Cardinality

\* Thresholds that are in order are apart, and those that are not in order warn below zero.
LEMMA ThresholdsApart ==
  ASSUME NEW lt \in BOOLEAN, NEW q \in Suggest!Quantiles
  PROVE  LET t == Suggest!autoRuleThresholds(lt, q)
             Beyond == IF lt THEN t.critical < t.warning ELSE t.critical > t.warning
         IN /\ t.warning \in Int /\ t.critical \in Int
            /\ Suggest!InOrder(lt, t) => Beyond
            /\ Beyond \/ t.warning < 0
<1> DEFINE warning == IF lt THEN q.q20 ELSE q.q80
           beyond == IF lt THEN IF q.q05 > warning THEN Suggest!Least(warning, q.q50) ELSE q.q05
                     ELSE IF q.q95 < warning THEN Suggest!Most(warning, q.q50) ELSE q.q95
           apart == CASE warning = 0 -> IF lt THEN -10 ELSE 10
                      [] warning # 0 /\ lt -> 9 * warning
                      [] OTHER -> 11 * warning
           critical == IF beyond = warning THEN apart ELSE 10 * beyond
           t == Suggest!autoRuleThresholds(lt, q)
<1>1. q.q05 \in Int /\ q.q20 \in Int /\ q.q50 \in Int /\ q.q80 \in Int /\ q.q95 \in Int
  BY DEF Suggest!Quantiles
<1>2. t.warning = 10 * warning /\ t.critical = critical
  BY DEF Suggest!autoRuleThresholds
<1>3. warning \in Int /\ beyond \in Int /\ (IF lt THEN beyond <= warning ELSE beyond >= warning)
  BY <1>1 DEF Suggest!Least, Suggest!Most
<1>4. apart = IF warning = 0 THEN IF lt THEN -10 ELSE 10 ELSE IF lt THEN 9 * warning ELSE 11 * warning
  OBVIOUS
<1> HIDE DEF warning, beyond, apart
<1>5. /\ critical \in Int
      /\ (IF lt THEN critical <= 10 * warning ELSE critical >= 10 * warning)
             => (IF lt THEN critical < 10 * warning ELSE critical > 10 * warning)
      /\ (IF lt THEN critical < 10 * warning ELSE critical > 10 * warning) \/ 10 * warning < 0
  BY <1>3, <1>4
<1> HIDE DEF critical, t
<1> QED
  BY <1>2, <1>3, <1>5 DEF Suggest!InOrder, t

\* A rule that alarms beyond where it warns.
Alarms(c) ==
    LET Beyond(t) == IF c.lt THEN t.critical < t.warning ELSE t.critical > t.warning
    IN Beyond(c) /\ \A k \in DOMAIN c.buckets : Beyond(c.buckets[k]) \/ c.buckets[k].warning < 0
\* One of a kind: of a key, and a metric rule of its type.
SameKind(t, c, d) == c.key = d.key /\ (t = "metrics" => c.type = d.type)

\* What rows tell, and what a request has in hand: nothing that it has read is made again,
\* and its charts come after those it has read.
RowsNumbered ==
    \A t \in Suggest!Tables :
        /\ IsFiniteSet(tables[t])
        /\ \A x \in tables[t] :
               /\ x.no \in 1 .. rowNo /\ x.seen \subseteq 1 .. rowNo /\ x.position \in Nat
               /\ x.batch \in Makers /\ request[x.batch].at = "done"
Fits(q) ==
    /\ DOMAIN q = {"at", "table", "todo", "seen", "taken", "from"}
    /\ q.table \in Suggest!Tables /\ IsFiniteSet(q.todo) /\ q.seen \subseteq 1 .. rowNo /\ q.from \in Nat
    /\ q.at = "look" => q.taken = {}
    /\ (q.table = "charts" => q.at = "insert") =>
           \A x \in tables[q.table], c \in q.todo :
               x.no \in q.seen /\ SameKind(q.table, c, x.made) => c.key \in q.taken
    /\ q.table = "charts" /\ q.at = "insert" =>
           \A x \in tables["charts"] : x.no \in q.seen => x.position < q.from
    /\ q.table = "metrics" => \A c \in q.todo : Alarms(c)
SugInv ==
    /\ DOMAIN tables = Suggest!Tables /\ DOMAIN request = Makers /\ rowNo \in Nat
    /\ RowsNumbered
    /\ \A r \in Makers : request[r].at \in {"look", "insert"} => Fits(request[r])
    /\ Suggest!MadeOnce
    /\ \A x \in tables["metrics"] : Alarms(x.made)

\* What is proposed.
LEMMA CandidatesFit ==
  ASSUME Suggest!SuggestionsAssumption, SugInv, NEW form \in Makes, NEW existing,
         existing \in {{}, tables[form.table]}, NEW P \in SUBSET Suggest!Candidates(form, existing)
  PROVE  /\ IsFiniteSet(P) /\ (form.table = "metrics" => \A c \in P : Alarms(c))
         /\ form.table # "charts" =>
                \A x \in existing, c \in P : ~ SameKind(form.table, c, x.made)
<1>1. IsFiniteSet(Series) /\ IsFiniteSet(Records) /\ form.table \in {"metrics", "tags", "notifications", "charts"}
  BY SuggestFinites DEF Suggest!SuggestionsAssumption
<1>2. CASE form.table = "metrics"
  <2> DEFINE some == {x \in Series : (x.fp = "") = ~form.fp}
             T == {Suggest!MetricRule(form, s) : s \in some}
  <2>1. P \subseteq {c \in T : c.key \notin Suggest!existingSeries(form.type, existing) /\ Suggest!InOrder(c.lt, c)}
    BY <1>2 DEF Suggest!Candidates, Suggest!buildMetricRuleCandidates
  <2>2. IsFiniteSet(P)
    <3>1. IsFiniteSet(some)
      BY <1>1, FS_Subset
    <3> DEFINE f == [s \in some |-> Suggest!MetricRule(form, s)]
    <3>2. f \in [some -> T] /\ \A y \in T : \E x \in some : f[x] = y
      OBVIOUS
    <3> HIDE DEF some, f, T
    <3>3. IsFiniteSet(T)
      BY <3>1, <3>2, ImageIsFinite
    <3> QED
      BY <2>1, <3>3, FS_Subset DEF T
  <2>3. ASSUME NEW c \in P PROVE Alarms(c) /\ c.type = form.type
    <3>1. PICK s \in Series : c = Suggest!MetricRule(form, s)
      BY <2>1
    <3> DEFINE lt == Suggest!inferAutoRuleComparator(s.signal) = "lt"
               t == Suggest!autoRuleThresholds(lt, s.q)
    <3>2. /\ c.type = form.type /\ c.lt = lt /\ c.warning = t.warning /\ c.critical = t.critical
          /\ c.buckets = IF form.type = "seasonal"
                         THEN [k \in DOMAIN s.buckets |-> Suggest!autoRuleThresholds(lt, s.buckets[k])] ELSE <<>>
      BY <3>1 DEF Suggest!MetricRule
    <3>3. lt \in BOOLEAN /\ s.q \in Suggest!Quantiles
          /\ \A k \in DOMAIN s.buckets : s.buckets[k] \in Suggest!Quantiles
      BY DEF Suggest!SuggestionsAssumption
    <3>4. Suggest!InOrder(c.lt, c)
      BY <2>1
    <3> HIDE DEF lt, t
    <3>5. Suggest!InOrder(lt, t)
      BY <3>2, <3>4 DEF Suggest!InOrder
    <3>6. IF c.lt THEN c.critical < c.warning ELSE c.critical > c.warning
      BY <3>2, <3>3, <3>5, ThresholdsApart DEF t
    <3>7. ASSUME NEW k \in DOMAIN c.buckets
          PROVE  \/ IF c.lt THEN c.buckets[k].critical < c.buckets[k].warning
                    ELSE c.buckets[k].critical > c.buckets[k].warning
                 \/ c.buckets[k].warning < 0
      <4>1. form.type = "seasonal" /\ k \in DOMAIN s.buckets
        <5>1. CASE form.type # "seasonal"
          BY <3>2, <3>7, <5>1
        <5> QED
          BY <3>2, <3>7, <5>1
      <4>2. c.buckets[k] = Suggest!autoRuleThresholds(lt, s.buckets[k])
        BY <3>2, <4>1
      <4> QED
        BY <3>2, <3>3, <4>1, <4>2, ThresholdsApart
    <3> QED
      BY <3>2, <3>6, <3>7 DEF Alarms
  <2>4. ASSUME NEW x \in existing, NEW c \in P PROVE ~ SameKind("metrics", c, x.made)
    BY <2>1, <2>3 DEF SameKind, Suggest!existingSeries
  <2> QED
    BY <1>2, <2>2, <2>3, <2>4
<1>3. CASE form.table = "tags"
  <2> DEFINE some == {x \in Records : x.value # ""}
             T == {Suggest!TagRule(r) : r \in some}
  <2>1. P \subseteq {c \in T : c.key \notin Suggest!Keys(existing)}
    BY <1>3 DEF Suggest!Candidates, Suggest!buildAutoTagRuleCandidates
  <2>2. IsFiniteSet(some)
    BY <1>1, FS_Subset
  <2> DEFINE f == [r \in some |-> Suggest!TagRule(r)]
  <2>3. f \in [some -> T] /\ \A y \in T : \E x \in some : f[x] = y
    OBVIOUS
  <2> HIDE DEF some, f, T
  <2>4. IsFiniteSet(T)
    BY <2>2, <2>3, ImageIsFinite
  <2>5. IsFiniteSet(P)
    BY <2>1, <2>4, FS_Subset
  <2> QED
    BY <1>3, <2>1, <2>5 DEF SameKind, Suggest!Keys
<1>4. CASE form.table = "notifications"
  <2> DEFINE some == {x \in tables.metrics : x.made.key[1] \notin Suggest!coveredSignalKeys(existing)}
             T == {Suggest!NotificationRule(m) : m \in some}
  <2>1. P \subseteq T
    BY <1>4 DEF Suggest!Candidates, Suggest!notificationAutoCandidates
  <2>2. IsFiniteSet(some)
    BY FS_Subset DEF SugInv, RowsNumbered, Suggest!Tables
  <2> DEFINE f == [m \in some |-> Suggest!NotificationRule(m)]
  <2>3. f \in [some -> T] /\ \A y \in T : \E x \in some : f[x] = y
    OBVIOUS
  <2>4. \A c \in T : c.key \notin Suggest!Keys(existing)
    BY DEF Suggest!NotificationRule, Suggest!coveredSignalKeys
  <2> HIDE DEF some, f, T
  <2>5. IsFiniteSet(T)
    BY <2>2, <2>3, ImageIsFinite
  <2>6. IsFiniteSet(P)
    BY <2>1, <2>5, FS_Subset
  <2> QED
    BY <1>4, <2>1, <2>4, <2>6 DEF SameKind, Suggest!Keys
<1>5. CASE form.table = "charts"
  <2> DEFINE rows == tables.metrics
             K == Suggest!Keys(rows)
             N(k) == Suggest!Cardinality({x \in rows : x.made.key = k})
             Of(k) == {[key |-> <<k, i>>] : i \in 1 .. N(k)}
             U == {Of(k) : k \in K}
  <2>1. P \subseteq UNION U
    BY <1>5 DEF Suggest!Candidates, Suggest!buildAutoDashboardChartCandidates
  <2>2. IsFiniteSet(rows)
    BY DEF SugInv, RowsNumbered, Suggest!Tables
  <2>3. IsFiniteSet(K)
    <3> DEFINE f == [x \in rows |-> x.made.key]
    <3>1. f \in [rows -> K] /\ \A y \in K : \E x \in rows : f[x] = y
      BY DEF Suggest!Keys
    <3> HIDE DEF K, rows, f
    <3> QED
      BY <2>2, <3>1, ImageIsFinite
  <2>4. ASSUME NEW k \in K PROVE IsFiniteSet(Of(k))
    <3>1. IsFiniteSet({x \in rows : x.made.key = k})
      BY <2>2, FS_Subset
    <3>2. N(k) \in Nat
      BY <3>1, SuggestFinites, FS_CardinalityType
    <3> HIDE DEF N
    <3> DEFINE I == 1 .. N(k)
               F == Of(k)
    <3>3. IsFiniteSet(I)
      BY <3>2, FS_Interval
    <3> DEFINE
               f == [i \in I |-> [key |-> <<k, i>>]]
    <3>4. f \in [I -> F] /\ \A y \in F : \E x \in I : f[x] = y
      OBVIOUS
    <3> HIDE DEF f, F, I
    <3>5. IsFiniteSet(F)
      BY <3>3, <3>4, ImageIsFinite
    <3> QED
      BY <3>5 DEF F
  <2> HIDE DEF Of
  <2> DEFINE g == [k \in K |-> Of(k)]
  <2>5. g \in [K -> U] /\ \A y \in U : \E x \in K : g[x] = y
    OBVIOUS
  <2> HIDE DEF K, U, g
  <2>6. IsFiniteSet(U)
    BY <2>3, <2>5, ImageIsFinite
  <2>7. IsFiniteSet(UNION U)
    BY <2>4, <2>6, FS_UNION DEF U
  <2>8. IsFiniteSet(P)
    BY <2>1, <2>7, FS_Subset
  <2> QED
    BY <1>5, <2>8
<1> QED
  BY <1>1, <1>2, <1>3, <1>4, <1>5

\* What a request has in hand fits as well after rows were taken away, or were added
\* with higher numbers.
LEMMA FitsStays ==
  ASSUME NEW r \in Makers, Fits(request[r]), request'[r] = request[r],
         rowNo \in Nat, rowNo' \in Nat, rowNo <= rowNo',
         \A t \in Suggest!Tables : \A x \in tables'[t] : x \in tables[t] \/ x.no > rowNo
  PROVE  Fits(request[r])'
<1> DEFINE q == request[r]
<1>1. q.table \in Suggest!Tables /\ q.seen \subseteq 1 .. rowNo' /\ q.seen \subseteq 1 .. rowNo
  BY DEF Fits
<1>2. \A t \in Suggest!Tables : \A x \in tables'[t] : x.no \in q.seen => x \in tables[t]
  BY <1>1
<1>3. "charts" \in Suggest!Tables
  BY DEF Suggest!Tables
<1> QED
  BY <1>1, <1>2, <1>3 DEF Fits

\* A step of one request that leaves the tables as they are.
LEMMA RequestMoves ==
  ASSUME SugInv, NEW r \in Makers, NEW to, Suggest!Go(r, to), UNCHANGED <<tables, rowNo>>,
         to.at \in {"look", "insert", "done"}, to.at \in {"look", "insert"} => Fits(to),
         request[r].at # "done"
  PROVE  SugInv'
<1>1. /\ DOMAIN request' = Makers /\ request'[r] = to
      /\ \A s \in Makers \ {r} : request'[s] = request[s]
  BY DEF Suggest!Go, SugInv
<1>2. RowsNumbered'
  BY <1>1 DEF SugInv, RowsNumbered
<1>3. ASSUME NEW s \in Makers, request'[s].at \in {"look", "insert"} PROVE Fits(request[s])'
  <2>1. CASE s = r
    <3>1. Fits(to)'
      BY <1>1, <1>3, <2>1 DEF Fits
    <3> QED
      BY <1>1, <2>1, <3>1 DEF Fits
  <2>2. CASE s # r
    BY <1>1, <1>3, <2>2, FitsStays DEF SugInv
  <2> QED
    BY <2>1, <2>2
<1> QED
  BY <1>1, <1>2, <1>3 DEF SugInv, Suggest!MadeOnce

LEMMA RulesAreProposed ==
  ASSUME Suggest!SuggestionsAssumption, SugInv, NEW r \in Makers, NEW form \in Makes,
         Suggest!Propose(r, form)
  PROVE  SugInv'
<1>1. request[r].at = "idle" /\ UNCHANGED <<tables, rowNo>>
  BY DEF Suggest!Propose
<1>2. PICK ok \in BOOLEAN : \E P \in Suggest!Capped(Suggest!Candidates(form, IF ok THEN tables[form.table] ELSE {})) :
        /\ form.table = "charts" => ok
        /\ Suggest!Go(r, [at |-> IF form.table \in {"notifications", "charts"} THEN "look" ELSE "insert",
                   table |-> form.table, todo |-> P,
                   seen |-> Suggest!Nos(IF ok THEN tables[form.table] ELSE {}), taken |-> {}, from |-> 0])
  BY DEF Suggest!Propose
<1> DEFINE existing == IF ok THEN tables[form.table] ELSE {}
<1>3. PICK P \in Suggest!Capped(Suggest!Candidates(form, existing)) :
        Suggest!Go(r, [at |-> IF form.table \in {"notifications", "charts"} THEN "look" ELSE "insert",
                   table |-> form.table, todo |-> P, seen |-> Suggest!Nos(existing), taken |-> {}, from |-> 0])
  BY <1>2
<1> DEFINE to == [at |-> IF form.table \in {"notifications", "charts"} THEN "look" ELSE "insert",
                  table |-> form.table, todo |-> P, seen |-> Suggest!Nos(existing), taken |-> {}, from |-> 0]
<1>4. /\ P \in SUBSET Suggest!Candidates(form, existing)
      /\ existing \in {{}, tables[form.table]}
  BY DEF Suggest!Capped
<1>5. form.table \in Suggest!Tables
  BY DEF Suggest!SuggestionsAssumption, Suggest!Tables
<1>6. Suggest!Nos(existing) \subseteq 1 .. rowNo
      /\ \A x \in tables[form.table] : x.no \in Suggest!Nos(existing) => existing = tables[form.table]
  BY <1>5 DEF Suggest!Nos, SugInv, RowsNumbered
<1> HIDE DEF existing
<1>7. /\ IsFiniteSet(P) /\ (form.table = "metrics" => \A c \in P : Alarms(c))
      /\ form.table # "charts" => \A x \in existing, c \in P : ~ SameKind(form.table, c, x.made)
  BY <1>4, CandidatesFit
<1>8. /\ to.table = form.table /\ to.todo = P /\ to.seen = Suggest!Nos(existing) /\ to.taken = {} /\ to.from = 0
      /\ to.at = IF form.table \in {"notifications", "charts"} THEN "look" ELSE "insert"
      /\ DOMAIN to = {"at", "table", "todo", "seen", "taken", "from"}
  OBVIOUS
<1> HIDE DEF to
<1>9. Fits(to)
  BY <1>5, <1>6, <1>7, <1>8 DEF Fits
<1> QED
  BY <1>1, <1>3, <1>8, <1>9, RequestMoves DEF to

LEMMA RowsAreLookedAt ==
  ASSUME SugInv, NEW r \in Makers, Suggest!LookAgain(r)
  PROVE  SugInv'
<1> DEFINE q == request[r]
           rows == tables[q.table]
<1>1. q.at = "look" /\ Fits(q) /\ UNCHANGED <<tables, rowNo>>
  BY DEF Suggest!LookAgain, SugInv
<1>2. PICK ok \in BOOLEAN :
        /\ q.table = "charts" => ok
        /\ Suggest!Go(r, [q EXCEPT !.at = "insert", !.seen = IF ok THEN Suggest!Nos(rows) ELSE @,
                    !.taken = IF ok THEN Suggest!Keys(rows) ELSE {},
                    !.from = IF rows = {} THEN 0 ELSE 1 + Suggest!Max({x.position : x \in rows})])
  BY DEF Suggest!LookAgain
<1> DEFINE to == [q EXCEPT !.at = "insert", !.seen = IF ok THEN Suggest!Nos(rows) ELSE @,
                    !.taken = IF ok THEN Suggest!Keys(rows) ELSE {},
                    !.from = IF rows = {} THEN 0 ELSE 1 + Suggest!Max({x.position : x \in rows})]
<1>3. /\ DOMAIN to = {"at", "table", "todo", "seen", "taken", "from"}
      /\ to.at = "insert" /\ to.table = q.table /\ to.todo = q.todo
      /\ to.seen = (IF ok THEN Suggest!Nos(rows) ELSE q.seen)
      /\ to.taken = (IF ok THEN Suggest!Keys(rows) ELSE {})
      /\ to.from = (IF rows = {} THEN 0 ELSE 1 + Suggest!Max({x.position : x \in rows}))
  <2>1. DOMAIN q = {"at", "table", "todo", "seen", "taken", "from"}
    BY <1>1 DEF Fits
  <2> HIDE DEF q, rows
  <2> QED
    BY <2>1
<1>4. /\ q.table \in Suggest!Tables /\ IsFiniteSet(rows)
      /\ \A x \in rows : x.no \in 1 .. rowNo /\ x.position \in Nat
  BY <1>1 DEF Fits, SugInv, RowsNumbered
<1>5. Suggest!Nos(rows) \subseteq 1 .. rowNo
  BY <1>4 DEF Suggest!Nos
<1>6. to.from \in Nat /\ \A x \in rows : x.position < to.from
  <2> DEFINE S == {x.position : x \in rows}
             f == [x \in rows |-> x.position]
  <2>1. f \in [rows -> S] /\ (\A y \in S : \E x \in rows : f[x] = y) /\ S \in SUBSET Nat
    BY <1>4
  <2>2. rows # {} => S # {}
    OBVIOUS
  <2>3. \A x \in rows : x.position \in S
    OBVIOUS
  <2>4. to.from = IF rows = {} THEN 0 ELSE 1 + Suggest!Max(S)
    BY <1>3
  <2> HIDE DEF rows, S, f, to
  <2>5. IsFiniteSet(S)
    BY <1>4, <2>1, ImageIsFinite
  <2>6. ASSUME rows # {} PROVE Suggest!Max(S) \in S /\ \A y \in S : y <= Suggest!Max(S)
    <3>1. PICK i \in S : \A j \in S : j <= i
      BY <2>1, <2>2, <2>5, <2>6, FiniteMax
    <3>2. \A j \in S : i >= j
      BY <2>1, <3>1
    <3>3. Suggest!Max(S) \in S /\ \A j \in S : Suggest!Max(S) >= j
      BY <3>2 DEF Suggest!Max
    <3> QED
      BY <2>1, <3>3
  <2>7. CASE rows = {}
    BY <2>4, <2>7
  <2>8. CASE rows # {}
    <3>1. Suggest!Max(S) \in Nat /\ to.from = 1 + Suggest!Max(S)
      BY <2>1, <2>4, <2>6, <2>8
    <3>2. \A x \in rows : x.position \in Nat /\ x.position <= Suggest!Max(S)
      BY <2>1, <2>3, <2>6, <2>8
    <3> QED
      BY <3>1, <3>2
  <2> QED
    BY <2>7, <2>8
<1>7. Fits(to)
  <2>1. \A x \in rows, c \in q.todo :
            to.taken = Suggest!Keys(rows) /\ SameKind(q.table, c, x.made) => c.key \in to.taken
    BY DEF SameKind, Suggest!Keys
  <2>2. q.taken = {} /\ to.seen \subseteq 1 .. rowNo /\ IsFiniteSet(q.todo)
        /\ (q.table = "metrics" => \A c \in q.todo : Alarms(c))
    BY <1>1, <1>3, <1>5 DEF Fits
  <2>3. ~ok => \A x \in rows, c \in q.todo : x.no \in q.seen => ~ SameKind(q.table, c, x.made)
    BY <1>1, <1>2, <2>2 DEF Fits
  <2>4. \A x \in rows, c \in q.todo :
            x.no \in to.seen /\ SameKind(q.table, c, x.made) => c.key \in to.taken
    BY <1>3, <2>1, <2>3
  <2>5. q.table = "charts" => rows = tables["charts"]
    OBVIOUS
  <2>6. rows = tables[to.table]
    BY <1>3
  <2> HIDE DEF to, q, rows
  <2> QED
    BY <1>3, <1>4, <1>6, <2>2, <2>4, <2>5, <2>6 DEF Fits
<1> HIDE DEF to
<1>8. Suggest!Go(r, to)
  BY <1>2 DEF to
<1>9. request[r].at # "done"
  BY <1>1
<1> QED
  BY <1>1, <1>3, <1>7, <1>8, <1>9, RequestMoves

\* There is an order of what is written.
LEMMA OrdersExist ==
  ASSUME NEW S, IsFiniteSet(S)
  PROVE  Cardinality(S) \in Nat /\ Suggest!Orders(S) # {}
<1> DEFINE n == Cardinality(S)
<1>1. n \in Nat
  BY FS_CardinalityType
<1>2. 1 \in Int /\ n \in Int /\ (IF 1 > n THEN 0 ELSE n - 1 + 1) = n
  BY <1>1
<1>3. IsFiniteSet(1 .. n) /\ Cardinality(1 .. n) = n
  <2> HIDE DEF n
  <2> QED
    BY <1>2, FS_Interval
<1>4. ExistsBijection(S, 1 .. n)
  BY <1>3, FS_SameCardinalityBij
<1>5. PICK f : f \in Bijection(S, 1 .. n)
  BY <1>4 DEF ExistsBijection
<1>6. f \in [S -> 1 .. n] /\ \A c, d \in S : f[c] = f[d] => c = d
  BY <1>5 DEF Bijection, Injection, IsInjective
<1>7. Suggest!Cardinality(S) = n
  BY SuggestFinites
<1> QED
  BY <1>1, <1>6, <1>7 DEF Suggest!Orders

\* Rows that are written go to one table, and are of what the request had in hand.
LEMMA RowsAreWritten ==
  ASSUME SugInv, NEW r \in Makers, request[r].at = "insert", Suggest!Go(r, [at |-> "done"]),
         NEW S \in SUBSET request[r].todo, \A c, d \in S : c.key = d.key => c = d,
         Suggest!Write(r, S)
  PROVE  SugInv'
<1> DEFINE q == request[r]
           t == q.table
           n == Cardinality(S)
           row(c, place) == [made |-> c, no |-> rowNo + place[c], batch |-> r, seen |-> q.seen,
                             position |-> q.from + place[c] - 1]
           added(place) == {row(c, place) : c \in {d \in S : d.key \notin q.taken}}
<1>1. Fits(q) /\ q.at = "insert" /\ t \in Suggest!Tables
  BY DEF SugInv, Fits
<1>2. IsFiniteSet(S) /\ n \in Nat /\ Suggest!Orders(S) # {} /\ Suggest!Cardinality(S) = n
  BY <1>1, FS_Subset, OrdersExist, SuggestFinites DEF Fits
<1>3. PICK place \in Suggest!Orders(S) :
        /\ rowNo' = rowNo + Suggest!Cardinality(S)
        /\ tables' = [tables EXCEPT ![t] = @ \cup added(place)]
  <2>1. (CHOOSE f \in Suggest!Orders(S) : TRUE) \in Suggest!Orders(S)
    BY <1>2
  <2>2. PICK place \in IF request[r].table = "charts" THEN Suggest!Orders(S)
                       ELSE {CHOOSE f \in Suggest!Orders(S) : TRUE} :
          /\ rowNo' = rowNo + Suggest!Cardinality(S)
          /\ tables' = [tables EXCEPT ![t] = @ \cup added(place)]
    BY DEF Suggest!Write
  <2>3. place \in Suggest!Orders(S)
    BY <2>1, <2>2
  <2> HIDE DEF added
  <2> QED
    BY <2>2, <2>3
<1>4. /\ place \in [S -> 1 .. n] /\ \A c, d \in S : place[c] = place[d] => c = d
  BY <1>2 DEF Suggest!Orders
<1> DEFINE new == added(place)
<1>5. /\ rowNo \in Nat /\ rowNo' = rowNo + n /\ rowNo' \in Nat /\ rowNo <= rowNo'
      /\ DOMAIN tables' = Suggest!Tables /\ tables'[t] = tables[t] \cup new
      /\ \A u \in Suggest!Tables \ {t} : tables'[u] = tables[u]
  BY <1>1, <1>2, <1>3 DEF SugInv
<1>6. /\ DOMAIN request' = Makers /\ request'[r] = [at |-> "done"]
      /\ \A s \in Makers \ {r} : request'[s] = request[s]
  BY DEF Suggest!Go, SugInv
<1>7. \A x \in new : \E c \in S :
          /\ x = row(c, place) /\ c.key \notin q.taken
  OBVIOUS
<1>8. \A c \in S : /\ row(c, place).made = c /\ row(c, place).batch = r /\ row(c, place).seen = q.seen
                   /\ row(c, place).no = rowNo + place[c] /\ row(c, place).position = q.from + place[c] - 1
  OBVIOUS
<1>9. \A x \in new : \E c \in S :
          /\ x = row(c, place) /\ c.key \notin q.taken
          /\ x.made = c /\ x.batch = r /\ x.seen = q.seen
          /\ x.no = rowNo + place[c] /\ x.position = q.from + place[c] - 1
  BY <1>7, <1>8
<1>10. IsFiniteSet(new)
  <2> DEFINE some == {d \in S : d.key \notin q.taken}
             f == [c \in some |-> row(c, place)]
  <2>1. IsFiniteSet(some)
    BY <1>2, FS_Subset
  <2>2. f \in [some -> new] /\ \A y \in new : \E x \in some : f[x] = y
    OBVIOUS
  <2> HIDE DEF some, new, f
  <2> QED
    BY <2>1, <2>2, ImageIsFinite
<1> HIDE DEF new, row, added, q, t, n
<1>11. \A x \in new :
          /\ x.no \in Nat /\ x.no > rowNo /\ x.no <= rowNo' /\ x.seen \subseteq 1 .. rowNo
          /\ x.position \in Nat /\ x.position >= q.from /\ x.batch = r /\ x.seen = q.seen
          /\ x.made \in S /\ x.made.key \notin q.taken
  <2>1. q.from \in Nat /\ q.seen \subseteq 1 .. rowNo
    BY <1>1 DEF Fits
  <2>2. \A c \in S : place[c] \in Nat /\ place[c] >= 1 /\ place[c] <= n
    BY <1>2, <1>4
  <2> QED
    BY <1>2, <1>5, <1>9, <2>1, <2>2
<1>12. \A x, y \in new : x # y => x.made # y.made /\ x.position # y.position
  <2>1. SUFFICES ASSUME NEW x \in new, NEW y \in new, x # y
                 PROVE  x.made # y.made /\ x.position # y.position
    OBVIOUS
  <2>2. PICK c \in S : x = row(c, place) /\ x.made = c /\ x.position = q.from + place[c] - 1
    BY <1>9
  <2>3. PICK d \in S : y = row(d, place) /\ y.made = d /\ y.position = q.from + place[d] - 1
    BY <1>9
  <2>4. c # d
    BY <2>1, <2>2, <2>3
  <2>5. place[c] # place[d] /\ place[c] \in Nat /\ place[d] \in Nat /\ q.from \in Nat
    BY <1>1, <1>2, <1>4, <2>4 DEF Fits
  <2> QED
    BY <2>2, <2>3, <2>4, <2>5
<1>13. RowsNumbered'
  <2>1. ASSUME NEW u \in Suggest!Tables PROVE IsFiniteSet(tables'[u])
    <3>1. IsFiniteSet(tables[u])
      BY DEF SugInv, RowsNumbered
    <3>2. IsFiniteSet(tables[u] \cup new)
      BY <1>10, <3>1, FS_Union
    <3> QED
      BY <1>5, <3>1, <3>2
  <2>2. ASSUME NEW u \in Suggest!Tables, NEW x \in tables[u]
        PROVE  /\ x.no \in 1 .. rowNo' /\ x.seen \subseteq 1 .. rowNo' /\ x.position \in Nat
               /\ x.batch \in Makers /\ request'[x.batch].at = "done"
    <3>1. /\ x.no \in 1 .. rowNo /\ x.seen \subseteq 1 .. rowNo /\ x.position \in Nat
          /\ x.batch \in Makers /\ request[x.batch].at = "done"
      BY DEF SugInv, RowsNumbered
    <3> QED
      BY <1>5, <1>6, <3>1
  <2>3. ASSUME NEW x \in new
        PROVE  /\ x.no \in 1 .. rowNo' /\ x.seen \subseteq 1 .. rowNo' /\ x.position \in Nat
               /\ x.batch \in Makers /\ request'[x.batch].at = "done"
    BY <1>5, <1>6, <1>11
  <2> QED
    BY <1>5, <2>1, <2>2, <2>3 DEF RowsNumbered
<1>14. ASSUME NEW s \in Makers, request'[s].at \in {"look", "insert"} PROVE Fits(request[s])'
  <2>1. s # r
    BY <1>6, <1>14
  <2>2. request'[s] = request[s] /\ Fits(request[s])
    BY <1>6, <1>14, <2>1 DEF SugInv
  <2>3. \A u \in Suggest!Tables : \A x \in tables'[u] : x \in tables[u] \/ x.no > rowNo
    BY <1>5, <1>11
  <2> QED
    BY <1>5, <2>2, <2>3, FitsStays
<1>15. Suggest!MadeOnce'
  <2> DEFINE Apart(x, y) == x.batch # y.batch /\ x.no \notin y.seen /\ y.no \notin x.seen
             Twice(u, x, y) == SameKind(u, x.made, y.made) \/ (u = "charts" /\ x.position = y.position)
  <2>1. ASSUME NEW x \in tables[t], NEW y \in new, Twice(t, x, y) PROVE Apart(x, y)
    <3>1. /\ x.no \in 1 .. rowNo /\ x.seen \subseteq 1 .. rowNo /\ x.position \in Nat
          /\ x.batch \in Makers /\ request[x.batch].at = "done"
      BY <1>1 DEF SugInv, RowsNumbered
    <3>2. x.batch # y.batch /\ y.no \notin x.seen
      BY <1>1, <1>5, <1>11, <3>1 DEF q
    <3>3. SameKind(t, x.made, y.made) => x.no \notin y.seen
      BY <1>1, <1>11 DEF Fits, SameKind, t, q
    <3>4. t = "charts" /\ x.position = y.position => x.no \notin y.seen
      <4>1. SUFFICES ASSUME t = "charts", x.position = y.position, x.no \in q.seen PROVE FALSE
        BY <1>11
      <4>2. x.position < q.from /\ q.from \in Nat
        BY <1>1, <4>1 DEF Fits, t
      <4> QED
        BY <1>11, <3>1, <4>1, <4>2
    <3> QED
      BY <2>1, <3>2, <3>3, <3>4
  <2>2. ASSUME NEW x \in new, NEW y \in new, x # y PROVE ~ Twice(t, x, y)
    BY <1>11, <1>12, <2>2 DEF SameKind
  <2>3. \A u \in Suggest!Tables : \A x, y \in tables[u] : x # y /\ Twice(u, x, y) => Apart(x, y)
    BY DEF SugInv, Suggest!MadeOnce, SameKind
  <2>4. \A x, y : (Twice(t, x, y) => Twice(t, y, x)) /\ (Apart(x, y) => Apart(y, x))
    BY DEF SameKind
  <2> HIDE DEF Twice, Apart
  <2>5. \A u \in Suggest!Tables : \A x, y \in tables'[u] : x # y /\ Twice(u, x, y) => Apart(x, y)
    BY <1>5, <2>1, <2>2, <2>3, <2>4
  <2> QED
    BY <2>5 DEF Suggest!MadeOnce, SameKind, Twice, Apart
<1>16. \A x \in tables'["metrics"] : Alarms(x.made)
  <2>1. \A x \in tables["metrics"] : Alarms(x.made)
    BY DEF SugInv
  <2>2. t = "metrics" => \A x \in new : Alarms(x.made)
    BY <1>1, <1>11 DEF Fits, t, q
  <2>3. "metrics" \in Suggest!Tables
    BY DEF Suggest!Tables
  <2> QED
    BY <1>5, <2>1, <2>2, <2>3
<1> QED
  BY <1>5, <1>6, <1>13, <1>14, <1>15, <1>16 DEF SugInv

LEMMA RulesAreCreated ==
  ASSUME SugInv, NEW r \in Makers, Suggest!Create(r)
  PROVE  SugInv'
<1>1. /\ request[r].at = "insert" /\ Suggest!Go(r, [at |-> "done"])
      /\ \E P \in Suggest!OneOfEach(request[r].todo) :
            \/ Suggest!Write(r, P)
            \/ \E Q \in SUBSET P \ {P} : Suggest!Write(r, Q)
            \/ UNCHANGED <<tables, rowNo>>
  BY DEF Suggest!Create
<1>2. PICK P \in Suggest!OneOfEach(request[r].todo) :
            \/ \E Q \in SUBSET P : Suggest!Write(r, Q)
            \/ UNCHANGED <<tables, rowNo>>
  BY <1>1
<1>3. P \in SUBSET request[r].todo /\ \A c, d \in P : c.key = d.key => c = d
  BY DEF Suggest!OneOfEach
<1>4. CASE \E Q \in SUBSET P : Suggest!Write(r, Q)
  <2>1. PICK Q \in SUBSET P : Suggest!Write(r, Q)
    BY <1>4
  <2>2. Q \in SUBSET request[r].todo /\ \A c, d \in Q : c.key = d.key => c = d
    BY <1>3
  <2> QED
    BY <1>1, <2>1, <2>2, RowsAreWritten
<1>5. CASE UNCHANGED <<tables, rowNo>>
  <2>1. [at |-> "done"].at = "done"
    OBVIOUS
  <2> QED
    BY <1>1, <1>5, <2>1, RequestMoves
<1> QED
  BY <1>2, <1>4, <1>5

LEMMA RowIsDeleted ==
  ASSUME SugInv, Suggest!Delete
  PROVE  SugInv'
<1>1. PICK t \in Suggest!Tables : \E x \in tables[t] : tables' = [tables EXCEPT ![t] = @ \ {x}]
  BY DEF Suggest!Delete
<1>2. /\ UNCHANGED <<request, rowNo>> /\ DOMAIN tables' = Suggest!Tables /\ rowNo \in Nat
      /\ \A u \in Suggest!Tables : tables'[u] \in SUBSET tables[u]
  BY <1>1 DEF Suggest!Delete, SugInv
<1>3. \A u \in Suggest!Tables : IsFiniteSet(tables'[u])
  BY <1>2, FS_Subset DEF SugInv, RowsNumbered
<1>4. RowsNumbered'
  BY <1>2, <1>3 DEF SugInv, RowsNumbered
<1>5. \A r \in Makers : request'[r].at \in {"look", "insert"} => Fits(request[r])'
  BY <1>2, FitsStays DEF SugInv
<1>6. Suggest!MadeOnce'
  BY <1>2 DEF SugInv, Suggest!MadeOnce
<1>7. \A y \in tables'["metrics"] : Alarms(y.made)
  BY <1>2 DEF SugInv, Suggest!Tables
<1> QED
  BY <1>2, <1>4, <1>5, <1>6, <1>7 DEF SugInv

\* However many requests overlap, reads fail and rows are deleted: nothing is made twice
\* that a request had read, and metric rules alarm beyond where they warn
\* (handleMetricsRulesAutoPreview).
THEOREM SuggestionsAreKept ==
  Suggest!SuggestionsAssumption /\ Suggest!Spec => [](Suggest!MadeOnce /\ Suggest!AlarmsBeyondWarnings)
<1> SUFFICES ASSUME Suggest!SuggestionsAssumption
             PROVE  Suggest!Spec => [](Suggest!MadeOnce /\ Suggest!AlarmsBeyondWarnings)
  OBVIOUS
<1>1. Suggest!Init => SugInv
  <2> SUFFICES ASSUME Suggest!Init PROVE SugInv
    OBVIOUS
  <2>1. /\ \A t \in Suggest!Tables : tables[t] = {}
        /\ DOMAIN tables = Suggest!Tables /\ DOMAIN request = Makers /\ rowNo = 0
        /\ \A r \in Makers : request[r].at = "idle"
    BY DEF Suggest!Init
  <2>2. RowsNumbered
    BY <2>1, FS_EmptySet DEF RowsNumbered
  <2> QED
    BY <2>1, <2>2 DEF SugInv, Suggest!MadeOnce, Suggest!Tables
<1>2. SugInv /\ [Suggest!Next]_Suggest!vars => SugInv'
  <2> SUFFICES ASSUME SugInv, [Suggest!Next]_Suggest!vars PROVE SugInv'
    OBVIOUS
  <2>1. CASE UNCHANGED Suggest!vars
    <3>1. UNCHANGED <<tables, request, rowNo>>
      BY <2>1 DEF Suggest!vars
    <3> QED
      BY <3>1 DEF SugInv, RowsNumbered, Fits, Suggest!MadeOnce
  <2>2. ASSUME NEW r \in Makers, Suggest!Preview(r) PROVE SugInv'
    <3>1. [at |-> "done"].at = "done"
      OBVIOUS
    <3> QED
      BY <2>2, <3>1, RequestMoves DEF Suggest!Preview
  <2> QED
    BY <2>1, <2>2, RulesAreProposed, RowsAreLookedAt, RulesAreCreated, RowIsDeleted DEF Suggest!Next
<1>3. SugInv => Suggest!MadeOnce /\ Suggest!AlarmsBeyondWarnings
  BY DEF SugInv, Alarms, Suggest!AlarmsBeyondWarnings
<1> QED
  BY <1>1, <1>2, <1>3, PTL DEF Suggest!Spec

-----------------------------------------------------------------------------
(* The cache of attribute keys.                                            *)

LEMMA KeysCount == \A S : Attrs!Cardinality(S) = Cardinality(S)
BY DEF Attrs!Cardinality, Cardinality

LEMMA FinitesAgree == \A S : Attrs!IsFiniteSet(S) <=> IsFiniteSet(S)
BY DEF Attrs!IsFiniteSet, IsFiniteSet

\* Of a finite set that is numbered without gaps by how many are ahead of an element,
\* the first M are M.
LEMMA RanksCount ==
  ASSUME NEW S, IsFiniteSet(S), NEW M \in Nat, NEW rank \in [S -> Nat],
         \A x \in S : rank[x] = Cardinality({y \in S : rank[y] < rank[x]}),
         \A x, y \in S : rank[x] = rank[y] => x = y,
         NEW k \in S, rank[k] >= M
  PROVE  Cardinality({x \in S : rank[x] < M}) = M
<1> DEFINE n == Cardinality(S)
           N == 0 .. n - 1
           Below == {y \in S : rank[y] < rank[k]}
           F == {x \in S : rank[x] < M}
<1>1. n \in Nat
  BY FS_CardinalityType
<1>2. \A x \in S : rank[x] < n
  <2>1. SUFFICES ASSUME NEW x \in S PROVE rank[x] < n
    OBVIOUS
  <2>2. {y \in S : rank[y] < rank[x]} \in SUBSET S /\ x \notin {y \in S : rank[y] < rank[x]}
    OBVIOUS
  <2>3. /\ Cardinality({y \in S : rank[y] < rank[x]}) <= n
        /\ n = Cardinality({y \in S : rank[y] < rank[x]}) => S = {y \in S : rank[y] < rank[x]}
    BY <2>2, FS_Subset
  <2> QED
    BY <1>1, <2>2, <2>3
<1>3. rank \in Injection(S, N)
  BY <1>1, <1>2 DEF Injection, IsInjective
<1>4. IsFiniteSet(N) /\ Cardinality(N) = n
  <2>1. 0 \in Int /\ n - 1 \in Int /\ (IF 0 > n - 1 THEN 0 ELSE n - 1 - 0 + 1) = n
    BY <1>1
  <2> HIDE DEF n
  <2> QED
    BY <2>1, FS_Interval
<1>5. rank \in Surjection(S, N)
  BY <1>3, <1>4, FS_Injection
<1>6. M < n
  BY <1>1, <1>2
<1>7. \A i \in 0 .. M - 1 : \E x \in S : rank[x] = i
  BY <1>1, <1>5, <1>6 DEF Surjection
<1>8. IsFiniteSet(F)
  BY FS_Subset
<1>9. IsFiniteSet(0 .. M - 1) /\ Cardinality(0 .. M - 1) = M
  <2>1. 0 \in Int /\ M - 1 \in Int /\ (IF 0 > M - 1 THEN 0 ELSE M - 1 - 0 + 1) = M
    OBVIOUS
  <2> QED
    BY <2>1, FS_Interval
<1>10. [x \in F |-> rank[x]] \in Bijection(F, 0 .. M - 1)
  BY <1>7 DEF Bijection, Injection, Surjection, IsInjective
<1>11. ExistsBijection(F, 0 .. M - 1)
  BY <1>10 DEF ExistsBijection
<1> QED
  BY <1>8, <1>9, <1>11, FS_Bijection

\* What is shown is ranked: those that start with what was typed, then the others,
\* each by their numbers.
LEMMA BestAreFirst ==
  ASSUME Attrs!AttrKeysAssumption, NEW typed_ \in Typed \cup {Attrs!NoHint.typed},
         NEW keys, keys \subseteq AttrKeyNames, IsFiniteSet(keys),
         NEW k \in Attrs!Fitting(keys, typed_) \ Attrs!Best(keys, typed_)
  PROVE  /\ Cardinality(Attrs!Best(keys, typed_)) = ShowMax
         /\ k \in typed_.starts => Attrs!Best(keys, typed_) \subseteq typed_.starts
<1> DEFINE S == Attrs!Fitting(keys, typed_)
           Ahead(x) == {y \in S : Attrs!Before(y, x, typed_)}
           B == Attrs!Best(keys, typed_)
           rank == [x \in S |-> Cardinality(Ahead(x))]
<1>1. S \subseteq Nat /\ IsFiniteSet(S) /\ ShowMax \in Nat
  BY FS_Subset DEF Attrs!Fitting, Attrs!AttrKeysAssumption
<1>2. B = {x \in S : Cardinality(Ahead(x)) < ShowMax}
  BY KeysCount DEF Attrs!Best, Attrs!Ahead
<1>3. \A x \in S : IsFiniteSet(Ahead(x)) /\ Cardinality(Ahead(x)) \in Nat
  BY <1>1, FS_Subset, FS_CardinalityType
<1>4. \A x, y \in S : /\ Attrs!Before(x, y, typed_) \/ x = y \/ Attrs!Before(y, x, typed_)
                      /\ ~ Attrs!Before(x, x, typed_)
  BY <1>1 DEF Attrs!Before
<1>5. \A x, y, z \in S : Attrs!Before(x, y, typed_) /\ Attrs!Before(y, z, typed_)
                             => Attrs!Before(x, z, typed_)
  BY <1>1 DEF Attrs!Before
<1>6. \A x, y \in S : Attrs!Before(x, y, typed_) => Cardinality(Ahead(x)) < Cardinality(Ahead(y))
  <2>1. SUFFICES ASSUME NEW x \in S, NEW y \in S, Attrs!Before(x, y, typed_)
                 PROVE  Cardinality(Ahead(x)) < Cardinality(Ahead(y))
    OBVIOUS
  <2>2. Ahead(x) \subseteq Ahead(y) /\ x \in Ahead(y) /\ x \notin Ahead(x)
    BY <1>4, <1>5, <2>1
  <2>3. /\ Cardinality(Ahead(x)) <= Cardinality(Ahead(y))
        /\ Cardinality(Ahead(y)) = Cardinality(Ahead(x)) => Ahead(x) = Ahead(y)
    BY <1>3, <2>2, FS_Subset
  <2> QED
    BY <1>3, <2>2, <2>3
<1>7. rank \in [S -> Nat] /\ \A x \in S : rank[x] = Cardinality(Ahead(x))
  BY <1>3
<1>8. \A x, y \in S : Attrs!Before(x, y, typed_) <=> rank[x] < rank[y]
  BY <1>3, <1>4, <1>6, <1>7
<1>9. \A x \in S : Ahead(x) = {y \in S : rank[y] < rank[x]}
  BY <1>8
<1>10. \A x, y \in S : rank[x] = rank[y] => x = y
  BY <1>4, <1>7, <1>8
<1>11. k \in S /\ rank[k] >= ShowMax
  BY <1>1, <1>2, <1>3, <1>7
<1>12. \A x \in S : rank[x] = Cardinality({y \in S : rank[y] < rank[x]})
  BY <1>7, <1>9
<1>13. B = {x \in S : rank[x] < ShowMax}
  BY <1>2, <1>7
<1> HIDE DEF rank, B, S
<1>14. Cardinality(B) = ShowMax
  BY <1>1, <1>7, <1>10, <1>11, <1>12, <1>13, RanksCount
<1>15. ASSUME k \in typed_.starts, NEW b \in B PROVE b \in typed_.starts
  <2>1. b \in S /\ rank[b] < rank[k] /\ rank[b] \in Nat
    BY <1>1, <1>7, <1>11, <1>13
  <2>2. Attrs!Before(b, k, typed_)
    BY <1>8, <1>11, <2>1
  <2> QED
    BY <1>15, <2>2 DEF Attrs!Before
<1> QED
  BY <1>14, <1>15 DEF B

\* What the table and the cache hold.
AttrTypes ==
    /\ recorded \in [Attrs!attrKeyRecordTypes -> SUBSET AttrKeyNames]
    /\ byType \in [Attrs!attrKeyRecordTypes -> SUBSET AttrKeyNames]
    /\ \A t \in Attrs!attrKeyRecordTypes : IsFiniteSet(recorded[t])
    /\ loaded \in BOOLEAN /\ unread \subseteq missed
\* A cache that is not loaded is empty; a type whose reads never failed keeps to the
\* limit, as the cache is then the table.
CacheFollows ==
    /\ ~loaded => byType = Attrs!Nothing /\ unread = {}
    /\ \A t \in Attrs!attrKeyRecordTypes :
           /\ byType[t] \subseteq recorded[t]
           /\ loaded /\ t \notin unread => byType[t] = recorded[t]
           /\ t \notin missed => Cardinality(recorded[t]) <= MaxTracked
AttrInv == AttrTypes /\ CacheFollows /\ Attrs!BestAreShown

\* The cache after it is primed: the table, but for what could not be read.
LEMMA CacheIsPrimed ==
  ASSUME AttrTypes, CacheFollows, NEW blind \in SUBSET Attrs!attrKeyRecordTypes,
         Attrs!Primes(blind)
  PROVE  /\ Attrs!prime(blind) \in [Attrs!attrKeyRecordTypes -> SUBSET AttrKeyNames]
         /\ loaded' = TRUE /\ unread' \subseteq missed' /\ missed \subseteq missed'
         /\ \A t \in Attrs!attrKeyRecordTypes :
                /\ Attrs!prime(blind)[t] \subseteq recorded[t]
                /\ t \notin unread' => Attrs!prime(blind)[t] = recorded[t]
BY DEF AttrTypes, CacheFollows, Attrs!Primes, Attrs!prime

\* Rows that are inserted bring as many new keys as there is room for.
LEMMA RoomIsKept ==
  ASSUME Attrs!AttrKeysAssumption, NEW existing, IsFiniteSet(existing),
         NEW keys, IsFiniteSet(keys), NEW new \in Attrs!candidates(existing, keys)
  PROVE  /\ new \subseteq keys /\ IsFiniteSet(new)
         /\ Cardinality(existing) <= MaxTracked => Cardinality(existing \cup new) <= MaxTracked
<1> DEFINE fresh == keys \ existing
           room == MaxTracked - Cardinality(existing)
<1>1. IsFiniteSet(fresh) /\ Cardinality(fresh) \in Nat /\ Cardinality(existing) \in Nat
  BY FS_Subset, FS_CardinalityType
<1>2. MaxTracked \in Nat
  BY DEF Attrs!AttrKeysAssumption
<1>3. CASE room <= 0
  <2>1. new = {}
    BY <1>3, KeysCount DEF Attrs!candidates
  <2>2. existing \cup new = existing /\ IsFiniteSet(new) /\ new \subseteq keys
    BY <2>1, FS_EmptySet
  <2> QED
    BY <2>2
<1>4. CASE ~ room <= 0
  <2>1. new \in Attrs!kSubset(IF Cardinality(fresh) <= room THEN Cardinality(fresh) ELSE room, fresh)
    BY <1>4, KeysCount DEF Attrs!candidates
  <2>2. /\ new \in SUBSET fresh
        /\ Cardinality(new) = IF Cardinality(fresh) <= room THEN Cardinality(fresh) ELSE room
    BY <2>1, KeysCount DEF Attrs!kSubset
  <2>3. IsFiniteSet(new) /\ existing \cap new = {} /\ new \subseteq keys
    BY <1>1, <2>2, FS_Subset
  <2>4. Cardinality(existing \cup new)
          = Cardinality(existing) + Cardinality(new) - Cardinality(existing \cap new)
    BY <2>3, FS_Union
  <2>5. Cardinality(existing \cap new) = 0
    BY <2>3, FS_EmptySet
  <2> QED
    BY <1>1, <1>2, <2>2, <2>3, <2>4, <2>5
<1> QED
  BY <1>3, <1>4

LEMMA KeysAreRemembered ==
  ASSUME Attrs!AttrKeysAssumption, AttrInv, NEW batch \in Batches, Attrs!rememberAttrKeys(batch)
  PROVE  AttrInv'
<1>1. PICK blind \in SUBSET Attrs!attrKeyRecordTypes, fails \in BOOLEAN :
        \E new \in Attrs!candidates(Attrs!prime(blind)[batch.type], batch.keys) :
        /\ Attrs!Primes(blind) /\ UNCHANGED hinted
        /\ recorded' = IF fails THEN recorded ELSE [recorded EXCEPT ![batch.type] = @ \cup new]
        /\ byType' = Attrs!remembered(Attrs!prime(blind), batch.type, new, fails)
  BY DEF Attrs!rememberAttrKeys
<1>0. PICK new \in Attrs!candidates(Attrs!prime(blind)[batch.type], batch.keys) :
        /\ Attrs!Primes(blind) /\ UNCHANGED hinted
        /\ recorded' = IF fails THEN recorded ELSE [recorded EXCEPT ![batch.type] = @ \cup new]
        /\ byType' = Attrs!remembered(Attrs!prime(blind), batch.type, new, fails)
  BY <1>1
<1> DEFINE known == Attrs!prime(blind)
           t == batch.type
<1>2. AttrTypes /\ CacheFollows
  BY DEF AttrInv
<1>3. /\ known \in [Attrs!attrKeyRecordTypes -> SUBSET AttrKeyNames]
      /\ loaded' = TRUE /\ unread' \subseteq missed' /\ missed \subseteq missed'
      /\ \A u \in Attrs!attrKeyRecordTypes :
             known[u] \subseteq recorded[u] /\ (u \notin unread' => known[u] = recorded[u])
  BY <1>0, <1>2, CacheIsPrimed
<1>4. t \in Attrs!attrKeyRecordTypes /\ batch.keys \subseteq AttrKeyNames /\ IsFiniteSet(batch.keys)
  BY FinitesAgree DEF Attrs!AttrKeysAssumption
<1>5. IsFiniteSet(known[t])
  BY <1>2, <1>3, <1>4, FS_Subset DEF AttrTypes
<1>6. /\ new \subseteq batch.keys /\ IsFiniteSet(new)
      /\ Cardinality(known[t]) <= MaxTracked => Cardinality(known[t] \cup new) <= MaxTracked
  BY <1>0, <1>4, <1>5, RoomIsKept
<1>7. byType' = IF fails THEN known ELSE [known EXCEPT ![t] = @ \cup new]
  BY <1>0 DEF Attrs!remembered
<1> HIDE DEF known, t
<1>8. CASE fails
  <2>1. recorded' = recorded /\ byType' = known
    BY <1>0, <1>7, <1>8
  <2>2. AttrTypes'
    BY <1>2, <1>3, <2>1 DEF AttrTypes
  <2>3. CacheFollows'
    BY <1>2, <1>3, <2>1 DEF CacheFollows
  <2> QED
    BY <1>0, <2>2, <2>3 DEF AttrInv, Attrs!BestAreShown
<1>9. CASE ~fails
  <2>1. recorded' = [recorded EXCEPT ![t] = @ \cup new] /\ byType' = [known EXCEPT ![t] = @ \cup new]
    BY <1>0, <1>7, <1>9 DEF t
  <2>2. /\ recorded'[t] = recorded[t] \cup new /\ byType'[t] = known[t] \cup new
        /\ \A u \in Attrs!attrKeyRecordTypes \ {t} : recorded'[u] = recorded[u] /\ byType'[u] = known[u]
        /\ recorded' \in [Attrs!attrKeyRecordTypes -> SUBSET AttrKeyNames]
        /\ byType' \in [Attrs!attrKeyRecordTypes -> SUBSET AttrKeyNames]
    BY <1>2, <1>3, <1>4, <1>6, <2>1 DEF AttrTypes
  <2>3. \A u \in Attrs!attrKeyRecordTypes : IsFiniteSet(recorded'[u])
    <3>1. IsFiniteSet(recorded[t] \cup new)
      BY <1>2, <1>4, <1>6, FS_Union DEF AttrTypes
    <3> QED
      BY <1>2, <2>2, <3>1 DEF AttrTypes
  <2>4. AttrTypes'
    BY <1>3, <2>2, <2>3 DEF AttrTypes
  <2>5. t \notin missed' => Cardinality(recorded'[t]) <= MaxTracked
    <3>1. SUFFICES ASSUME t \notin missed' PROVE Cardinality(recorded'[t]) <= MaxTracked
      OBVIOUS
    <3>2. known[t] = recorded[t] /\ t \notin missed
      BY <1>3, <1>4, <3>1
    <3>3. Cardinality(recorded[t]) <= MaxTracked
      BY <1>2, <1>4, <3>2 DEF CacheFollows
    <3> QED
      BY <1>6, <2>2, <3>2, <3>3
  <2>6. ASSUME NEW u \in Attrs!attrKeyRecordTypes
        PROVE  /\ byType'[u] \subseteq recorded'[u]
               /\ u \notin unread' => byType'[u] = recorded'[u]
               /\ u \notin missed' => Cardinality(recorded'[u]) <= MaxTracked
    BY <1>2, <1>3, <2>2, <2>5 DEF CacheFollows
  <2>7. CacheFollows'
    BY <1>3, <2>6 DEF CacheFollows
  <2> QED
    BY <1>0, <2>4, <2>7 DEF AttrInv, Attrs!BestAreShown
<1> QED
  BY <1>8, <1>9

LEMMA KeysAreProposed ==
  ASSUME Attrs!AttrKeysAssumption, AttrInv, NEW typed_ \in Typed,
         Attrs!tagRuleAttributeKeySuggestions(typed_)
  PROVE  AttrInv'
<1>1. PICK blind \in SUBSET Attrs!attrKeyRecordTypes :
        /\ Attrs!Primes(blind) /\ UNCHANGED recorded /\ byType' = Attrs!prime(blind)
        /\ hinted' = [typed |-> typed_,
                      known |-> UNION {recorded[t] : t \in Attrs!attrKeyRecordTypes \ unread'},
                      keys |-> Attrs!Best(UNION {Attrs!prime(blind)[t] : t \in Attrs!attrKeyRecordTypes}, typed_)]
  BY DEF Attrs!tagRuleAttributeKeySuggestions
<1> DEFINE known == Attrs!prime(blind)
           all == UNION {known[t] : t \in Attrs!attrKeyRecordTypes}
           read == UNION {recorded[t] : t \in Attrs!attrKeyRecordTypes \ unread'}
<1>2. AttrTypes /\ CacheFollows
  BY DEF AttrInv
<1>3. /\ known \in [Attrs!attrKeyRecordTypes -> SUBSET AttrKeyNames]
      /\ loaded' = TRUE /\ unread' \subseteq missed' /\ missed \subseteq missed'
      /\ \A u \in Attrs!attrKeyRecordTypes :
             known[u] \subseteq recorded[u] /\ (u \notin unread' => known[u] = recorded[u])
  BY <1>1, <1>2, CacheIsPrimed
<1>4. AttrTypes'
  BY <1>1, <1>2, <1>3 DEF AttrTypes
<1>5. CacheFollows'
  BY <1>1, <1>2, <1>3 DEF CacheFollows
<1>6. all \subseteq AttrKeyNames /\ IsFiniteSet(all)
  <2>1. all = ((known["log"] \cup known["span"]) \cup known["resource"]) \cup known["scope"]
    BY DEF Attrs!attrKeyRecordTypes
  <2>2. \A u \in Attrs!attrKeyRecordTypes : IsFiniteSet(known[u]) /\ known[u] \subseteq AttrKeyNames
    BY <1>2, <1>3, FS_Subset DEF AttrTypes
  <2>3. IsFiniteSet(known["log"]) /\ IsFiniteSet(known["span"]) /\ IsFiniteSet(known["resource"])
        /\ IsFiniteSet(known["scope"])
    BY <2>2 DEF Attrs!attrKeyRecordTypes
  <2> HIDE DEF all, known
  <2>4. IsFiniteSet(known["log"] \cup known["span"])
    BY <2>3, FS_Union
  <2>5. IsFiniteSet((known["log"] \cup known["span"]) \cup known["resource"])
    BY <2>3, <2>4, FS_Union
  <2>6. IsFiniteSet(((known["log"] \cup known["span"]) \cup known["resource"]) \cup known["scope"])
    BY <2>3, <2>5, FS_Union
  <2>7. \A u \in Attrs!attrKeyRecordTypes : known[u] \subseteq AttrKeyNames
    BY <1>2, <1>3 DEF AttrTypes
  <2>8. all \subseteq AttrKeyNames
    BY <2>1, <2>7 DEF Attrs!attrKeyRecordTypes
  <2> QED
    BY <2>1, <2>6, <2>8
<1>7. read \subseteq all
  BY <1>3
<1> DEFINE B == Attrs!Best(all, typed_)
           left == Attrs!Fitting(read, typed_) \ B
<1>8. hinted'.typed = typed_ /\ hinted'.known = read /\ hinted'.keys = B
  BY <1>1
<1>9. \A k \in left : k \in Attrs!Fitting(all, typed_) \ B
  BY <1>7 DEF Attrs!Fitting
<1> HIDE DEF all, read
<1>10. \A k \in left : Cardinality(B) = ShowMax /\ (k \in typed_.starts => B \subseteq typed_.starts)
  BY <1>6, <1>9, BestAreFirst
<1>11. Attrs!BestAreShown'
  BY <1>8, <1>10, KeysCount DEF Attrs!BestAreShown, Attrs!Fitting
<1> QED
  BY <1>4, <1>5, <1>11 DEF AttrInv

\* The cache of attribute keys is what its table holds, but for what a read missed, and
\* what is proposed are the keys that fit best (rememberAttrKeys,
\* tagRuleAttributeKeySuggestions).
THEOREM KeysAreKnown ==
  Attrs!AttrKeysAssumption /\ Attrs!Spec => [](Attrs!CacheIsTable /\ Attrs!BestAreShown)
<1> SUFFICES ASSUME Attrs!AttrKeysAssumption
             PROVE  Attrs!Spec => [](Attrs!CacheIsTable /\ Attrs!BestAreShown)
  OBVIOUS
<1>1. Attrs!Init => AttrInv
  <2> SUFFICES ASSUME Attrs!Init PROVE AttrInv
    OBVIOUS
  <2>1. IsFiniteSet({}) /\ Cardinality({}) = 0 /\ 0 <= MaxTracked
    BY FS_EmptySet DEF Attrs!AttrKeysAssumption
  <2>2. AttrTypes /\ CacheFollows
    BY <2>1 DEF Attrs!Init, Attrs!Nothing, AttrTypes, CacheFollows
  <2> QED
    BY <2>2 DEF AttrInv, Attrs!BestAreShown, Attrs!Init, Attrs!NoHint, Attrs!Fitting
<1>2. AttrInv /\ [Attrs!Next]_Attrs!vars => AttrInv'
  <2> SUFFICES ASSUME AttrInv, [Attrs!Next]_Attrs!vars PROVE AttrInv'
    OBVIOUS
  <2>1. CASE Attrs!Restart
    <3>1. AttrTypes /\ CacheFollows
      BY DEF AttrInv
    <3>2. UNCHANGED <<recorded, missed, hinted>> /\ byType' = Attrs!Nothing /\ loaded' = FALSE
          /\ unread' = {}
      BY <2>1 DEF Attrs!Restart
    <3>3. AttrTypes' /\ CacheFollows'
      BY <3>1, <3>2 DEF AttrTypes, CacheFollows, Attrs!Nothing
    <3> QED
      BY <3>2, <3>3 DEF AttrInv, Attrs!BestAreShown
  <2>2. CASE UNCHANGED Attrs!vars
    BY <2>2 DEF Attrs!vars, AttrInv, AttrTypes, CacheFollows, Attrs!BestAreShown
  <2> QED
    BY <2>1, <2>2, KeysAreRemembered, KeysAreProposed DEF Attrs!Next
<1>3. AttrInv => Attrs!CacheIsTable /\ Attrs!BestAreShown
  BY KeysCount DEF AttrInv, CacheFollows, Attrs!CacheIsTable
<1> QED
  BY <1>1, <1>2, <1>3, PTL DEF Attrs!Spec

-----------------------------------------------------------------------------
(* Visitors.                                                               *)

\* The part counts as this module does.
LEMMA VisitorsCount == \A S : Visitors!Cardinality(S) = Cardinality(S)
BY DEF Visitors!Cardinality, Cardinality

\* The events a session has of those that were there, and the countries of visitors.
Mine(E, type, key) == {e \in E : type \in {"", e.type} /\ Visitors!rumSessionKeySQL(e) = key}
From(E, c, geo) == {e \in E : Visitors!countryOf(e.ip, geo) = c}
CountsOf(E, geo) == [c \in {Visitors!countryOf(e.ip, geo) : e \in E} |-> Cardinality(From(E, c, geo))]
EventsOf == {E \in SUBSET RumEvents : IsFiniteSet(E)}

ListTrue ==
    /\ shown.then \in EventsOf
    /\ \A i \in DOMAIN shown.list : \E key :
           shown.list[i] = Visitors!Summary(key, Mine(shown.then, shown.q.type, key))
EventsTrue ==
    \A i \in DOMAIN shown.list :
        LET s == shown.list[i]
            own == {e \in shown.events[s.key] : Visitors!rumSessionKeySQL(e) = s.key}
        IN /\ \A e \in shown.events[s.key] : Visitors!rumSessionKeyFromAttrs(e) = s.key
           /\ Cardinality(own) <= DetailCap
           /\ Visitors!Agreed(s.key) /\ geoFaults = 0 =>
                  Cardinality(own) >= IF s.events < DetailCap THEN s.events ELSE DetailCap
\* The table holds the addresses with the most events, and counts those events.
Counted == {e \in shown.then : e.ip \in shown.addresses}
TableTrue ==
    /\ shown.countries = CountsOf(Counted, shown.geo)
    /\ \A e \in shown.then \ Counted : e.ip # Visitors!NoAddress =>
           /\ Cardinality(shown.addresses) = MaxAddresses
           /\ \A ip \in shown.addresses : Cardinality({d \in shown.then : d.ip = ip})
                                              >= Cardinality({d \in shown.then : d.ip = e.ip})
VisInv ==
    /\ events \in EventsOf
    /\ shown.at \in {"blank", "sessions", "done"}
    /\ shown.at = "sessions" => shown.q.view = "sessions" /\ ListTrue /\ shown.then \subseteq events
    /\ shown.at = "done" =>
           /\ shown.q.view = "sessions" => ListTrue /\ EventsTrue
           /\ shown.q.view = "traffic" => shown.then \in EventsOf /\ TableTrue


\* What a set of events counts of addresses, country by country.
OfAddresses(E, A, c, geo) == {e \in E : e.ip \in A /\ Visitors!countryOf(e.ip, geo) = c}
AddressCounts(E, A, geo) ==
    [c \in {Visitors!countryOf(e.ip, geo) : e \in E} |-> Cardinality(OfAddresses(E, A, c, geo))]

LEMMA AddressIsAdded ==
  ASSUME NEW E, IsFiniteSet(E), NEW geo, NEW A, NEW ip \in A, ip \in {e.ip : e \in E}
  PROVE  AddressCounts(E, A, geo) = Visitors!addCountry(AddressCounts(E, A \ {ip}, geo), Visitors!countryOf(ip, geo),
                                                Cardinality({e \in E : e.ip = ip}))
<1> DEFINE C == {Visitors!countryOf(e.ip, geo) : e \in E}
           here == Visitors!countryOf(ip, geo)
           mine == {e \in E : e.ip = ip}
           less == AddressCounts(E, A \ {ip}, geo)
<1>1. less \in [C -> Nat] /\ AddressCounts(E, A, geo) \in [C -> Nat]
  <2>1. \A B, c : OfAddresses(E, B, c, geo) \in SUBSET E
    BY DEF OfAddresses
  <2>2. \A B, c : Cardinality(OfAddresses(E, B, c, geo)) \in Nat
    BY <2>1, FS_Subset, FS_CardinalityType
  <2> QED
    BY <2>2 DEF AddressCounts
<1>2. here \in C
  OBVIOUS
<1>3. ASSUME NEW c \in C
      PROVE  Cardinality(OfAddresses(E, A, c, geo)) =
                 IF c = here THEN Cardinality(OfAddresses(E, A \ {ip}, c, geo)) + Cardinality(mine)
                 ELSE Cardinality(OfAddresses(E, A \ {ip}, c, geo))
  <2>1. CASE c # here
    <3>1. OfAddresses(E, A, c, geo) = OfAddresses(E, A \ {ip}, c, geo)
      BY <2>1 DEF OfAddresses
    <3> QED
      BY <2>1, <3>1
  <2>2. CASE c = here
    <3>1. OfAddresses(E, A, c, geo) = OfAddresses(E, A \ {ip}, c, geo) \cup mine
      BY <2>2 DEF OfAddresses
    <3>2. OfAddresses(E, A \ {ip}, c, geo) \cap mine = {}
      BY DEF OfAddresses
    <3>3. IsFiniteSet(OfAddresses(E, A \ {ip}, c, geo)) /\ IsFiniteSet(mine)
      <4>1. OfAddresses(E, A \ {ip}, c, geo) \in SUBSET E /\ mine \in SUBSET E
        BY DEF OfAddresses
      <4> QED
        BY <4>1, FS_Subset
    <3> HIDE DEF mine
    <3>4. Cardinality(OfAddresses(E, A, c, geo)) = Cardinality(OfAddresses(E, A \ {ip}, c, geo)) + Cardinality(mine)
      BY <3>1, <3>2, <3>3, PartsAddUp
    <3> QED
      BY <2>2, <3>4
  <2> QED
    BY <2>1, <2>2
<1>4. \A c \in C : AddressCounts(E, A, geo)[c] = Cardinality(OfAddresses(E, A, c, geo))
                   /\ less[c] = Cardinality(OfAddresses(E, A \ {ip}, c, geo))
  BY DEF AddressCounts
<1> HIDE DEF C, mine, here, less
<1>5. \A c \in C : AddressCounts(E, A, geo)[c] = IF c = here THEN less[c] + Cardinality(mine) ELSE less[c]
  BY <1>3, <1>4
<1>6. AddressCounts(E, A, geo) = [less EXCEPT ![here] = @ + Cardinality(mine)]
  BY <1>1, <1>2, <1>5
<1> QED
  BY <1>6 DEF Visitors!addCountry, less, here, mine

\* The fold over the addresses counts each event for the country of its address.
LEMMA CountriesAreCounted ==
  ASSUME IsFiniteSet(events), NEW D, D \subseteq DOMAIN Visitors!addressCounts, NEW geo
  PROVE  Visitors!countryCounts(D, geo) = CountsOf({e \in events : e.ip \in D}, geo)
<1> DEFINE E == {e \in events : e.ip \in D}
           none == [c \in {Visitors!countryOf(ip, geo) : ip \in D} |-> 0]
           Step(G, A) == IF A = {} THEN none
                         ELSE Visitors!addCountry(G[A \ {CHOOSE x \in A : TRUE}],
                                                  Visitors!countryOf(CHOOSE x \in A : TRUE, geo),
                                                  Visitors!addressCounts[CHOOSE x \in A : TRUE])
           W == [A \in SUBSET D |-> AddressCounts(E, A, geo)]
           Fold == CHOOSE G : G = [A \in SUBSET D |-> Step(G, A)]
<1>0. /\ D = {e.ip : e \in E}
      /\ \A ip \in D : Visitors!addressCounts[ip] = Cardinality({e \in E : e.ip = ip})
  <2>1. D \subseteq {e.ip : e \in events}
    BY DEF Visitors!addressCounts
  <2>2. \A ip \in D : {e \in events : e.ip = ip} = {e \in E : e.ip = ip}
    OBVIOUS
  <2>3. \A ip \in D : Visitors!addressCounts[ip] = Cardinality({e \in events : e.ip = ip})
    BY VisitorsCount DEF Visitors!addressCounts
  <2> QED
    BY <2>1, <2>2, <2>3
<1>10. Visitors!countryCounts(D, geo) = Fold[D]
  BY DEF Visitors!countryCounts
<1>11. IsFiniteSet(E)
  <2>1. E \in SUBSET events
    OBVIOUS
  <2> HIDE DEF E
  <2> QED
    BY <2>1, FS_Subset
<1> HIDE DEF E
<1>1. IsFiniteSet(D)
  <2> DEFINE f == [e \in E |-> e.ip]
  <2>1. f \in [E -> D] /\ \A y \in D : \E e \in E : f[e] = y
    BY <1>0
  <2> HIDE DEF f
  <2> QED
    BY <1>11, <2>1, ImageIsFinite
<1>2. AddressCounts(E, {}, geo) = none
  <2>1. \A c : OfAddresses(E, {}, c, geo) = {}
    BY DEF OfAddresses
  <2>2. {Visitors!countryOf(ip, geo) : ip \in D} = {Visitors!countryOf(e.ip, geo) : e \in E}
    BY <1>0
  <2> QED
    BY <2>1, <2>2, FS_EmptySet DEF AddressCounts
<1>3. \A A \in SUBSET D : Step(W, A) = AddressCounts(E, A, geo)
  <2> SUFFICES ASSUME NEW A \in SUBSET D, A # {} PROVE Step(W, A) = AddressCounts(E, A, geo)
    BY <1>2
  <2> DEFINE x == CHOOSE x \in A : TRUE
  <2>1. x \in A
    OBVIOUS
  <2>2. W[A \ {x}] = AddressCounts(E, A \ {x}, geo)
    OBVIOUS
  <2> HIDE DEF x, W
  <2>3. x \in {e.ip : e \in E} /\ Visitors!addressCounts[x] = Cardinality({e \in E : e.ip = x})
    BY <1>0, <2>1
  <2>4. AddressCounts(E, A, geo) = Visitors!addCountry(AddressCounts(E, A \ {x}, geo), Visitors!countryOf(x, geo),
                                               Visitors!addressCounts[x])
    BY <1>11, <2>1, <2>3, AddressIsAdded
  <2> QED
    BY <2>2, <2>4 DEF x
<1>4. W = [A \in SUBSET D |-> Step(W, A)]
  BY <1>3
<1> HIDE DEF W, Step
<1>5. Fold = [A \in SUBSET D |-> Step(Fold, A)]
  BY <1>4
<1> HIDE DEF Fold
<1>6. ASSUME NEW A \in SUBSET D, \A x \in A : A \ {x} \in {B \in SUBSET D : Fold[B] = AddressCounts(E, B, geo)}
      PROVE  Fold[A] = AddressCounts(E, A, geo)
  <2>1. Fold[A] = Step(Fold, A)
    BY <1>5
  <2>2. Step(Fold, A) = Step(W, A)
    <3>1. CASE A = {}
      BY <3>1 DEF Step
    <3>2. CASE A # {}
      <4>1. (CHOOSE x \in A : TRUE) \in A
        BY <3>2
      <4>2. Fold[A \ {CHOOSE x \in A : TRUE}] = W[A \ {CHOOSE x \in A : TRUE}]
        BY <1>6, <4>1 DEF W
      <4> QED
        BY <4>2 DEF Step
    <3> QED
      BY <3>1, <3>2
  <2> QED
    BY <1>3, <2>1, <2>2
<1>7. Fold[D] = AddressCounts(E, D, geo)
  <2> DEFINE Q == {B \in SUBSET D : Fold[B] = AddressCounts(E, B, geo)}
  <2>1. \A A \in SUBSET D : (\A x \in A : A \ {x} \in Q) => A \in Q
    BY <1>6
  <2> HIDE DEF Q
  <2>2. D \in Q
    BY <1>1, <2>1, SubsetsAreReached
  <2> QED
    BY <2>2 DEF Q
<1>8. AddressCounts(E, D, geo) = CountsOf(E, geo)
  <2>1. \A c : OfAddresses(E, D, c, geo) = From(E, c, geo)
    BY <1>0 DEF OfAddresses, From
  <2> QED
    BY <2>1 DEF AddressCounts, CountsOf
<1> QED
  BY <1>7, <1>8, <1>10 DEF E

\* Every event is counted for some country, and for one.
LEMMA CountriesSumUp ==
  ASSUME NEW E \in EventsOf, NEW geo, NEW f, f = CountsOf(E, geo)
  PROVE  Visitors!MapThenSumSet(LAMBDA c : f[c], DOMAIN f) = Cardinality(E)
<1> DEFINE C == DOMAIN f
           In(T) == {e \in E : Visitors!countryOf(e.ip, geo) \in T}
           Step(G, T) == IF T = {} THEN 0
                         ELSE f[CHOOSE x \in T : TRUE] + G[T \ {CHOOSE x \in T : TRUE}]
           W == [T \in SUBSET C |-> Cardinality(In(T))]
           Sum == CHOOSE G : G = [T \in SUBSET C |-> Step(G, T)]
<1>1. Visitors!MapThenSumSet(LAMBDA c : f[c], DOMAIN f) = Sum[C]
  BY DEF Visitors!MapThenSumSet, Visitors!MapThenFoldSet
<1>2. C = {Visitors!countryOf(e.ip, geo) : e \in E} /\ \A c \in C : f[c] = Cardinality(From(E, c, geo))
  BY DEF CountsOf
<1> HIDE DEF C
<1>3. IsFiniteSet(C)
  <2> DEFINE h == [e \in E |-> Visitors!countryOf(e.ip, geo)]
  <2>1. h \in [E -> C] /\ \A y \in C : \E e \in E : h[e] = y
    BY <1>2
  <2> HIDE DEF h
  <2> QED
    BY <2>1, ImageIsFinite DEF EventsOf
<1>4. \A T \in SUBSET C : Step(W, T) = Cardinality(In(T))
  <2> SUFFICES ASSUME NEW T \in SUBSET C PROVE Step(W, T) = Cardinality(In(T))
    OBVIOUS
  <2>1. CASE T = {}
    <3>1. In(T) = {}
      BY <2>1
    <3> HIDE DEF In
    <3> QED
      BY <2>1, <3>1, FS_EmptySet
  <2>2. CASE T # {}
    <3> DEFINE x == CHOOSE y \in T : TRUE
    <3>1. x \in T
      BY <2>2
    <3>2. W[T \ {x}] = Cardinality(In(T \ {x}))
      OBVIOUS
    <3> HIDE DEF x, W
    <3>3. In(T) = In(T \ {x}) \cup From(E, x, geo) /\ In(T \ {x}) \cap From(E, x, geo) = {}
      BY <3>1 DEF From
    <3>4. IsFiniteSet(In(T \ {x})) /\ IsFiniteSet(From(E, x, geo))
      <4>1. In(T \ {x}) \in SUBSET E /\ From(E, x, geo) \in SUBSET E
        BY DEF From
      <4> HIDE DEF In
      <4> QED
        BY <4>1, FS_Subset DEF EventsOf
    <3> HIDE DEF In
    <3>5. Cardinality(In(T)) = Cardinality(In(T \ {x})) + Cardinality(From(E, x, geo))
      BY <3>3, <3>4, PartsAddUp
    <3>6. f[x] = Cardinality(From(E, x, geo))
      BY <1>2, <3>1
    <3>7. Cardinality(In(T \ {x})) \in Nat /\ Cardinality(From(E, x, geo)) \in Nat
      BY <3>4, FS_CardinalityType
    <3>8. Step(W, T) = f[x] + W[T \ {x}]
      BY <2>2 DEF x
    <3> QED
      BY <3>2, <3>5, <3>6, <3>7, <3>8
  <2> QED
    BY <2>1, <2>2
<1> HIDE DEF In
<1>5. W = [T \in SUBSET C |-> Step(W, T)]
  BY <1>4
<1> HIDE DEF W, Step
<1>6. Sum = [T \in SUBSET C |-> Step(Sum, T)]
  BY <1>5
<1> HIDE DEF Sum
<1> DEFINE Q == {T \in SUBSET C : Sum[T] = Cardinality(In(T))}
<1>7. ASSUME NEW T \in SUBSET C, \A x \in T : T \ {x} \in Q PROVE T \in Q
  <2>1. Sum[T] = Step(Sum, T)
    BY <1>6
  <2>2. Step(Sum, T) = Step(W, T)
    <3>1. CASE T = {}
      BY <3>1 DEF Step
    <3>2. CASE T # {}
      <4>1. (CHOOSE x \in T : TRUE) \in T
        BY <3>2
      <4>2. Sum[T \ {CHOOSE x \in T : TRUE}] = W[T \ {CHOOSE x \in T : TRUE}]
        BY <1>7, <4>1 DEF W
      <4> QED
        BY <4>2 DEF Step
    <3> QED
      BY <3>1, <3>2
  <2> QED
    BY <1>4, <2>1, <2>2
<1> HIDE DEF Q
<1>8. C \in Q
  <2>1. \A T \in SUBSET C : (\A x \in T : T \ {x} \in Q) => T \in Q
    BY <1>7
  <2>2. \A T \in SUBSET C : T \in Q
    BY <1>3, <2>1, SubsetsAreReached
  <2> QED
    BY <2>2
<1>9. In(C) = E
  BY <1>2 DEF In
<1> QED
  BY <1>1, <1>8, <1>9 DEF Q

LEMMA LookupTells ==
  ASSUME NEW ip \in Int, ip >= 0
  PROVE  LET before == {i \in DOMAIN Ranges : Ranges[i].first <= ip}
             m == Visitors!Max(before)
         IN Visitors!geoLookup(ip) =
                IF before = {} \/ Ranges[m].country = Visitors!Gap THEN Visitors!NoCountry ELSE Ranges[m].country
BY DEF Visitors!geoLookup, Visitors!isPrivateIP, Visitors!lookup4

\* An address is of the country whose range it lies in.
LEMMA AddressIsInRange ==
  ASSUME Visitors!RumPageAssumption, NEW ip \in Int,
         NEW c, c # Visitors!LocalNet, c # Visitors!NoCountry, c # Visitors!Gap
  PROVE  Visitors!geoLookup(ip) = c <=>
             ip >= 0 /\ \E i \in DOMAIN Ranges :
                 /\ Ranges[i].country = c /\ Ranges[i].first <= ip
                 /\ i = Len(Ranges) \/ ip < Ranges[i + 1].first
<1> DEFINE before == {i \in DOMAIN Ranges : Ranges[i].first <= ip}
           At(i) == i = Len(Ranges) \/ ip < Ranges[i + 1].first
<1>1. /\ DOMAIN Ranges = 1 .. Len(Ranges) /\ Len(Ranges) \in Nat
      /\ \A i \in DOMAIN Ranges : Ranges[i].first \in Nat
      /\ \A i, j \in DOMAIN Ranges : i < j => Ranges[i].first < Ranges[j].first
  <2>1. Ranges \in Seq([first : Nat, country : STRING])
    BY DEF Visitors!RumPageAssumption
  <2>2. \A i, j \in DOMAIN Ranges : i < j => Ranges[i].first < Ranges[j].first
    BY DEF Visitors!RumPageAssumption
  <2>3. DOMAIN Ranges = 1 .. Len(Ranges) /\ Len(Ranges) \in Nat
    BY <2>1, LenProperties
  <2>4. \A i \in DOMAIN Ranges : Ranges[i] \in [first : Nat, country : STRING]
    BY <2>1, <2>3, ElementOfSeq
  <2> QED
    BY <2>2, <2>3, <2>4
<1>2. CASE ip < 0
  BY <1>2 DEF Visitors!geoLookup, Visitors!isPrivateIP
<1>3. CASE ip >= 0 /\ before = {}
  BY <1>3, LookupTells
<1>4. CASE ip >= 0 /\ before # {}
  <2>1. before \in SUBSET (0 .. Len(Ranges))
    BY <1>1
  <2> DEFINE m == Visitors!Max(before)
  <2>2. m \in before /\ \A j \in before : j <= m
    <3>1. PICK i \in before : \A j \in before : j <= i
      BY <1>1, <1>4, <2>1, MaxExists
    <3>2. \A j \in before : i >= j
      BY <1>1, <3>1
    <3>3. m \in before /\ \A j \in before : m >= j
      BY <3>2 DEF Visitors!Max
    <3> HIDE DEF m
    <3> QED
      BY <1>1, <3>3
  <2>3. Visitors!geoLookup(ip) = IF Ranges[m].country = Visitors!Gap THEN Visitors!NoCountry ELSE Ranges[m].country
    BY <1>4, LookupTells
  <2> HIDE DEF m
  <2>4. At(m)
    <3> SUFFICES ASSUME m # Len(Ranges), ~ ip < Ranges[m + 1].first PROVE FALSE
      OBVIOUS
    <3>1. m + 1 \in DOMAIN Ranges
      BY <1>1, <2>2
    <3>2. m + 1 \in before
      BY <1>1, <3>1
    <3> QED
      BY <1>1, <2>2, <3>2
  <2>5. \A i \in before : At(i) => i = m
    <3> SUFFICES ASSUME NEW i \in before, At(i), i # m PROVE FALSE
      OBVIOUS
    <3>1. i < m /\ i # Len(Ranges) /\ i + 1 \in DOMAIN Ranges
      BY <1>1, <2>2
    <3>2. Ranges[i + 1].first <= Ranges[m].first
      <4>1. CASE i + 1 = m
        BY <1>1, <2>2, <4>1
      <4>2. CASE i + 1 < m
        BY <1>1, <2>2, <3>1, <4>2
      <4> QED
        BY <1>1, <2>2, <3>1, <4>1, <4>2
    <3>3. ip < Ranges[i + 1].first /\ Ranges[m].first <= ip
      BY <2>2, <3>1
    <3>4. Ranges[i + 1].first \in Nat /\ Ranges[m].first \in Nat
      BY <1>1, <2>2, <3>1
    <3> QED
      BY <3>2, <3>3, <3>4
  <2>6. (\E i \in DOMAIN Ranges : Ranges[i].country = c /\ Ranges[i].first <= ip /\ At(i))
            <=> Ranges[m].country = c
    BY <2>2, <2>4, <2>5
  <2>7. Visitors!geoLookup(ip) = c <=> Ranges[m].country = c
    BY <2>3
  <2> HIDE DEF before
  <2> QED
    BY <1>4, <2>6, <2>7
<1> QED
  BY <1>2, <1>3, <1>4

LEMMA NoGapIsShown ==
  ASSUME NEW ip \in Int
  PROVE  Visitors!geoLookup(ip) # Visitors!Gap
<1>1. Visitors!LocalNet # Visitors!Gap /\ Visitors!NoCountry # Visitors!Gap
  BY DEF Visitors!LocalNet, Visitors!NoCountry, Visitors!Gap
<1> QED
  BY <1>1 DEF Visitors!geoLookup, Visitors!lookup4

\* What a limit keeps is of what there is, no more than it allows, and nothing
\* is left out while there is room.
LEMMA TopIsOf ==
  ASSUME NEW S, NEW f, NEW n \in Nat, NEW P \in Visitors!Top(S, f, n), IsFiniteSet(S)
  PROVE  /\ P \subseteq S /\ Cardinality(P) <= n
         /\ Cardinality(P) = IF Cardinality(S) < n THEN Cardinality(S) ELSE n
         /\ \A d \in S \ P : Cardinality(P) = n /\ \A e \in P : f[e] >= f[d]
<1>1. /\ P \in SUBSET S /\ Cardinality(P) = IF Cardinality(S) < n THEN Cardinality(S) ELSE n
      /\ \A e \in P, d \in S \ P : f[e] >= f[d]
  BY VisitorsCount DEF Visitors!Top
<1>2. Cardinality(S) \in Nat
  BY FS_CardinalityType
<1>3. Cardinality(P) = Cardinality(S) => P = S
  BY <1>1, FS_Subset
<1> QED
  BY <1>1, <1>2, <1>3

LEMMA VisitorsStart == Visitors!Init => VisInv
<1>1. {} \in EventsOf
  BY FS_EmptySet DEF EventsOf
<1> QED
  BY <1>1 DEF Visitors!Init, VisInv

LEMMA EventArrives ==
  ASSUME VisInv, NEW e \in RumEvents, Visitors!Arrive(e)
  PROVE  VisInv'
<1>1. events' = events \cup {e} /\ shown' = shown
  BY DEF Visitors!Arrive
<1>2. events' \in EventsOf /\ events \subseteq events'
  BY <1>1, FS_AddElement DEF VisInv, EventsOf
<1>3. geoFaults' = geoFaults
  BY DEF Visitors!Arrive
<1> QED
  BY <1>1, <1>2, <1>3 DEF VisInv, ListTrue, EventsTrue, TableTrue, Counted

\* The list that is asked for is of finitely many sessions.
LEMMA SessionsAreFinite ==
  ASSUME events \in EventsOf, NEW q
  PROVE  IsFiniteSet(Visitors!Sessions(q))
<1> DEFINE A == Visitors!Asked(q)
           K == {Visitors!rumSessionKeySQL(e) : e \in A}
           Of(k) == Visitors!Summary(k, {e \in A : Visitors!rumSessionKeySQL(e) = k})
           T == {Of(k) : k \in K}
<1>1. IsFiniteSet(A)
  <2>1. A \in SUBSET events
    BY DEF Visitors!Asked
  <2> HIDE DEF A
  <2> QED
    BY <2>1, FS_Subset DEF EventsOf
<1> HIDE DEF A
<1>2. IsFiniteSet(K)
  <2> DEFINE f == [e \in A |-> Visitors!rumSessionKeySQL(e)]
  <2>1. f \in [A -> K] /\ \A y \in K : \E e \in A : f[e] = y
    OBVIOUS
  <2> HIDE DEF f, K
  <2> QED
    BY <1>1, <2>1, ImageIsFinite
<1> HIDE DEF K
<1>3. IsFiniteSet(T)
  <2> DEFINE f == [k \in K |-> Of(k)]
  <2>1. f \in [K -> T] /\ \A y \in T : \E k \in K : f[k] = y
    OBVIOUS
  <2> HIDE DEF f, T
  <2> QED
    BY <1>2, <2>1, ImageIsFinite
<1>4. Visitors!Sessions(q) = T
  BY DEF Visitors!Sessions, A, K
<1> QED
  BY <1>3, <1>4

\* A screen of the list is made of sessions.
LEMMA ScreenShows ==
  ASSUME Visitors!RumPageAssumption, events \in EventsOf, NEW q \in RumQueries,
         NEW l \in Visitors!BySeverity(Visitors!Sessions(q))
  PROVE  \A i \in DOMAIN Visitors!Screen(q, l) : Visitors!Screen(q, l)[i] \in Visitors!Sessions(q)
<1> DEFINE S == Visitors!Sessions(q)
           n == Cardinality(S)
           from == q.offset + 1
           to == IF q.offset + q.limit < Len(l) THEN q.offset + q.limit ELSE Len(l)
<1>1. n \in Nat
  BY SessionsAreFinite, FS_CardinalityType
<1>2. l \in [1 .. n -> S]
  BY VisitorsCount DEF Visitors!BySeverity, Visitors!Bijection, Visitors!Injection
<1> HIDE DEF S, n
<1>3. Len(l) = n
  BY <1>1, <1>2, LenProperties
<1>4. q.offset \in Nat /\ q.limit \in Nat
  BY DEF Visitors!RumPageAssumption
<1>5. from \in Int /\ to \in Int /\ from >= 1 /\ to <= n
  BY <1>1, <1>3, <1>4
<1>6. Visitors!Screen(q, l) = SubSeq(l, from, to)
  BY DEF Visitors!Screen
<1> HIDE DEF from, to
<1>7. \A i \in from .. to : l[i] \in S
  BY <1>1, <1>2, <1>5
<1>8. SubSeq(l, from, to) \in Seq(S)
  BY <1>5, <1>7, SubSeqProperties
<1>9. \A i \in DOMAIN SubSeq(l, from, to) : SubSeq(l, from, to)[i] \in S
  BY <1>8, ElementOfSeq, LenProperties
<1> QED
  BY <1>6, <1>9 DEF S

LEMMA SessionsAreListed ==
  ASSUME Visitors!RumPageAssumption, VisInv, NEW q \in RumQueries, Visitors!ListSessions(q)
  PROVE  VisInv'
<1>1. /\ q.view = "sessions" /\ events' = events
  BY DEF Visitors!ListSessions
<1>2. PICK l \in Visitors!BySeverity(Visitors!Sessions(q)) :
        shown' = [at |-> "sessions", q |-> q, then |-> events, list |-> Visitors!Screen(q, l)]
  BY DEF Visitors!ListSessions
<1>3. \A i \in DOMAIN Visitors!Screen(q, l) : Visitors!Screen(q, l)[i] \in Visitors!Sessions(q)
  BY ScreenShows DEF VisInv
<1>4. \A s \in Visitors!Sessions(q) : \E key : s = Visitors!Summary(key, Mine(events, q.type, key))
  <2>1. \A key : {e \in Visitors!Asked(q) : Visitors!rumSessionKeySQL(e) = key} = Mine(events, q.type, key)
    BY DEF Visitors!Asked, Mine
  <2> QED
    BY <2>1 DEF Visitors!Sessions
<1> DEFINE list == Visitors!Screen(q, l)
<1>5. \A i \in DOMAIN list : \E key : list[i] = Visitors!Summary(key, Mine(events, q.type, key))
  BY <1>3, <1>4
<1> HIDE DEF list
<1>6. /\ shown'.at = "sessions" /\ shown'.q = q /\ shown'.then = events /\ shown'.list = list
  BY <1>2 DEF list
<1>7. ListTrue'
  BY <1>5, <1>6 DEF ListTrue, VisInv
<1> QED
  BY <1>1, <1>6, <1>7 DEF VisInv

LEMMA EventsAreListed ==
  ASSUME VisInv, NEW q \in RumQueries, Visitors!ListEvents(q)
  PROVE  VisInv'
<1>1. /\ q.view = "events" /\ events' = events
  BY DEF Visitors!ListEvents
<1>2. shown'.at = "done" /\ shown'.q = q
  <2>1. PICK S : shown' = [at |-> "done", q |-> q, then |-> events, list |-> <<>>,
                           events |-> [k \in {""} |-> S]]
    BY DEF Visitors!ListEvents
  <2> DEFINE every == [k \in {""} |-> S]
  <2> HIDE DEF every
  <2>2. shown' = [at |-> "done", q |-> q, then |-> events, list |-> <<>>, events |-> every]
    BY <2>1 DEF every
  <2> QED
    BY <2>2
<1> QED
  BY <1>1, <1>2 DEF VisInv

LEMMA TrafficIsRead ==
  ASSUME Visitors!RumPageAssumption, VisInv, NEW q \in RumQueries, Visitors!ReadTraffic(q)
  PROVE  VisInv'
<1>1. /\ q.view = "traffic" /\ events' = events
  BY DEF Visitors!ReadTraffic
<1> DEFINE number == Visitors!addressCounts
           At(ip) == {d \in events : d.ip = ip}
<1>2. PICK listed \in Visitors!Top(DOMAIN number, number, MaxAddresses), geo \in BOOLEAN :
          /\ shown'.at = "done" /\ shown'.q = q /\ shown'.then = events /\ shown'.geo = geo
          /\ shown'.addresses = listed /\ shown'.countries = Visitors!countryCounts(listed, geo)
  BY DEF Visitors!ReadTraffic
<1>3. /\ DOMAIN number = {e.ip : e \in events} \ {Visitors!NoAddress}
      /\ \A ip \in DOMAIN number : number[ip] = Cardinality(At(ip))
  BY VisitorsCount DEF Visitors!addressCounts
<1>4. IsFiniteSet(events)
  BY DEF VisInv, EventsOf
<1>5. IsFiniteSet(DOMAIN number)
  <2> DEFINE A == {e.ip : e \in events}
             f == [e \in events |-> e.ip]
  <2>1. f \in [events -> A] /\ \A y \in A : \E e \in events : f[e] = y
    OBVIOUS
  <2>2. DOMAIN number \in SUBSET A
    BY <1>3
  <2> HIDE DEF f, A, number
  <2>3. IsFiniteSet(A)
    BY <1>4, <2>1, ImageIsFinite
  <2> QED
    BY <2>2, <2>3, FS_Subset
<1>6. MaxAddresses \in Nat
  BY DEF Visitors!RumPageAssumption
<1>7. /\ listed \subseteq DOMAIN number
      /\ \A ip \in DOMAIN number \ listed :
             Cardinality(listed) = MaxAddresses /\ \A a \in listed : number[a] >= number[ip]
  <2> HIDE DEF number
  <2> QED
    BY <1>2, <1>5, <1>6, TopIsOf
<1>8. Visitors!countryCounts(listed, geo) = CountsOf({e \in events : e.ip \in listed}, geo)
  BY <1>4, <1>7, CountriesAreCounted
<1> HIDE DEF number
<1>9. Counted' = {e \in events : e.ip \in listed}
  BY <1>2 DEF Counted
<1>10. ASSUME NEW e \in events \ Counted', e.ip # Visitors!NoAddress
       PROVE  /\ Cardinality(listed) = MaxAddresses
              /\ \A ip \in listed : Cardinality(At(ip)) >= Cardinality(At(e.ip))
  <2>1. e.ip \in DOMAIN number \ listed
    BY <1>3, <1>9, <1>10
  <2> HIDE DEF At
  <2> QED
    BY <1>3, <1>7, <2>1
<1>11. TableTrue'
  BY <1>2, <1>8, <1>9, <1>10 DEF TableTrue
<1> QED
  BY <1>1, <1>2, <1>11 DEF VisInv

\* The newest rows of one id hold, when nothing failed, at least what was counted.
LEMMA RowsAreOwn ==
  ASSUME Visitors!RumPageAssumption, VisInv, shown.at = "sessions", NEW k,
         NEW P \in Visitors!Newest({e \in Visitors!Asked(shown.q) : Visitors!rumSessionKeySQL(e) = k}, DetailCap)
  PROVE  LET n == Cardinality(Mine(shown.then, shown.q.type, k))
         IN /\ P \subseteq events /\ \A e \in P : Visitors!rumSessionKeySQL(e) = k
            /\ IsFiniteSet(P) /\ Cardinality(P) <= DetailCap
            /\ Cardinality(P) >= IF n < DetailCap THEN n ELSE DetailCap
<1> DEFINE M == {e \in Visitors!Asked(shown.q) : Visitors!rumSessionKeySQL(e) = k}
           f == [e \in M |-> e.at]
           N == Mine(shown.then, shown.q.type, k)
<1>1. M \in SUBSET events /\ \A e \in M : Visitors!rumSessionKeySQL(e) = k
  BY DEF Visitors!Asked
<1>2. N \in SUBSET M
  BY DEF VisInv, Visitors!Asked, Mine
<1>3. P \in Visitors!Top(M, f, DetailCap)
  BY DEF Visitors!Newest
<1> HIDE DEF M, f, N
<1>4. IsFiniteSet(M)
  BY <1>1, FS_Subset DEF VisInv, EventsOf
<1>5. DetailCap \in Nat
  BY DEF Visitors!RumPageAssumption
<1>6. /\ P \subseteq M /\ Cardinality(P) <= DetailCap
      /\ Cardinality(P) = IF Cardinality(M) < DetailCap THEN Cardinality(M) ELSE DetailCap
  BY <1>3, <1>4, <1>5, TopIsOf
<1>7. IsFiniteSet(P)
  BY <1>4, <1>6, FS_Subset
<1>8. Cardinality(N) <= Cardinality(M) /\ Cardinality(N) \in Nat /\ Cardinality(M) \in Nat
  BY <1>2, <1>4, FS_Subset, FS_CardinalityType
<1>9. Cardinality(P) >= IF Cardinality(N) < DetailCap THEN Cardinality(N) ELSE DetailCap
  BY <1>5, <1>6, <1>8
<1> QED
  BY <1>1, <1>6, <1>7, <1>9 DEF N

LEMMA EventsAreRead ==
  ASSUME Visitors!RumPageAssumption, VisInv, Visitors!ReadEvents
  PROVE  VisInv'
<1> DEFINE keys == {shown.list[i].key : i \in DOMAIN shown.list}
           Done(d) == shown' = [at |-> "done", q |-> shown.q, then |-> shown.then,
                                list |-> shown.list, events |-> d]
           Put(d) == [k \in keys |-> {e \in UNION {d[m] : m \in keys} : Visitors!rumSessionKeyFromAttrs(e) = k}]
           Own(d, k) == {e \in d[k] : Visitors!rumSessionKeySQL(e) = k}
           Counts(k) == Cardinality(Mine(shown.then, shown.q.type, k))
           Right(d) == \A k \in keys :
               /\ \A e \in d[k] : Visitors!rumSessionKeyFromAttrs(e) = k
               /\ Cardinality(Own(d, k)) <= DetailCap
               /\ Visitors!Agreed(k) /\ geoFaults' = 0 =>
                      Cardinality(Own(d, k)) >= IF Counts(k) < DetailCap THEN Counts(k) ELSE DetailCap
<1>1. shown.at = "sessions" /\ events' = events /\ shown.q.view = "sessions" /\ ListTrue
  BY DEF Visitors!ReadEvents, VisInv
<1>2. DetailCap \in Nat
  BY DEF Visitors!RumPageAssumption
<1>3. \E d : Done(d) /\ Right(d)
  <2>1. CASE \E d \in [keys -> SUBSET events] :
                /\ \A k \in keys : d[k] \in Visitors!Newest(
                       {e \in Visitors!Asked(shown.q) : Visitors!rumSessionKeySQL(e) = k}, DetailCap)
                /\ Done(Put(d))
    <3>1. PICK d \in [keys -> SUBSET events] :
                /\ \A k \in keys : d[k] \in Visitors!Newest(
                       {e \in Visitors!Asked(shown.q) : Visitors!rumSessionKeySQL(e) = k}, DetailCap)
                /\ Done(Put(d))
      BY <2>1
    <3>2. ASSUME NEW k \in keys
          PROVE  /\ d[k] \subseteq events /\ \A e \in d[k] : Visitors!rumSessionKeySQL(e) = k
                 /\ IsFiniteSet(d[k]) /\ Cardinality(d[k]) <= DetailCap
                 /\ Cardinality(d[k]) >= IF Counts(k) < DetailCap THEN Counts(k) ELSE DetailCap
      BY <1>1, <3>1, RowsAreOwn
    <3>3. ASSUME NEW k \in keys
          PROVE  /\ \A e \in Put(d)[k] : Visitors!rumSessionKeyFromAttrs(e) = k
                 /\ Cardinality(Own(Put(d), k)) <= DetailCap
                 /\ Visitors!Agreed(k) => Own(Put(d), k) = d[k]
      <4>1. Own(Put(d), k) \subseteq d[k]
        BY <3>2
      <4>2. ASSUME Visitors!Agreed(k) PROVE d[k] \subseteq Own(Put(d), k)
        <5>1. \A e \in d[k] : e \in RumEvents /\ Visitors!rumSessionKeySQL(e) = k
          BY <3>2 DEF VisInv, EventsOf
        <5>2. \A e \in d[k] : Visitors!rumSessionKeyFromAttrs(e) = k
          BY <4>2, <5>1 DEF Visitors!Agreed
        <5> QED
          BY <5>1, <5>2
      <4>3. \A e \in Put(d)[k] : Visitors!rumSessionKeyFromAttrs(e) = k
        OBVIOUS
      <4> HIDE DEF Put, Own
      <4>4. Cardinality(Own(Put(d), k)) <= Cardinality(d[k])
            /\ Cardinality(Own(Put(d), k)) \in Nat /\ Cardinality(d[k]) \in Nat
        BY <3>2, <4>1, FS_Subset, FS_CardinalityType
      <4>5. Cardinality(Own(Put(d), k)) <= DetailCap
        BY <1>2, <3>2, <4>4
      <4> QED
        BY <4>1, <4>2, <4>3, <4>5
    <3> HIDE DEF Put, Own, Counts, Done
    <3>4. Right(Put(d))
      BY <3>2, <3>3
    <3> QED
      BY <3>1, <3>4
  <2>2. CASE geoFaults' = 1 /\ Done([k \in keys |-> {}])
    <3> DEFINE none == [k \in keys |-> {}]
    <3>1. \A k \in keys : none[k] = {} /\ Own(none, k) = {}
      OBVIOUS
    <3>3. ASSUME NEW k \in keys
          PROVE  /\ \A e \in none[k] : Visitors!rumSessionKeyFromAttrs(e) = k
                 /\ Cardinality(Own(none, k)) <= DetailCap /\ ~ geoFaults' = 0
      <4> HIDE DEF none, Own, keys
      <4>1. Cardinality(Own(none, k)) = 0
        BY <3>1, FS_EmptySet
      <4> QED
        BY <1>2, <2>2, <3>1, <4>1
    <3> HIDE DEF none, Own, keys, Counts
    <3>2. Right(none)
      BY <3>3
    <3> QED
      BY <2>2, <3>2 DEF none
  <2> QED
    BY <2>1, <2>2 DEF Visitors!ReadEvents
<1>4. PICK d : Done(d) /\ Right(d)
  BY <1>3
<1>5. /\ shown'.at = "done" /\ shown'.q = shown.q /\ shown'.then = shown.then
      /\ shown'.list = shown.list /\ shown'.events = d
  BY <1>4
<1>6. ListTrue'
  BY <1>1, <1>5 DEF ListTrue
<1>7. EventsTrue'
  <2>1. ASSUME NEW i \in DOMAIN shown.list
        PROVE  shown.list[i].key \in keys /\ shown.list[i].events = Counts(shown.list[i].key)
    <3>1. PICK key : shown.list[i] = Visitors!Summary(key, Mine(shown.then, shown.q.type, key))
      BY <1>1 DEF ListTrue
    <3> QED
      BY <3>1, VisitorsCount DEF Visitors!Summary
  <2>2. ASSUME NEW i \in DOMAIN shown.list, NEW k, k = shown.list[i].key, NEW own, own = Own(d, k)
        PROVE  /\ \A e \in d[k] : Visitors!rumSessionKeyFromAttrs(e) = k
               /\ Cardinality(own) <= DetailCap
               /\ Visitors!Agreed(k) /\ geoFaults' = 0 =>
                      Cardinality(own) >= IF shown.list[i].events < DetailCap THEN shown.list[i].events
                                          ELSE DetailCap
    <3> HIDE DEF keys, Done, Counts, Own
    <3> QED
      BY <1>4, <2>1, <2>2
  <2> HIDE DEF keys, Done, Counts, Right
  <2>3. ASSUME NEW i \in DOMAIN shown.list
        PROVE  LET s == shown.list[i]
                   own == {e \in d[s.key] : Visitors!rumSessionKeySQL(e) = s.key}
               IN /\ \A e \in d[s.key] : Visitors!rumSessionKeyFromAttrs(e) = s.key
                  /\ Cardinality(own) <= DetailCap
                  /\ Visitors!Agreed(s.key) /\ geoFaults' = 0 =>
                         Cardinality(own) >= IF s.events < DetailCap THEN s.events ELSE DetailCap
    <3>1. PICK k : k = shown.list[i].key
      OBVIOUS
    <3>2. PICK own : own = Own(d, k)
      OBVIOUS
    <3>3. own = {e \in d[shown.list[i].key] : Visitors!rumSessionKeySQL(e) = shown.list[i].key}
      BY <3>1, <3>2
    <3> HIDE DEF Own
    <3>4. /\ \A e \in d[k] : Visitors!rumSessionKeyFromAttrs(e) = k
          /\ Cardinality(own) <= DetailCap
          /\ Visitors!Agreed(k) /\ geoFaults' = 0 =>
                 Cardinality(own) >= IF shown.list[i].events < DetailCap THEN shown.list[i].events
                                     ELSE DetailCap
      BY <2>2, <3>1, <3>2
    <3> QED
      BY <3>1, <3>3, <3>4
  <2> QED
    BY <1>5, <2>3 DEF EventsTrue
<1> QED
  BY <1>1, <1>5, <1>6, <1>7 DEF VisInv

\* What is shown of a session answers for it, and the countries for the events.
LEMMA VisitorsMean ==
  ASSUME Visitors!RumPageAssumption, VisInv
  PROVE  Visitors!RanksCoverEvents /\ Visitors!CountriesAddUp
<1>1. Visitors!RanksCoverEvents
  <2> SUFFICES ASSUME shown.at = "done", shown.q.view = "sessions", NEW i \in DOMAIN shown.list
               PROVE  LET s == shown.list[i]
                          mine == Mine(shown.then, shown.q.type, s.key)
                          own == {e \in shown.events[s.key] : Visitors!rumSessionKeySQL(e) = s.key}
                      IN /\ (s.rank = 3) <=> (s.errors > 0)
                         /\ \A e \in mine : e.type \in Visitors!Failed => s.rank = 3
                         /\ s.events = Cardinality(mine)
                         /\ \A e \in shown.events[s.key] : Visitors!rumSessionKeyFromAttrs(e) = s.key
                         /\ Cardinality(own) <= DetailCap
                         /\ Visitors!Agreed(s.key) /\ geoFaults = 0 =>
                                Cardinality(own) >= IF s.events < DetailCap THEN s.events ELSE DetailCap
    <3>1. \A key : {e \in shown.then : Visitors!rumSessionKeySQL(e) = key /\ shown.q.type \in {"", e.type}}
                       = Mine(shown.then, shown.q.type, key)
      BY DEF Mine
    <3> QED
      BY <3>1, VisitorsCount DEF Visitors!RanksCoverEvents
  <2>1. ListTrue /\ EventsTrue
    BY DEF VisInv
  <2>2. PICK key : shown.list[i] = Visitors!Summary(key, Mine(shown.then, shown.q.type, key))
    BY <2>1 DEF ListTrue
  <2> DEFINE s == shown.list[i]
             mine == Mine(shown.then, shown.q.type, key)
             own == {e \in shown.events[s.key] : Visitors!rumSessionKeySQL(e) = s.key}
             failed == {e \in mine : e.type \in Visitors!Failed}
  <2>3. /\ s.key = key /\ s.events = Cardinality(mine) /\ s.errors = Cardinality(failed)
        /\ s.rank = Visitors!severity(mine)
    BY <2>2, VisitorsCount DEF Visitors!Summary
  <2>4. s.rank = 3 <=> failed # {}
    BY <2>3 DEF Visitors!severity
  <2>5. IsFiniteSet(failed)
    <3>1. failed \in SUBSET shown.then
      BY DEF Mine
    <3> HIDE DEF failed
    <3> QED
      BY <2>1, <3>1, FS_Subset DEF ListTrue, EventsOf
  <2>6. s.errors > 0 <=> failed # {}
    <3> HIDE DEF failed
    <3> QED
      BY <2>3, <2>5, FS_EmptySet, FS_CardinalityType
  <2>7. /\ \A e \in shown.events[s.key] : Visitors!rumSessionKeyFromAttrs(e) = s.key
        /\ Cardinality(own) <= DetailCap
        /\ Visitors!Agreed(s.key) /\ geoFaults = 0 =>
               Cardinality(own) >= IF s.events < DetailCap THEN s.events ELSE DetailCap
    BY <2>1 DEF EventsTrue
  <2>8. \A e \in mine : e.type \in Visitors!Failed => s.rank = 3
    BY <2>4
  <2> HIDE DEF s, mine, own, failed
  <2> QED
    BY <2>3, <2>4, <2>6, <2>7, <2>8 DEF s, mine, own
<1>2. Visitors!CountriesAddUp
  <2> SUFFICES ASSUME shown.at = "done", shown.q.view = "traffic"
               PROVE  /\ Visitors!MapThenSumSet(LAMBDA c : shown.countries[c], DOMAIN shown.countries)
                             = Cardinality(Counted)
                      /\ \A e \in shown.then \ Counted : e.ip # Visitors!NoAddress =>
                             /\ Cardinality(shown.addresses) = MaxAddresses
                             /\ \A ip \in shown.addresses : Cardinality({d \in shown.then : d.ip = ip})
                                              >= Cardinality({d \in shown.then : d.ip = e.ip})
                      /\ \A c \in DOMAIN shown.countries \ {Visitors!LocalNet, Visitors!NoCountry, Visitors!Unknown} :
                           shown.countries[c] = Cardinality({e \in Counted : e.ip >= 0 /\
                             \E i \in DOMAIN Ranges :
                                 /\ Ranges[i].country = c /\ Ranges[i].first <= e.ip
                                 /\ i = Len(Ranges) \/ e.ip < Ranges[i + 1].first})
    BY VisitorsCount DEF Visitors!CountriesAddUp, Counted
  <2>1. TableTrue /\ shown.countries = CountsOf(Counted, shown.geo)
    BY DEF VisInv, TableTrue
  <2>5. Counted \in EventsOf
    <3>1. shown.then \in EventsOf /\ Counted \in SUBSET shown.then
      BY DEF VisInv, Counted
    <3> QED
      BY <3>1, FS_Subset DEF EventsOf
  <2>2. Visitors!MapThenSumSet(LAMBDA c : shown.countries[c], DOMAIN shown.countries)
            = Cardinality(Counted)
    BY <2>1, <2>5, CountriesSumUp
  <2>3. ASSUME NEW c \in DOMAIN shown.countries \ {Visitors!LocalNet, Visitors!NoCountry, Visitors!Unknown}
        PROVE  From(Counted, c, shown.geo) = {e \in Counted : e.ip >= 0 /\
                             \E i \in DOMAIN Ranges :
                                 /\ Ranges[i].country = c /\ Ranges[i].first <= e.ip
                                 /\ i = Len(Ranges) \/ e.ip < Ranges[i + 1].first}
    <3>1. \A e \in Counted : e.ip \in Int
      BY <2>5 DEF EventsOf, Visitors!RumPageAssumption
    <3>2. PICK d \in Counted : c = Visitors!countryOf(d.ip, shown.geo)
      BY <2>1 DEF CountsOf
    <3>3. shown.geo /\ \A ip : Visitors!countryOf(ip, shown.geo) = Visitors!geoLookup(ip)
      BY <3>2 DEF Visitors!countryOf
    <3>4. c # Visitors!Gap
      BY <3>1, <3>2, <3>3, NoGapIsShown
    <3> QED
      <4>1. From(Counted, c, shown.geo) = {e \in Counted : Visitors!geoLookup(e.ip) = c}
        BY <3>3 DEF From
      <4> QED
        BY <2>3, <3>1, <3>4, <4>1, AddressIsInRange
  <2>4. \A c \in DOMAIN shown.countries : shown.countries[c] = Cardinality(From(Counted, c, shown.geo))
    BY <2>1 DEF CountsOf
  <2>6. \A e \in shown.then \ Counted : e.ip # Visitors!NoAddress =>
            /\ Cardinality(shown.addresses) = MaxAddresses
            /\ \A ip \in shown.addresses : Cardinality({d \in shown.then : d.ip = ip})
                                             >= Cardinality({d \in shown.then : d.ip = e.ip})
    BY <2>1 DEF TableTrue
  <2> QED
    BY <2>2, <2>3, <2>4, <2>6
<1> QED
  BY <1>1, <1>2

\* However many events and visitors: a session's rank answers for all the events that the
\* list saw of it, its page shows the program's own of them as far as there is room, and
\* every event of an address that is listed counts for the country of that address
\* (handleViewRum, handleApiWebTrafficGeo).
THEOREM VisitorsAreCounted ==
  ASSUME Visitors!RumPageAssumption
  PROVE  Visitors!Spec => [](Visitors!RanksCoverEvents /\ Visitors!CountriesAddUp)
<1>1. Visitors!Init => VisInv
  BY VisitorsStart
<1>2. VisInv /\ [Visitors!Next]_Visitors!vars => VisInv'
  <2> SUFFICES ASSUME VisInv, [Visitors!Next]_Visitors!vars PROVE VisInv'
    OBVIOUS
  <2>1. ASSUME NEW e \in RumEvents, Visitors!Arrive(e) PROVE VisInv'
    BY <2>1, EventArrives
  <2>2. ASSUME NEW q \in RumQueries, Visitors!ListSessions(q) PROVE VisInv'
    BY <2>2, SessionsAreListed
  <2>3. ASSUME NEW q \in RumQueries, Visitors!ListEvents(q) PROVE VisInv'
    BY <2>3, EventsAreListed
  <2>4. ASSUME NEW q \in RumQueries, Visitors!ReadTraffic(q) PROVE VisInv'
    BY <2>4, TrafficIsRead
  <2>5. CASE Visitors!ReadEvents
    BY <2>5, EventsAreRead
  <2>6. CASE UNCHANGED Visitors!vars
    BY <2>6 DEF Visitors!vars, VisInv, ListTrue, EventsTrue, TableTrue, Counted
  <2> QED
    BY <2>1, <2>2, <2>3, <2>4, <2>5, <2>6 DEF Visitors!Next
<1>3. VisInv => Visitors!RanksCoverEvents /\ Visitors!CountriesAddUp
  BY VisitorsMean
<1> QED
  BY <1>1, <1>2, <1>3, PTL DEF Visitors!Spec

-----------------------------------------------------------------------------
(* Charts.                                                                 *)

Severities == {"normal", "warning", "outlier"}
RuleTypes == {"seasonal", "composite", "threshold"}
SeriesRow == {Chart!Stored(s, n) : s \in Samples, n \in Nat}

\* What a rule that reads one series says of a row, whatever the table holds.
Plainly(r, row) == IF r.type = "seasonal" THEN Chart!evaluateSeasonalRule(r, row)
                   ELSE Chart!evaluateThresholdRule(r, row)
ShownAll ==
    (Chart!Overlay /\ chart.spec.roles = <<>> /\ chart.spec.order = Chart!Roles) =>
        \A i \in DOMAIN chart.rows :
            /\ chart.option.value[i].point.rank >= Chart!anomalySeverityRank[chart.rows[i].state]
            /\ \A r \in chart.judged :
                   (r.signal = chart.rows[i].signal /\ r.type # "composite") =>
                       chart.option.value[i].point.rank >= Chart!anomalySeverityRank[Plainly(r, chart.rows[i])]
ChartInv ==
    /\ series \in Seq(SeriesRow)
    /\ anomalyRules \in SUBSET AnomalyRules
    /\ chart.at = "render" => chart.rows \in Seq(SeriesRow)
    /\ ShownAll

LEMMA RanksAreNumbers == \A s \in Severities : Chart!anomalySeverityRank[s] \in 0 .. 2
BY DEF Severities, Chart!anomalySeverityRank

LEMMA WorstIsWorst ==
  ASSUME NEW a \in Severities, NEW b \in Severities
  PROVE  /\ Chart!Worst({a, b}) \in Severities
         /\ Chart!anomalySeverityRank[Chart!Worst({a, b})] >= Chart!anomalySeverityRank[a]
         /\ Chart!anomalySeverityRank[Chart!Worst({a, b})] >= Chart!anomalySeverityRank[b]
<1>1. \E s \in {a, b} : \A t \in {a, b} : Chart!anomalySeverityRank[s] >= Chart!anomalySeverityRank[t]
  <2>1. /\ Chart!anomalySeverityRank[a] \in Int
        /\ Chart!anomalySeverityRank[b] \in Int
    BY RanksAreNumbers
  <2>2. CASE Chart!anomalySeverityRank[a] >= Chart!anomalySeverityRank[b]
    BY <2>1, <2>2
  <2>3. CASE Chart!anomalySeverityRank[b] >= Chart!anomalySeverityRank[a]
    BY <2>1, <2>3
  <2> QED
    BY <2>1, <2>2, <2>3
<1>2. /\ Chart!Worst({a, b}) \in {a, b}
      /\ \A t \in {a, b} : Chart!anomalySeverityRank[Chart!Worst({a, b})] >= Chart!anomalySeverityRank[t]
  BY <1>1 DEF Chart!Worst
<1> QED
  BY <1>2

LEMMA ConditionIsSeverity ==
  \A cmp, warn, crit, row, min : Chart!evaluateThresholdCondition(cmp, warn, crit, row, min) \in Severities
BY DEF Chart!evaluateThresholdCondition, Severities

LEMMA PlainIsSeverity ==
  \A r, row : Plainly(r, row) \in Severities
BY ConditionIsSeverity DEF Plainly, Chart!evaluateSeasonalRule, Chart!evaluateThresholdRule

LEMMA VerdictIsSeverity ==
  ASSUME NEW r, NEW row, NEW rows
  PROVE  /\ Chart!EvaluateRule(r, row, rows) \in Severities
         /\ r.type # "composite" => Chart!EvaluateRule(r, row, rows) = Plainly(r, row)
<1>1. CASE r.type = "composite"
  <2>1. Chart!evaluateThresholdRule(r, row) \in Severities
    BY ConditionIsSeverity DEF Chart!evaluateThresholdRule
  <2>2. Chart!evaluateCompositeRule(r, row, rows) \in Severities
    <3>1. "normal" \in Severities
      BY DEF Severities
    <3> QED
      BY <2>1, <3>1, ConditionIsSeverity, WorstIsWorst DEF Chart!evaluateCompositeRule
  <2> QED
    BY <1>1, <2>2 DEF Chart!EvaluateRule
<1>2. CASE r.type = "seasonal"
  BY <1>2, PlainIsSeverity DEF Chart!EvaluateRule, Plainly
<1>3. CASE r.type \notin {"composite", "seasonal"}
  BY <1>3, PlainIsSeverity DEF Chart!EvaluateRule, Plainly
<1> QED
  BY <1>1, <1>2, <1>3

\* The rows of a signal are rows of the table.
LEMMA SelectedAreRows ==
  ASSUME series \in Seq(SeriesRow), NEW signal
  PROVE  Chart!Selected(signal) \in Seq(SeriesRow)
<1> DEFINE D == DOMAIN series
           X == Seq(SeriesRow)
           Step(G, T) == IF T = {} THEN <<>>
                         ELSE IF Chart!Shows(signal, series[Chart!Max(T)])
                              THEN Append(G[T \ {Chart!Max(T)}], series[Chart!Max(T)])
                              ELSE G[T \ {Chart!Max(T)}]
           Fold == CHOOSE G : G = [T \in SUBSET D |-> Step(G, T)]
           c == [T \in (SUBSET D) \ {{}} |-> Chart!Max(T)]
           g == [i \in D |-> [v \in X |-> IF Chart!Shows(signal, series[i])
                                          THEN Append(v, series[i]) ELSE v]]
<1>1. Chart!Selected(signal) = Fold[D]
  BY DEF Chart!Selected, Chart!FoldLeft, Chart!MapThenFoldSet
<1>2. D \in SUBSET Nat /\ IsFiniteSet(D) /\ \A i \in D : series[i] \in SeriesRow
  <2>1. D = 1 .. Len(series) /\ Len(series) \in Nat
    OBVIOUS
  <2> QED
    BY <2>1, FS_Interval
<1> HIDE DEF D
<1>3. \A T \in (SUBSET D) \ {{}} : Chart!Max(T) \in T
  <2> SUFFICES ASSUME NEW T \in SUBSET D, T # {} PROVE Chart!Max(T) \in T
    OBVIOUS
  <2>1. T \in SUBSET Nat /\ IsFiniteSet(T)
    BY <1>2, FS_Subset
  <2>2. PICK m \in T : \A j \in T : j <= m
    BY <2>1, FiniteMax
  <2>3. \A j \in T : m >= j
    BY <2>1, <2>2
  <2> QED
    BY <2>3 DEF Chart!Max
<1>4. <<>> \in X /\ \A i \in D, v \in X : Append(v, series[i]) \in X
  BY <1>2
<1> HIDE DEF X
<1>5. \A i \in D, v \in X : g[i][v] = IF Chart!Shows(signal, series[i])
                                          THEN Append(v, series[i]) ELSE v
  OBVIOUS
<1>6. \A T \in (SUBSET D) \ {{}} : c[T] = Chart!Max(T) /\ c[T] \in T
  BY <1>3
<1> HIDE DEF c, g
<1>7. PICK F \in [SUBSET D -> X] :
         \A T \in SUBSET D : F[T] = IF T = {} THEN <<>> ELSE g[c[T]][F[T \ {c[T]}]]
  <2>1. \A i \in D, v \in X : g[i][v] \in X
    BY <1>4, <1>5
  <2>2. \A T \in SUBSET D : T # {} => c[T] \in T
    BY <1>6
  <2>3. IsFiniteSet(D)
    BY <1>2
  <2>4. CanFold(D, X, c, g)
    BY <2>1, <2>2 DEF CanFold
  <2>5. \E F : IsFold(F, D, X, <<>>, c, g)
    BY <1>4, <2>3, <2>4, FoldExists
  <2> QED
    BY <2>5 DEF IsFold
<1>8. \A T \in SUBSET D : F[T] = Step(F, T)
  <2> SUFFICES ASSUME NEW T \in SUBSET D PROVE F[T] = Step(F, T)
    OBVIOUS
  <2>1. F[T] = IF T = {} THEN <<>> ELSE g[c[T]][F[T \ {c[T]}]]
    BY <1>7
  <2>2. CASE T = {}
    BY <2>1, <2>2
  <2>3. CASE T # {}
    <3>1. c[T] = Chart!Max(T) /\ c[T] \in D /\ T \ {c[T]} \in SUBSET D
      BY <1>6, <2>3
    <3>2. F[T \ {c[T]}] \in X
      BY <3>1
    <3>3. F[T] = g[c[T]][F[T \ {c[T]}]]
      BY <2>1, <2>3
    <3> QED
      BY <1>5, <2>3, <3>1, <3>2, <3>3
  <2> QED
    BY <2>2, <2>3
<1>9. F = [T \in SUBSET D |-> Step(F, T)]
  <2> HIDE DEF Step
  <2> QED
    BY <1>8
<1> HIDE DEF Step
<1>10. Fold = [T \in SUBSET D |-> Step(Fold, T)]
  BY <1>9
<1> HIDE DEF Fold
<1> DEFINE Q == {T \in SUBSET D : Fold[T] \in X}
<1>11. ASSUME NEW T \in SUBSET D, \A x \in T : T \ {x} \in Q PROVE T \in Q
  <2>1. Fold[T] = Step(Fold, T)
    BY <1>10
  <2>2. Step(Fold, T) \in X
    <3>1. CASE T = {}
      BY <1>4, <3>1 DEF Step
    <3>2. CASE T # {}
      <4>1. Chart!Max(T) \in T
        BY <1>3, <3>2
      <4>2. Fold[T \ {Chart!Max(T)}] \in X /\ Chart!Max(T) \in D
        BY <1>11, <4>1
      <4> QED
        BY <1>4, <3>2, <4>2 DEF Step
    <3> QED
      BY <3>1, <3>2
  <2> QED
    BY <2>1, <2>2
<1>12. D \in Q
  <2>1. \A T \in SUBSET D : (\A x \in T : T \ {x} \in Q) => T \in Q
    BY <1>11
  <2>2. IsFiniteSet(D)
    BY <1>2
  <2> HIDE DEF Q
  <2>3. \A T \in SUBSET D : T \in Q
    BY <2>1, <2>2, SubsetsAreReached
  <2> QED
    BY <2>3
<1> QED
  BY <1>1, <1>12 DEF Q, X

\* A row of the table is a record of its fields.
LEMMA RowsAreRecords ==
  ASSUME Chart!ChartsAssumption, NEW row \in SeriesRow
  PROVE  /\ row = [f \in DOMAIN row |-> row[f]]
         /\ DOMAIN row = {"signal", "value", "mean", "lower", "upper", "count", "state", "at",
                          "rule", "effective"}
         /\ row.state \in Severities
BY DEF SeriesRow, Chart!Stored, Chart!ChartsAssumption, Severities

LEMMA RolesStay ==
  /\ Chart!Range(Chart!Roles) = {"value", "mean", "lower", "upper"}
  /\ DOMAIN Chart!Roles = 1 .. 4
  /\ \A f \in Chart!Range(Chart!Roles) :
        /\ (CHOOSE k \in DOMAIN Chart!Roles : Chart!Roles[k] = f) \in 1 .. 4
        /\ Chart!Roles[CHOOSE k \in DOMAIN Chart!Roles : Chart!Roles[k] = f] = f
<1>1. DOMAIN Chart!Roles = 1 .. 4
  BY DEF Chart!Roles
<1>2. Chart!Range(Chart!Roles) = {Chart!Roles[k] : k \in DOMAIN Chart!Roles}
  BY DEF Chart!Range
<1>3. Chart!Range(Chart!Roles) = {"value", "mean", "lower", "upper"}
  BY <1>1, <1>2 DEF Chart!Roles
<1> QED
  BY <1>1, <1>2, <1>3

\* Columns that are in the order of the template are read as they are.
LEMMA RolesInOrder ==
  ASSUME Chart!ChartsAssumption, NEW row \in SeriesRow,
         NEW places, places = [k \in DOMAIN Chart!Roles |-> k]
  PROVE  Chart!ByRole(row, Chart!Roles, places) = row
<1>1. \A f \in Chart!Range(Chart!Roles) :
        Chart!Roles[places[CHOOSE k \in DOMAIN Chart!Roles : Chart!Roles[k] = f]] = f
  BY RolesStay
<1>2. Chart!ByRole(row, Chart!Roles, places) = [f \in DOMAIN row |-> row[f]]
  BY <1>1 DEF Chart!ByRole
<1> QED
  BY <1>2, RowsAreRecords

\* Of the rules that fire there is one that no other is above.
LEMMA BestRuleIsThere ==
  ASSUME Chart!ChartsAssumption, NEW firing \in SUBSET AnomalyRules, firing # {},
         NEW says, \A r \in firing : says[r] \in Severities
  PROVE  \E r \in firing : \A q \in firing :
            \/ Chart!anomalySeverityRank[says[r]] > Chart!anomalySeverityRank[says[q]]
            \/ /\ Chart!anomalySeverityRank[says[r]] = Chart!anomalySeverityRank[says[q]]
               /\ Chart!typeRank[r.type] >= Chart!typeRank[q.type]
<1> DEFINE severity == [r \in firing |-> Chart!anomalySeverityRank[says[r]]]
           type == [r \in firing |-> Chart!typeRank[r.type]]
           key == [r \in firing |-> 4 * severity[r] + type[r]]
           K == {key[r] : r \in firing}
<1>1. \A r \in firing : severity[r] \in 0 .. 2 /\ type[r] \in 1 .. 3
  <2>1. \A r \in firing : severity[r] \in 0 .. 2
    BY RanksAreNumbers
  <2>2. \A r \in firing : Chart!typeRank[r.type] \in 1 .. 3
    <3>1. \A r \in firing : r.type \in {"seasonal", "composite", "threshold"}
      BY DEF Chart!ChartsAssumption
    <3> QED
      BY <3>1 DEF Chart!typeRank
  <2> QED
    BY <2>1, <2>2
<1>2. \A r \in firing : severity[r] = Chart!anomalySeverityRank[says[r]] /\ type[r] = Chart!typeRank[r.type]
  OBVIOUS
<1> HIDE DEF severity, type
<1>3. \A r \in firing : key[r] = 4 * severity[r] + type[r] /\ key[r] \in 0 .. 11
  BY <1>1
<1>4. K \in SUBSET (0 .. 11) /\ K # {}
  <2>1. PICK r \in firing : TRUE
    OBVIOUS
  <2>2. key[r] \in K
    BY <2>1
  <2>3. \A q \in firing : key[q] \in 0 .. 11
    BY <1>3
  <2> HIDE DEF key
  <2> QED
    BY <2>2, <2>3
<1>5. PICK m \in K : \A n \in K : n <= m
  <2>1. 11 \in Nat
    OBVIOUS
  <2> HIDE DEF K
  <2> QED
    BY <1>4, <2>1, MaxExists
<1>6. PICK r \in firing : m = key[r]
  OBVIOUS
<1>7. \A q \in firing : key[q] <= key[r]
  BY <1>5, <1>6
<1> HIDE DEF key, K
<1>8. \A q \in firing : severity[r] > severity[q] \/ (severity[r] = severity[q] /\ type[r] >= type[q])
  BY <1>1, <1>3, <1>7
<1> QED
  BY <1>2, <1>8

\* Where rows are judged, each is as alarming as its state and each rule on it.
LEMMA RowsAreJudged ==
  ASSUME Chart!ChartsAssumption, NEW rows \in Seq(SeriesRow), NEW known \in SUBSET AnomalyRules,
         NEW i \in DOMAIN rows
  PROVE  \E v \in Severities :
            /\ Chart!annotateRowsWithRules(rows, known)[i]
                 = [rows[i] EXCEPT !.rule = v, !.effective = Chart!Worst({rows[i].state, v})]
            /\ \A r \in known : (r.signal = rows[i].signal /\ r.type # "composite") =>
                 Chart!anomalySeverityRank[v] >= Chart!anomalySeverityRank[Plainly(r, rows[i])]
<1> DEFINE row == rows[i]
           firing == Chart!Firing(row, rows, known)
           says == [r \in known |-> Chart!EvaluateRule(r, row, rows)]
           Severity(r) == Chart!anomalySeverityRank[Chart!EvaluateRule(r, row, rows)]
           Above(r, q) == \/ Severity(r) > Severity(q)
                          \/ Severity(r) = Severity(q) /\ Chart!typeRank[r.type] >= Chart!typeRank[q.type]
           best == CHOOSE r \in firing : \A q \in firing : Above(r, q)
           v == IF firing = {} THEN "normal" ELSE Chart!EvaluateRule(best, row, rows)
<1>1. Chart!annotateRowsWithRules(rows, known)[i]
        = [row EXCEPT !.rule = v, !.effective = Chart!Worst({row.state, v})]
  BY DEF Chart!annotateRowsWithRules
<1>2. firing \in SUBSET known /\ firing \in SUBSET AnomalyRules
  BY DEF Chart!Firing
<1>3. \A r \in known : (r.signal = row.signal /\ Chart!EvaluateRule(r, row, rows) # "normal") => r \in firing
  BY DEF Chart!Firing, Chart!ruleMatchesSeries
<1>4. \A r \in known : says[r] = Chart!EvaluateRule(r, row, rows) /\ says[r] \in Severities
  BY VerdictIsSeverity
<1> HIDE DEF firing, says
<1>5. firing # {} => best \in firing /\ \A q \in firing : Severity(best) >= Severity(q)
  <2> SUFFICES ASSUME firing # {} PROVE best \in firing /\ \A q \in firing : Severity(best) >= Severity(q)
    OBVIOUS
  <2>1. \A r \in firing : says[r] \in Severities
    BY <1>2, <1>4
  <2>2. \E r \in firing : \A q \in firing :
            \/ Chart!anomalySeverityRank[says[r]] > Chart!anomalySeverityRank[says[q]]
            \/ /\ Chart!anomalySeverityRank[says[r]] = Chart!anomalySeverityRank[says[q]]
               /\ Chart!typeRank[r.type] >= Chart!typeRank[q.type]
    BY <1>2, <2>1, BestRuleIsThere
  <2>3. \E r \in firing : \A q \in firing : Above(r, q)
    BY <1>2, <1>4, <2>2
  <2>4. best \in firing /\ \A q \in firing : Above(best, q)
    <3> HIDE DEF Above
    <3> QED
      BY <2>3
  <2>5. \A q \in firing : Severity(q) \in 0 .. 2
    BY <1>2, <1>4, RanksAreNumbers
  <2> HIDE DEF best, Severity
  <2> QED
    BY <2>4, <2>5
<1> HIDE DEF best
<1>6. v \in Severities
  <2>1. "normal" \in Severities
    BY DEF Severities
  <2> QED
    BY <2>1, VerdictIsSeverity
<1>7. ASSUME NEW r \in known, r.signal = row.signal, r.type # "composite"
      PROVE  Chart!anomalySeverityRank[v] >= Chart!anomalySeverityRank[Plainly(r, row)]
  <2>1. Plainly(r, row) = Chart!EvaluateRule(r, row, rows) /\ Plainly(r, row) \in Severities
    BY <1>7, VerdictIsSeverity
  <2>2. CASE Plainly(r, row) = "normal"
    <3>1. Chart!anomalySeverityRank[Plainly(r, row)] = 0
      BY <2>2 DEF Chart!anomalySeverityRank
    <3>2. Chart!anomalySeverityRank[v] \in 0 .. 2
      BY <1>6, RanksAreNumbers
    <3> QED
      BY <3>1, <3>2
  <2>3. CASE Plainly(r, row) # "normal"
    <3>1. r \in firing
      BY <1>3, <1>7, <2>1, <2>3
    <3>2. Severity(best) >= Severity(r) /\ v = Chart!EvaluateRule(best, row, rows)
      BY <1>5, <3>1
    <3> QED
      BY <2>1, <3>2
  <2> QED
    BY <2>2, <2>3
<1> HIDE DEF v
<1> QED
  BY <1>1, <1>6, <1>7

LEMMA DrawnAsJudged ==
  ASSUME Chart!ChartsAssumption, NEW rows \in Seq(SeriesRow), NEW known \in SUBSET AnomalyRules,
         NEW sp, sp.order = Chart!Roles,
         NEW places, places = [k \in DOMAIN Chart!Roles |-> k],
         NEW i \in DOMAIN rows
  PROVE  /\ Chart!DrawOverlay(rows, sp, places, known).value[i].point.rank
              >= Chart!anomalySeverityRank[rows[i].state]
         /\ \A r \in known : (r.signal = rows[i].signal /\ r.type # "composite") =>
              Chart!DrawOverlay(rows, sp, places, known).value[i].point.rank
                >= Chart!anomalySeverityRank[Plainly(r, rows[i])]
<1> DEFINE judged == Chart!annotateRowsWithRules(rows, known)
           bound == [k \in DOMAIN judged |-> Chart!extractBindings(judged[k], places)]
           points == [k \in DOMAIN bound |->
                         Chart!extractDerivedSignalBindings(bound[k], sp.signal = "error_ratio")]
<1>1. Chart!prepareTemplateRows(rows, sp.order, places, known) = judged
  <2>1. \A k \in DOMAIN rows : Chart!ByRole(rows[k], Chart!Roles, places) = rows[k]
    BY RolesInOrder
  <2>2. [k \in DOMAIN rows |-> Chart!ByRole(rows[k], sp.order, places)] = rows
    BY <2>1
  <2> QED
    BY <2>2 DEF Chart!prepareTemplateRows
<1>2. DOMAIN judged = DOMAIN rows
  BY DEF Chart!annotateRowsWithRules
<1>3. Chart!DrawOverlay(rows, sp, places, known).value = Chart!attachDrilldownMetadata(points)
  BY <1>1 DEF Chart!DrawOverlay
<1> HIDE DEF judged
<1>4. Chart!attachDrilldownMetadata(points)[i].point = points[i]
  BY <1>2 DEF Chart!attachDrilldownMetadata
<1>5. points[i].rank = Chart!anomalySeverityRank[bound[i].effective]
  BY <1>2 DEF Chart!extractDerivedSignalBindings
<1>6. PICK v \in Severities :
            /\ judged[i] = [rows[i] EXCEPT !.rule = v, !.effective = Chart!Worst({rows[i].state, v})]
            /\ \A r \in known : (r.signal = rows[i].signal /\ r.type # "composite") =>
                 Chart!anomalySeverityRank[v] >= Chart!anomalySeverityRank[Plainly(r, rows[i])]
  BY RowsAreJudged DEF judged
<1>7. rows[i] \in SeriesRow
  OBVIOUS
<1>8. "effective" \in DOMAIN judged[i] /\ judged[i].effective = Chart!Worst({rows[i].state, v})
  BY <1>6, <1>7, RowsAreRecords
<1>9. bound[i].effective = judged[i].effective
  <2>1. bound[i] = Chart!extractBindings(judged[i], places)
    BY <1>2
  <2>2. "effective" \notin Chart!Range(Chart!Roles)
    BY RolesStay
  <2> HIDE DEF bound
  <2> QED
    BY <1>8, <2>1, <2>2 DEF Chart!extractBindings, Chart!ByRole
<1> HIDE DEF points, bound
<1>10. Chart!DrawOverlay(rows, sp, places, known).value[i].point.rank
         = Chart!anomalySeverityRank[Chart!Worst({rows[i].state, v})]
  BY <1>3, <1>4, <1>5, <1>8, <1>9
<1>11. rows[i].state \in Severities
  BY <1>7, RowsAreRecords
<1>12. /\ Chart!Worst({rows[i].state, v}) \in Severities
       /\ Chart!anomalySeverityRank[Chart!Worst({rows[i].state, v})] >= Chart!anomalySeverityRank[rows[i].state]
       /\ Chart!anomalySeverityRank[Chart!Worst({rows[i].state, v})] >= Chart!anomalySeverityRank[v]
  BY <1>11, WorstIsWorst
<1>13. /\ Chart!anomalySeverityRank[v] \in 0 .. 2
       /\ Chart!anomalySeverityRank[Chart!Worst({rows[i].state, v})] \in 0 .. 2
       /\ \A r : Chart!anomalySeverityRank[Plainly(r, rows[i])] \in 0 .. 2
  BY <1>12, RanksAreNumbers, PlainIsSeverity
<1> QED
  BY <1>6, <1>10, <1>12, <1>13

LEMMA NoRoleIsPlaced ==
  ASSUME NEW sp, sp.roles = <<>>
  PROVE  Chart!resolveTemplateRoleIndices(sp) = [k \in DOMAIN Chart!Roles |-> k]
<1>1. DOMAIN sp.roles = {}
  OBVIOUS
<1> QED
  BY <1>1 DEF Chart!resolveTemplateRoleIndices

LEMMA ChartStarts == Chart!Init => ChartInv
<1> SUFFICES ASSUME Chart!Init PROVE ChartInv
  OBVIOUS
<1>1. series \in Seq(SeriesRow) /\ anomalyRules \in SUBSET AnomalyRules /\ chart = [at |-> "idle"]
  BY DEF Chart!Init
<1>2. chart.at = "idle"
  BY <1>1
<1> QED
  BY <1>1, <1>2 DEF ChartInv, ShownAll, Chart!Overlay, Chart!Drawn

LEMMA TableIsKept ==
  ASSUME ChartInv, Chart!Arrive \/ Chart!SaveRule \/ Chart!DeleteRule
  PROVE  ChartInv'
<1>1. series' \in Seq(SeriesRow)
  <2>1. CASE Chart!Arrive
    <3>1. PICK s \in Samples : series' = Append(series, Chart!Stored(s, Len(series)))
      BY <2>1 DEF Chart!Arrive
    <3>2. series \in Seq(SeriesRow) /\ Len(series) \in Nat
      BY DEF ChartInv
    <3>3. Chart!Stored(s, Len(series)) \in SeriesRow
      BY <3>2 DEF SeriesRow
    <3> QED
      BY <3>1, <3>2, <3>3
  <2>2. CASE Chart!SaveRule \/ Chart!DeleteRule
    BY <2>2 DEF ChartInv, Chart!SaveRule, Chart!DeleteRule
  <2> QED
    BY <2>1, <2>2
<1>2. anomalyRules' \in SUBSET AnomalyRules
  BY DEF ChartInv, Chart!Arrive, Chart!SaveRule, Chart!DeleteRule
<1>3. chart' = chart
  BY DEF Chart!Arrive, Chart!SaveRule, Chart!DeleteRule
<1>4. ShownAll'
  BY <1>3 DEF ChartInv, ShownAll, Chart!Overlay, Chart!Drawn
<1>5. chart'.at = "render" => chart'.rows \in Seq(SeriesRow)
  BY <1>3 DEF ChartInv
<1> QED
  BY <1>1, <1>2, <1>4, <1>5 DEF ChartInv

LEMMA FailedIsNotDrawn ==
  ASSUME NEW a, a = [at |-> "done", option |-> Chart!Failed]
  PROVE  a.at = "done" /\ a.option = Chart!Failed
OBVIOUS

LEMMA SpecIsCompiled ==
  ASSUME ChartInv, Chart!CompileSpec
  PROVE  ChartInv'
<1>1. UNCHANGED <<series, anomalyRules>>
  BY DEF Chart!CompileSpec
<1>2. chart'.at = "query" \/ chart' = [at |-> "done", option |-> Chart!Failed]
  <2>1. PICK sp \in Specs, saved \in BOOLEAN :
          LET asked == IF saved THEN Chart!buildRawChartSpec("anomaly_overlay", "SELECT", sp) ELSE sp
              compiled == Chart!compileChartSpec(asked)
          IN chart' = IF compiled = Chart!Failed THEN [at |-> "done", option |-> Chart!Failed]
                      ELSE [at |-> "query", spec |-> compiled.spec, query |-> compiled.query]
    BY DEF Chart!CompileSpec
  <2> QED
    BY <2>1
<1>3. ~ (Chart!Drawn)' /\ chart'.at # "render"
  BY <1>2, FailedIsNotDrawn DEF Chart!Drawn
<1> QED
  BY <1>1, <1>3 DEF ChartInv, ShownAll, Chart!Overlay

LEMMA ChartIsExecuted ==
  ASSUME ChartInv, Chart!ExecuteChart
  PROVE  ChartInv'
<1>1. UNCHANGED <<series, anomalyRules>>
  BY DEF Chart!ExecuteChart
<1>2. \/ chart' = [at |-> "done", option |-> Chart!Failed]
      \/ chart'.at = "render" /\ chart'.rows = Chart!Selected(chart.query.body.signal)
  BY DEF Chart!ExecuteChart
<1>3. ~ (Chart!Drawn)'
  BY <1>2, FailedIsNotDrawn DEF Chart!Drawn
<1>4. chart'.at = "render" => chart'.rows \in Seq(SeriesRow)
  <2>1. series \in Seq(SeriesRow)
    BY DEF ChartInv
  <2>2. Chart!Selected(chart.query.body.signal) \in Seq(SeriesRow)
    BY <2>1, SelectedAreRows
  <2> QED
    BY <1>2, <2>2, FailedIsNotDrawn
<1> QED
  BY <1>1, <1>3, <1>4 DEF ChartInv, ShownAll, Chart!Overlay

LEMMA ChartIsRendered ==
  ASSUME Chart!ChartsAssumption, ChartInv, Chart!RenderChart
  PROVE  ChartInv'
<1> DEFINE rows == chart.rows
           sp == chart.spec
           places == Chart!resolveTemplateRoleIndices(sp)
<1>1. UNCHANGED <<series, anomalyRules>>
  BY DEF Chart!RenderChart
<1>2. /\ chart'.at = "done" /\ chart'.spec = sp /\ chart'.rows = rows /\ chart'.judged = anomalyRules
      /\ chart'.option = Chart!renderChartFromTemplate(rows, sp, chart.query.columns, anomalyRules)
  BY DEF Chart!RenderChart
<1>3. rows \in Seq(SeriesRow) /\ anomalyRules \in SUBSET AnomalyRules
  BY DEF ChartInv, Chart!RenderChart
<1>4. (Chart!Overlay)' => chart'.option = Chart!DrawOverlay(rows, sp, places, anomalyRules)
  BY <1>2 DEF Chart!Overlay, Chart!Drawn, Chart!renderChartFromTemplate
<1>5. ShownAll'
  <2> SUFFICES ASSUME (Chart!Overlay)', sp.roles = <<>>, sp.order = Chart!Roles, NEW i \in DOMAIN rows
               PROVE  /\ chart'.option.value[i].point.rank >= Chart!anomalySeverityRank[rows[i].state]
                      /\ \A r \in anomalyRules : (r.signal = rows[i].signal /\ r.type # "composite") =>
                           chart'.option.value[i].point.rank >= Chart!anomalySeverityRank[Plainly(r, rows[i])]
    BY <1>2 DEF ShownAll
  <2>1. places = [k \in DOMAIN Chart!Roles |-> k]
    BY NoRoleIsPlaced
  <2> HIDE DEF places, rows, sp
  <2> QED
    BY <1>3, <1>4, <2>1, DrawnAsJudged
<1>6. chart'.at # "render"
  BY <1>2
<1> QED
  BY <1>1, <1>3, <1>5, <1>6 DEF ChartInv

LEMMA ChartIsKept ==
  ASSUME Chart!ChartsAssumption, ChartInv, [Chart!Next]_Chart!vars
  PROVE  ChartInv'
<1>1. CASE Chart!Arrive \/ Chart!SaveRule \/ Chart!DeleteRule
  BY <1>1, TableIsKept
<1>2. CASE Chart!CompileSpec
  BY <1>2, SpecIsCompiled
<1>3. CASE Chart!ExecuteChart
  BY <1>3, ChartIsExecuted
<1>4. CASE Chart!RenderChart
  BY <1>4, ChartIsRendered
<1>5. CASE UNCHANGED Chart!vars
  BY <1>5 DEF ChartInv, ShownAll, Chart!Overlay, Chart!Drawn, Chart!vars
<1> QED
  BY <1>1, <1>2, <1>3, <1>4, <1>5 DEF Chart!Next

LEMMA ChartHidesNothing == ChartInv => Chart!NoAlarmIsHidden
<1> SUFFICES ASSUME ChartInv PROVE Chart!NoAlarmIsHidden
  OBVIOUS
<1>1. \A r, row, rows : r.type # "composite" => Chart!EvaluateRule(r, row, rows) = Plainly(r, row)
  BY VerdictIsSeverity
<1> QED
  BY <1>1 DEF ChartInv, ShownAll, Chart!NoAlarmIsHidden

\* No rule that fires is hidden by another, and no stored state by a rule: however
\* many rules of whatever kinds and thresholds judge a signal, and while samples
\* arrive and rules are saved and deleted between the reads of a request
\* (annotateRowsWithRules).
THEOREM NoAlarmHides ==
  ASSUME Chart!ChartsAssumption
  PROVE  Chart!Spec => []Chart!NoAlarmIsHidden
<1>1. Chart!Init => ChartInv
  BY ChartStarts
<1>2. ChartInv /\ [Chart!Next]_Chart!vars => ChartInv'
  BY ChartIsKept
<1>3. ChartInv => Chart!NoAlarmIsHidden
  BY ChartHidesNothing
<1> QED
  BY <1>1, <1>2, <1>3, PTL DEF Chart!Spec

-----------------------------------------------------------------------------
(* The page of AI turns.                                                   *)

LEMMA AiCounts == \A S : Ai!Cardinality(S) = Cardinality(S)
BY DEF Ai!Cardinality, Cardinality

LEMMA TokensAddUp == \A f : Ai!SumFunction(f) = Total(f)
BY DEF Ai!SumFunction, Ai!SumFunctionOnSet, Ai!FoldFunctionOnSet, Ai!MapThenFoldSet, Total

Statuses == {"in_progress", "completed", "blocked", "failed", "cancelled"}
Endings == {"turn.blocked", "turn.error", "turn.cancelled"}
ToolEvents == {"tool.proposed", "tool.executed"}
Tool(I, i) == [action |-> I[i].action, status |-> Ai!toolStatus(I[i])]

\* What a card tells of the spans at positions T of I.
OutcomeTold(I, T, t) ==
    /\ t.status \in Statuses
    /\ (t.status = "completed") <=>
          ((\E i \in T : I[i].event = "turn.complete") /\ \A i \in T : I[i].event \notin Endings)
    /\ (t.status = "in_progress") <=>
          ((\A i \in T : I[i].event # "turn.complete") /\ \A i \in T : I[i].event \notin Endings)
TimesTold(I, T, t) ==
    /\ t.started \in Nat /\ t.completed \in Nat
    /\ \A i \in T : t.started <= I[i].ts /\ I[i].ts <= t.completed
ToolsTold(I, T, t) ==
    /\ \A a, b \in DOMAIN t.tools : t.tools[a] = t.tools[b] => a = b
    /\ \A i \in T : I[i].event \in ToolEvents => \E k \in DOMAIN t.tools : t.tools[k] = Tool(I, i)
CostTold(I, T, t) == t.tokens = Total([i \in T |-> I[i].tokens])
Tells(I, T, id, t) ==
    t.turn = id /\ OutcomeTold(I, T, t) /\ TimesTold(I, T, t) /\ ToolsTold(I, T, t) /\ CostTold(I, T, t)

\* Positions of spans.
Positions(I) == /\ DOMAIN I \in SUBSET Nat /\ IsFiniteSet(DOMAIN I)
                /\ \A i \in DOMAIN I : I[i].ts \in Nat /\ I[i].tokens \in Nat
\* A turn in the making.
Makings(I) ==
    [turn : {I[i].turn : i \in DOMAIN I}, status : Statuses, started : Nat, completed : Nat,
     model : {""} \cup {I[i].model : i \in DOMAIN I}, tokens : Int,
     user : {<<>>} \cup {Ai!Item(I[i]).user : i \in DOMAIN I},
     reply : {<<>>} \cup {Ai!Item(I[i]).reply : i \in DOMAIN I},
     tools : Seq([action : {I[i].action : i \in DOMAIN I}, status : {"executed", "proposed"}])]

LEMMA ItemsAre ==
  \A s : /\ Ai!Item(s).turn = s.turn /\ Ai!Item(s).ts = s.ts /\ Ai!Item(s).event = s.event
         /\ Ai!Item(s).model = s.model /\ Ai!Item(s).tokens = s.tokens /\ Ai!Item(s).action = s.action
BY DEF Ai!Item

LEMMA OneOrTheOther == \A a, b, n : Ai!orElse(a, b, n) \in {a, b}
BY DEF Ai!orElse

LEMMA ToolMayBeAdded ==
  \A t, item : Ai!addTool(t, item) \in
      {t.tools, Append(t.tools, [action |-> item.action, status |-> Ai!toolStatus(item)])}
BY DEF Ai!addTool

LEMMA StatusIsOne ==
  \A t, item : t.status \in Statuses => Ai!status(t, item) \in Statuses
BY DEF Ai!status, Statuses

\* A tool is put on the card once.
LEMMA ToolIsAdded ==
  ASSUME NEW X, NEW t, NEW item, t.tools \in Seq(X),
         NEW tool \in X, tool = [action |-> item.action, status |-> Ai!toolStatus(item)],
         \A a, b \in DOMAIN t.tools : t.tools[a] = t.tools[b] => a = b
  PROVE  /\ Ai!addTool(t, item) \in Seq(X)
         /\ \A a, b \in DOMAIN Ai!addTool(t, item) :
                Ai!addTool(t, item)[a] = Ai!addTool(t, item)[b] => a = b
         /\ \A k \in DOMAIN t.tools : k \in DOMAIN Ai!addTool(t, item)
                                      /\ Ai!addTool(t, item)[k] = t.tools[k]
         /\ item.event \in ToolEvents =>
                \E k \in DOMAIN Ai!addTool(t, item) : Ai!addTool(t, item)[k] = tool
<1> DEFINE q == t.tools
           r == Ai!addTool(t, item)
           Known == \E k \in DOMAIN q : q[k] = tool
<1>1. r = IF item.event \notin ToolEvents \/ Known THEN q ELSE Append(q, tool)
  BY DEF Ai!addTool, Ai!Range, ToolEvents
<1>2. q \in Seq(X) /\ \A a, b \in DOMAIN q : q[a] = q[b] => a = b
  OBVIOUS
<1> HIDE DEF q, r
<1>3. r \in Seq(X) /\ (\A a, b \in DOMAIN r : r[a] = r[b] => a = b)
      /\ (\A k \in DOMAIN q : k \in DOMAIN r /\ r[k] = q[k])
      /\ (item.event \in ToolEvents => \E k \in DOMAIN r : r[k] = tool)
  <2>1. CASE item.event \notin ToolEvents \/ Known
    BY <1>1, <1>2, <2>1
  <2>2. CASE ~(item.event \notin ToolEvents \/ Known)
    <3>1. r = Append(q, tool)
      BY <1>1, <2>2
    <3>2. /\ r \in Seq(X) /\ DOMAIN q = 1 .. Len(q) /\ DOMAIN r = 1 .. (Len(q) + 1) /\ Len(q) \in Nat
          /\ r[Len(q) + 1] = tool /\ \A k \in 1 .. Len(q) : r[k] = q[k]
      BY <1>2, <3>1
    <3>3. \A k \in DOMAIN q : q[k] # tool
      BY <2>2
    <3>4. \A a, b \in DOMAIN r : r[a] = r[b] => a = b
      BY <1>2, <3>2, <3>3
    <3> QED
      BY <3>2, <3>4
  <2> QED
    BY <2>1, <2>2
<1> QED
  BY <1>3 DEF q, r

LEMMA StaysAMaking ==
  ASSUME NEW I, Positions(I), NEW x \in DOMAIN I, NEW t \in Makings(I)
  PROVE  Ai!absorb(t, Ai!Item(I[x])) \in Makings(I)
<1> DEFINE item == Ai!Item(I[x])
           X == [action : {I[i].action : i \in DOMAIN I}, status : {"executed", "proposed"}]
           a == Ai!absorb(t, item)
<1>1. item.turn = I[x].turn /\ item.ts \in Nat /\ item.tokens \in Nat /\ item.model = I[x].model
      /\ item.action = I[x].action
  BY ItemsAre DEF Positions
<1>2. /\ t.turn \in {I[i].turn : i \in DOMAIN I} /\ t.status \in Statuses /\ t.started \in Nat
      /\ t.completed \in Nat /\ t.tokens \in Int /\ t.tools \in Seq(X)
  BY DEF Makings
<1>11. /\ t.model \in {""} \cup {I[i].model : i \in DOMAIN I}
       /\ t.user \in {<<>>} \cup {Ai!Item(I[i]).user : i \in DOMAIN I}
       /\ t.reply \in {<<>>} \cup {Ai!Item(I[i]).reply : i \in DOMAIN I}
  BY DEF Makings
<1>3. Ai!orElse(t.model, item.model, "") \in {""} \cup {I[i].model : i \in DOMAIN I}
  <2>1. Ai!orElse(t.model, item.model, "") \in {t.model, item.model}
    BY OneOrTheOther
  <2> QED
    BY <1>1, <1>11, <2>1
<1>4. Ai!orElse(t.user, item.user, <<>>) \in {<<>>} \cup {Ai!Item(I[i]).user : i \in DOMAIN I}
  <2>1. Ai!orElse(t.user, item.user, <<>>) \in {t.user, item.user}
    BY OneOrTheOther
  <2> QED
    BY <1>11, <2>1
<1>5. Ai!addTool(t, item) \in Seq(X)
  <2>1. [action |-> item.action, status |-> Ai!toolStatus(item)] \in X
    BY <1>1 DEF Ai!toolStatus
  <2>2. Ai!addTool(t, item) \in
           {t.tools, Append(t.tools, [action |-> item.action, status |-> Ai!toolStatus(item)])}
    BY ToolMayBeAdded
  <2> HIDE DEF X, item
  <2>3. Append(t.tools, [action |-> item.action, status |-> Ai!toolStatus(item)]) \in Seq(X)
    BY <1>2, <2>1
  <2> QED
    BY <1>2, <2>2, <2>3
<1>6. Ai!status(t, item) \in Statuses
  BY <1>2, StatusIsOne
<1> HIDE DEF item, X
<1>7. item.reply \in {<<>>} \cup {Ai!Item(I[i]).reply : i \in DOMAIN I}
  BY DEF item
<1>8. /\ a.turn \in {I[i].turn : i \in DOMAIN I} /\ a.status \in Statuses /\ a.started \in Nat
      /\ a.completed \in Nat /\ a.model \in {""} \cup {I[i].model : i \in DOMAIN I} /\ a.tokens \in Int
      /\ a.user \in {<<>>} \cup {Ai!Item(I[i]).user : i \in DOMAIN I}
      /\ a.reply \in {<<>>} \cup {Ai!Item(I[i]).reply : i \in DOMAIN I}
      /\ a.tools \in Seq(X)
  <2>1. /\ a.turn = t.turn /\ a.status = Ai!status(t, item)
        /\ a.started = IF item.ts < t.started THEN item.ts ELSE t.started
        /\ a.completed = IF item.ts > t.completed THEN item.ts ELSE t.completed
        /\ a.tokens = t.tokens + item.tokens /\ a.tools = Ai!addTool(t, item)
    BY DEF Ai!absorb
  <2>0. /\ a.model = Ai!orElse(t.model, item.model, "")
        /\ a.user = Ai!orElse(t.user, item.user, <<>>) /\ a.reply \in {item.reply, t.reply}
    BY DEF Ai!absorb
  <2> HIDE DEF a
  <2>2. a.started \in Nat /\ a.completed \in Nat /\ a.tokens \in Int
    BY <1>1, <1>2, <2>1
  <2>3. a.turn \in {I[i].turn : i \in DOMAIN I} /\ a.status \in Statuses /\ a.tools \in Seq(X)
    BY <1>2, <1>5, <1>6, <2>1
  <2>4. a.model \in {""} \cup {I[i].model : i \in DOMAIN I}
    BY <1>3, <2>0, Zenon
  <2>5. a.user \in {<<>>} \cup {Ai!Item(I[i]).user : i \in DOMAIN I}
    BY <1>4, <2>0, Zenon
  <2>6. a.reply \in {<<>>} \cup {Ai!Item(I[i]).reply : i \in DOMAIN I}
    <3>1. CASE a.reply = item.reply
      BY <1>7, <3>1
    <3>2. CASE a.reply = t.reply
      BY <1>11, <3>2
    <3> QED
      BY <2>0, <3>1, <3>2
  <2> QED
    BY <2>2, <2>3, <2>4, <2>5, <2>6
<1>9. a = [turn |-> a.turn, status |-> a.status, started |-> a.started, completed |-> a.completed,
           model |-> a.model, tokens |-> a.tokens, user |-> a.user, reply |-> a.reply, tools |-> a.tools]
  BY DEF Ai!absorb
<1> HIDE DEF a
<1>10. a \in Makings(I)
  BY <1>8, <1>9 DEF Makings, X
<1> QED
  BY <1>10 DEF a, item

\* A card that tells of some spans and takes in one more tells of that one too.
LEMMA AbsorbTells ==
  ASSUME NEW I, Positions(I), NEW T \in SUBSET DOMAIN I, NEW x \in T, NEW id, NEW t \in Makings(I),
         Tells(I, T \ {x}, id, t)
  PROVE  Tells(I, T, id, Ai!absorb(t, Ai!Item(I[x])))
<1> DEFINE item == Ai!Item(I[x])
           a == Ai!absorb(t, item)
           U == T \ {x}
<1>1. item.ts = I[x].ts /\ item.tokens = I[x].tokens /\ item.event = I[x].event
      /\ item.action = I[x].action /\ I[x].ts \in Nat /\ I[x].tokens \in Nat
  BY ItemsAre DEF Positions
<1>2. /\ a.turn = t.turn /\ a.status = Ai!status(t, item)
      /\ a.started = IF item.ts < t.started THEN item.ts ELSE t.started
      /\ a.completed = IF item.ts > t.completed THEN item.ts ELSE t.completed
      /\ a.tokens = t.tokens + item.tokens /\ a.tools = Ai!addTool(t, item)
  BY DEF Ai!absorb
<1>3. x \in T /\ U \in SUBSET DOMAIN I /\ \A i : i \in T <=> i = x \/ i \in U
  OBVIOUS
<1>4. Tells(I, U, id, t)
  OBVIOUS
<1> HIDE DEF item, a, U
<1>5. OutcomeTold(I, T, a)
  <2> DEFINE e == I[x].event
             Complete == \E i \in U : I[i].event = "turn.complete"
             Ended == \E i \in U : I[i].event \in Endings
  <2>1. /\ t.status \in Statuses /\ (t.status = "completed") <=> (Complete /\ ~Ended)
        /\ (t.status = "in_progress") <=> (~Complete /\ ~Ended)
    BY <1>4 DEF Tells, OutcomeTold
  <2>2. a.status = CASE e = "turn.blocked" -> "blocked"
                     [] e = "turn.error" -> "failed"
                     [] e = "turn.cancelled" -> "cancelled"
                     [] e = "turn.complete" /\ t.status = "in_progress" -> "completed"
                     [] OTHER -> t.status
    BY <1>1, <1>2 DEF Ai!status
  <2>3. /\ (\E i \in T : I[i].event = "turn.complete") <=> (e = "turn.complete" \/ Complete)
        /\ (\A i \in T : I[i].event \notin Endings) <=> (e \notin Endings /\ ~Ended)
        /\ (\A i \in T : I[i].event # "turn.complete") <=> (e # "turn.complete" /\ ~Complete)
    BY <1>3
  <2> HIDE DEF e, Complete, Ended
  <2>4. a.status \in Statuses
    <3>1. t.status \in Statuses
      BY <1>4 DEF Tells, OutcomeTold
    <3> QED
      BY <1>2, <3>1, StatusIsOne
  <2>5. (a.status = "completed") <=> ((e = "turn.complete" \/ Complete) /\ e \notin Endings /\ ~Ended)
    BY <2>1, <2>2 DEF Statuses, Endings
  <2>6. (a.status = "in_progress") <=> (e # "turn.complete" /\ ~Complete /\ e \notin Endings /\ ~Ended)
    BY <2>1, <2>2 DEF Statuses, Endings
  <2> QED
    BY <2>3, <2>4, <2>5, <2>6 DEF OutcomeTold
<1>6. TimesTold(I, T, a)
  <2>1. \A i \in U : I[i].ts \in Nat
    BY <1>3 DEF Positions
  <2>2. t.started \in Nat /\ t.completed \in Nat /\ \A i \in U : t.started <= I[i].ts /\ I[i].ts <= t.completed
    BY <1>4 DEF Tells, TimesTold
  <2>3. /\ a.started \in Nat /\ a.completed \in Nat
        /\ a.started <= I[x].ts /\ a.started <= t.started /\ I[x].ts <= a.completed /\ t.completed <= a.completed
    BY <1>1, <1>2, <2>2
  <2>4. \A i \in U : a.started <= I[i].ts /\ I[i].ts <= a.completed
    BY <2>1, <2>2, <2>3
  <2> QED
    BY <1>3, <2>3, <2>4 DEF TimesTold
<1>7. ToolsTold(I, T, a)
  <2> DEFINE X == [action : {I[i].action : i \in DOMAIN I}, status : {"executed", "proposed"}]
             tool == Tool(I, x)
  <2>1. t.tools \in Seq(X)
    BY DEF Makings
  <2>2. tool = [action |-> item.action, status |-> Ai!toolStatus(item)]
    BY <1>1 DEF Tool, Ai!toolStatus
  <2>3. tool \in X
    BY <1>3 DEF Tool, Ai!toolStatus
  <2>4. /\ \A c, d \in DOMAIN t.tools : t.tools[c] = t.tools[d] => c = d
        /\ \A i \in U : I[i].event \in ToolEvents => \E k \in DOMAIN t.tools : t.tools[k] = Tool(I, i)
    BY <1>4 DEF Tells, ToolsTold
  <2> HIDE DEF X, tool
  <2>5. /\ \A c, d \in DOMAIN a.tools : a.tools[c] = a.tools[d] => c = d
        /\ \A k \in DOMAIN t.tools : k \in DOMAIN a.tools /\ a.tools[k] = t.tools[k]
        /\ item.event \in ToolEvents => \E k \in DOMAIN a.tools : a.tools[k] = tool
    BY <1>2, <2>1, <2>2, <2>3, <2>4, ToolIsAdded
  <2>6. \A i \in U : I[i].event \in ToolEvents => \E k \in DOMAIN a.tools : a.tools[k] = Tool(I, i)
    BY <2>4, <2>5
  <2>7. I[x].event \in ToolEvents => \E k \in DOMAIN a.tools : a.tools[k] = Tool(I, x)
    BY <1>1, <2>5 DEF tool
  <2> QED
    BY <1>3, <2>5, <2>6, <2>7 DEF ToolsTold
<1>8. CostTold(I, T, a)
  <2> DEFINE f == [i \in T |-> I[i].tokens]
             h == [i \in U |-> I[i].tokens]
  <2>1. f \in [T -> Int] /\ h = [i \in T \ {x} |-> f[i]] /\ f[x] = I[x].tokens
    BY <1>3 DEF Positions, U
  <2>2. IsFiniteSet(T)
    BY FS_Subset DEF Positions
  <2>3. t.tokens = Total(h) /\ t.tokens \in Int
    BY <1>4 DEF Tells, CostTold, Makings
  <2> HIDE DEF f, h
  <2>4. Total(f) = f[x] + Total(h)
    BY <1>3, <2>1, <2>2, TotalAdds
  <2>5. a.tokens = Total(f)
    BY <1>1, <1>2, <2>1, <2>3, <2>4
  <2> QED
    BY <2>5 DEF CostTold, f
<1>9. a.turn = id
  BY <1>2, <1>4 DEF Tells
<1> QED
  BY <1>5, <1>6, <1>7, <1>8, <1>9 DEF Tells, a, item

\* A set of positions has a first and a last.
LEMMA EndsAreThere ==
  ASSUME NEW I, Positions(I), NEW T \in SUBSET DOMAIN I, T # {}
  PROVE  Ai!Max(T) \in T /\ Ai!Min(T) \in T
<1>1. T \in SUBSET Nat /\ IsFiniteSet(T)
  BY FS_Subset DEF Positions
<1>2. PICK m \in T : \A j \in T : j <= m
  BY <1>1, FiniteMax
<1>3. \A j \in T : m >= j
  BY <1>1, <1>2
<1>4. \E i \in T : \A j \in T : i <= j
  <2>1. IsWellFoundedOn(OpToRel(<, Nat), Nat)
    BY NatLessThanWellFounded
  <2>2. \A a, b \in Nat : a < b => <<a, b>> \in OpToRel(<, Nat)
    BY DEF OpToRel
  <2>3. PICK i \in T : \A e \in T : ~ (<<e, i>> \in OpToRel(<, Nat))
    BY <1>1, <2>1, WFMin
  <2>4. \A e \in T : i <= e
    <3> SUFFICES ASSUME NEW e \in T PROVE i <= e
      OBVIOUS
    <3>1. e \in Nat /\ i \in Nat
      BY <1>1
    <3>2. ~ e < i
      BY <2>2, <2>3, <3>1
    <3> QED
      BY <3>1, <3>2
  <2> QED
    BY <2>4
<1>5. Ai!Max(T) \in T
  BY <1>3 DEF Ai!Max
<1>6. Ai!Min(T) \in T
  <2>1. \E i \in T : \A j \in T : i =< j
    BY <1>4
  <2> QED
    BY <2>1 DEF Ai!Min
<1> QED
  BY <1>5, <1>6

\* A turn that has not begun tells of no span.
LEMMA NewTurnTells ==
  ASSUME NEW I, Positions(I), NEW x \in DOMAIN I
  PROVE  /\ Ai!newTurn(Ai!Item(I[x])) \in Makings(I)
         /\ Tells(I, {}, I[x].turn, Ai!newTurn(Ai!Item(I[x])))
<1> DEFINE t == Ai!newTurn(Ai!Item(I[x]))
<1>1. I[x].ts \in Nat /\ I[x].turn \in {I[i].turn : i \in DOMAIN I}
  BY DEF Positions
<1>2. /\ t.turn = I[x].turn /\ t.status = "in_progress" /\ t.started \in Nat /\ t.completed \in Nat
      /\ t.tokens = 0
  BY <1>1, ItemsAre DEF Ai!newTurn
<1> DEFINE none == <<>>
           unsaid == ""
<1>3. t = [turn |-> t.turn, status |-> t.status, started |-> t.started, completed |-> t.completed,
           model |-> unsaid, tokens |-> t.tokens, user |-> none, reply |-> none, tools |-> none]
  BY DEF Ai!newTurn
<1>9. t.tools = <<>>
  BY DEF Ai!newTurn
<1> HIDE DEF t
<1>4. t \in Makings(I)
  <2>1. <<>> \in Seq([action : {I[i].action : i \in DOMAIN I}, status : {"executed", "proposed"}])
    OBVIOUS
  <2> DEFINE X == Seq([action : {I[i].action : i \in DOMAIN I}, status : {"executed", "proposed"}])
             U == {<<>>} \cup {Ai!Item(I[i]).user : i \in DOMAIN I}
             R == {<<>>} \cup {Ai!Item(I[i]).reply : i \in DOMAIN I}
             M == {""} \cup {I[i].model : i \in DOMAIN I}
             N == {I[i].turn : i \in DOMAIN I}
  <2>2. none \in X /\ none \in U /\ none \in R /\ unsaid \in M /\ t.turn \in N
    BY <1>1, <1>2, <2>1
  <2>3. t.status \in Statuses
    BY <1>2 DEF Statuses
  <2>4. t.started \in Nat /\ t.completed \in Nat /\ t.tokens \in Int
    BY <1>2
  <2> HIDE DEF X, U, R, M, N, none, unsaid
  <2>5. t \in [turn : N, status : Statuses, started : Nat, completed : Nat, model : M, tokens : Int,
               user : U, reply : R, tools : X]
    BY <1>3, <2>2, <2>3, <2>4
  <2> QED
    BY <2>5 DEF Makings, X, U, R, M, N
<1>5. OutcomeTold(I, {}, t)
  BY <1>2 DEF OutcomeTold, Statuses
<1>6. TimesTold(I, {}, t)
  BY <1>2 DEF TimesTold
<1>7. ToolsTold(I, {}, t)
  <2>1. DOMAIN t.tools = {}
    BY <1>9
  <2> QED
    BY <2>1 DEF ToolsTold
<1>8. CostTold(I, {}, t)
  <2>1. [i \in {} |-> I[i].tokens] \in [{} -> Int]
    OBVIOUS
  <2> QED
    BY <1>2, <2>1, TotalOfNone DEF CostTold
<1> QED
  BY <1>2, <1>4, <1>5, <1>6, <1>7, <1>8 DEF Tells, t

\* The card of a turn tells of all its spans.
LEMMA TurnTells ==
  ASSUME NEW I, Positions(I), NEW mine \in SUBSET DOMAIN I, mine # {}, NEW id,
         \A i \in mine : I[i].turn = id
  PROVE  Tells(I, mine, id, Ai!Turn(I, mine))
<1> DEFINE X == Makings(I)
           base == Ai!newTurn(Ai!Item(I[Ai!Min(mine)]))
           Step(G, T) == IF T = {} THEN base ELSE Ai!absorb(G[T \ {Ai!Max(T)}], Ai!Item(I[Ai!Max(T)]))
           Fold == CHOOSE G : G = [T \in SUBSET mine |-> Step(G, T)]
           c == [T \in (SUBSET mine) \ {{}} |-> Ai!Max(T)]
           g == [i \in mine |-> [v \in X |-> Ai!absorb(v, Ai!Item(I[i]))]]
<1>1. Ai!Turn(I, mine) = Fold[mine]
  BY DEF Ai!Turn, Ai!MapThenFoldSet
<1>2. \A T \in (SUBSET mine) \ {{}} : Ai!Max(T) \in T
  BY EndsAreThere
<1>3. base \in X /\ Tells(I, {}, id, base)
  <2>1. Ai!Min(mine) \in mine
    BY EndsAreThere
  <2>2. Ai!Min(mine) \in DOMAIN I /\ I[Ai!Min(mine)].turn = id
    BY <2>1
  <2> QED
    BY <2>2, NewTurnTells
<1>4. \A i \in mine, v \in X : Ai!absorb(v, Ai!Item(I[i])) \in X
  BY StaysAMaking
<1>5. IsFiniteSet(mine)
  BY FS_Subset DEF Positions
<1> HIDE DEF X, base
<1>6. \A i \in mine, v \in X : g[i][v] = Ai!absorb(v, Ai!Item(I[i]))
  OBVIOUS
<1>7. \A T \in (SUBSET mine) \ {{}} : c[T] = Ai!Max(T) /\ c[T] \in T
  BY <1>2
<1> HIDE DEF c, g
<1>8. PICK F \in [SUBSET mine -> X] :
         \A T \in SUBSET mine : F[T] = IF T = {} THEN base ELSE g[c[T]][F[T \ {c[T]}]]
  <2>1. \A i \in mine, v \in X : g[i][v] \in X
    BY <1>4, <1>6
  <2>2. \A T \in SUBSET mine : T # {} => c[T] \in T
    BY <1>7
  <2>3. CanFold(mine, X, c, g)
    BY <2>1, <2>2 DEF CanFold
  <2>4. \E F : IsFold(F, mine, X, base, c, g)
    BY <1>3, <1>5, <2>3, FoldExists
  <2> QED
    BY <2>4 DEF IsFold
<1>9. \A T \in SUBSET mine : F[T] = Step(F, T)
  <2> SUFFICES ASSUME NEW T \in SUBSET mine PROVE F[T] = Step(F, T)
    OBVIOUS
  <2>1. F[T] = IF T = {} THEN base ELSE g[c[T]][F[T \ {c[T]}]]
    BY <1>8
  <2>2. CASE T = {}
    BY <2>1, <2>2
  <2>3. CASE T # {}
    <3>1. c[T] = Ai!Max(T) /\ c[T] \in mine /\ T \ {c[T]} \in SUBSET mine
      BY <1>7, <2>3
    <3>2. F[T \ {c[T]}] \in X
      BY <1>8, <3>1
    <3>3. g[c[T]][F[T \ {c[T]}]] = Ai!absorb(F[T \ {c[T]}], Ai!Item(I[c[T]]))
      BY <1>6, <3>1, <3>2
    <3> QED
      BY <2>1, <2>3, <3>1, <3>3
  <2> QED
    BY <2>2, <2>3
<1>10. F = [T \in SUBSET mine |-> Step(F, T)]
  <2> HIDE DEF Step
  <2> QED
    BY <1>8, <1>9
<1> HIDE DEF Step
<1>11. Fold = [T \in SUBSET mine |-> Step(Fold, T)]
  BY <1>10
<1> HIDE DEF Fold
<1> DEFINE Q == {T \in SUBSET mine : Fold[T] \in X /\ Tells(I, T, id, Fold[T])}
<1>12. ASSUME NEW T \in SUBSET mine, \A x \in T : T \ {x} \in Q PROVE T \in Q
  <2>1. Fold[T] = Step(Fold, T)
    BY <1>11
  <2>2. CASE T = {}
    BY <1>3, <2>1, <2>2 DEF Step
  <2>3. CASE T # {}
    <3> DEFINE x == Ai!Max(T)
               t == Fold[T \ {x}]
    <3>1. x \in T /\ Fold[T] = Ai!absorb(t, Ai!Item(I[x]))
      BY <1>2, <2>1, <2>3 DEF Step
    <3> HIDE DEF x
    <3>2. t \in X /\ Tells(I, T \ {x}, id, t)
      BY <1>12, <3>1
    <3> HIDE DEF t
    <3>3. T \in SUBSET DOMAIN I /\ t \in Makings(I) /\ x \in DOMAIN I
      BY <3>1, <3>2 DEF X
    <3>4. Tells(I, T, id, Ai!absorb(t, Ai!Item(I[x]))) /\ Ai!absorb(t, Ai!Item(I[x])) \in X
      BY <3>1, <3>2, <3>3, AbsorbTells, StaysAMaking DEF X
    <3> QED
      BY <3>1, <3>4
  <2> QED
    BY <2>2, <2>3
<1>13. mine \in Q
  <2>1. \A T \in SUBSET mine : (\A x \in T : T \ {x} \in Q) => T \in Q
    BY <1>12
  <2> HIDE DEF Q
  <2>2. \A T \in SUBSET mine : T \in Q
    BY <1>5, <2>1, SubsetsAreReached
  <2> QED
    BY <2>2
<1> QED
  BY <1>1, <1>13

\* A finite set of cards has an order by their beginning.
LEMMA CardsHaveOrder ==
  ASSUME NEW C, IsFiniteSet(C), \A t \in C : t.started \in Nat
  PROVE  \E q \in [1 .. Cardinality(C) -> C] :
            /\ \A i, k \in 1 .. Cardinality(C) : i # k => q[i] # q[k]
            /\ \A i, k \in 1 .. Cardinality(C) : i < k => q[i].started <= q[k].started
<1> DEFINE Order(T, q) == /\ q \in [1 .. Cardinality(T) -> T]
                          /\ \A i, k \in 1 .. Cardinality(T) : i # k => q[i] # q[k]
                          /\ \A i, k \in 1 .. Cardinality(T) : i < k => q[i].started <= q[k].started
           Q == {T \in SUBSET C : \E q : Order(T, q)}
<1>1. ASSUME NEW T \in SUBSET C, \A x \in T : T \ {x} \in Q PROVE T \in Q
  <2>1. CASE T = {}
    <3>1. 1 .. Cardinality(T) = {}
      BY <2>1, FS_EmptySet
    <3>2. Order(T, [i \in {} |-> 0])
      BY <3>1
    <3> QED
      BY <3>2
  <2>2. CASE T # {}
    <3> DEFINE N == {t.started : t \in T}
               f == [t \in T |-> t.started]
    <3>0. IsFiniteSet(T)
      BY FS_Subset
    <3>1. N \in SUBSET Nat /\ IsFiniteSet(N) /\ N # {}
      <4>1. f \in [T -> N] /\ \A y \in N : \E x \in T : f[x] = y
        OBVIOUS
      <4>2. N \in SUBSET Nat /\ N # {}
        BY <2>2
      <4> HIDE DEF f, N
      <4> QED
        BY <3>0, <4>1, <4>2, ImageIsFinite
    <3>2. PICK m \in N : \A j \in N : j <= m
      <4> HIDE DEF N
      <4> QED
        BY <3>1, FiniteMax
    <3>3. PICK x \in T : m = x.started
      OBVIOUS
    <3>4. \A t \in T : t.started \in Nat /\ t.started <= x.started
      BY <3>2, <3>3
    <3>5. PICK p : Order(T \ {x}, p)
      BY <1>1
    <3> DEFINE n == Cardinality(T \ {x})
               q == [i \in 1 .. (n + 1) |-> IF i = n + 1 THEN x ELSE p[i]]
    <3>6. n \in Nat /\ Cardinality(T) = n + 1
      <4>1. n = Cardinality(T) - 1 /\ Cardinality(T) \in Nat /\ IsFiniteSet(T \ {x})
        BY <3>0, FS_RemoveElement, FS_CardinalityType, FS_Subset
      <4> QED
        BY <4>1, FS_CardinalityType
    <3>7. /\ p \in [1 .. n -> T \ {x}]
          /\ \A i, k \in 1 .. n : i # k => p[i] # p[k]
          /\ \A i, k \in 1 .. n : i < k => p[i].started <= p[k].started
      BY <3>5
    <3> HIDE DEF n
    <3>8. \A i \in 1 .. (n + 1) : i = n + 1 \/ i \in 1 .. n
      BY <3>6
    <3>9. /\ q \in [1 .. (n + 1) -> T] /\ q[n + 1] = x /\ \A i \in 1 .. n : q[i] = p[i] /\ i # n + 1
      BY <3>6, <3>7, <3>8
    <3> HIDE DEF q
    <3>10. \A i, k \in 1 .. (n + 1) : i # k => q[i] # q[k]
      BY <3>7, <3>8, <3>9
    <3>11. \A i, k \in 1 .. (n + 1) : i < k => q[i].started <= q[k].started
      <4> SUFFICES ASSUME NEW i \in 1 .. (n + 1), NEW k \in 1 .. (n + 1), i < k
                   PROVE  q[i].started <= q[k].started
        OBVIOUS
      <4>1. CASE k = n + 1
        BY <3>4, <3>9, <4>1
      <4>2. CASE k \in 1 .. n
        <5>1. i \in 1 .. n
          BY <3>6, <4>2
        <5> QED
          BY <3>7, <3>9, <4>2, <5>1
      <4> QED
        BY <3>8, <4>1, <4>2
    <3>12. Order(T, q)
      BY <3>6, <3>9, <3>10, <3>11
    <3> QED
      BY <3>12
  <2> QED
    BY <2>1, <2>2
<1>2. C \in Q
  <2>1. \A T \in SUBSET C : (\A x \in T : T \ {x} \in Q) => T \in Q
    BY <1>1
  <2> HIDE DEF Q
  <2>2. \A T \in SUBSET C : T \in Q
    BY <2>1, SubsetsAreReached
  <2> QED
    BY <2>2
<1> QED
  BY <1>2

\* What the page must say of one turn, of a trace's cards.
CardIsTrue(I, tid, cards, id) ==
    LET mine == {i \in DOMAIN I : I[i].turn = id /\ I[i].trace = tid}
        at == {k \in DOMAIN cards : cards[k].turn = id}
        card == cards[CHOOSE k \in at : TRUE]
        said == {I[i].event : i \in mine}
        ended == said \cap {"turn.blocked", "turn.error", "turn.cancelled"}
    IN /\ Ai!Cardinality(at) = 1
       /\ (card.status = "completed") <=> ("turn.complete" \in said /\ ended = {})
       /\ (card.status = "in_progress") <=> ("turn.complete" \notin said /\ ended = {})
       /\ card.tokens = Ai!SumFunction([i \in mine |-> I[i].tokens])
       /\ \A i \in mine :
            /\ card.started <= I[i].ts /\ I[i].ts <= card.completed
            /\ I[i].event \in {"tool.proposed", "tool.executed"} =>
                Ai!Cardinality({k \in DOMAIN card.tools : card.tools[k] =
                    [action |-> I[i].action, status |-> Ai!toolStatus(I[i])]}) = 1

LEMMA AloneCounts ==
  ASSUME NEW S, NEW x \in S, \A y \in S : y = x
  PROVE  Ai!Cardinality(S) = 1
<1>1. S = {x}
  OBVIOUS
<1> QED
  BY <1>1, AiCounts, FS_Singleton

\* One card that tells of the spans of its turn says what it must.
LEMMA ToldIsTrue ==
  ASSUME NEW I, NEW tid, NEW id, NEW cards, NEW k \in DOMAIN cards,
         \A j \in DOMAIN cards : cards[j].turn = id <=> j = k,
         Tells(I, Ai!OfTurn(I, tid, id), id, cards[k])
  PROVE  CardIsTrue(I, tid, cards, id)
<1> DEFINE mine == {i \in DOMAIN I : I[i].turn = id /\ I[i].trace = tid}
           at == {j \in DOMAIN cards : cards[j].turn = id}
           card == cards[CHOOSE j \in at : TRUE]
           said == {I[i].event : i \in mine}
           ended == said \cap {"turn.blocked", "turn.error", "turn.cancelled"}
<1>1. mine = Ai!OfTurn(I, tid, id)
  BY DEF Ai!OfTurn
<1>2. k \in at /\ \A j \in at : j = k
  OBVIOUS
<1>3. Ai!Cardinality(at) = 1
  <2> HIDE DEF at
  <2> QED
    BY <1>2, AloneCounts
<1>4. card = cards[k]
  BY <1>2
<1> HIDE DEF at, card
<1>5. Tells(I, mine, id, card)
  BY <1>1, <1>4
<1>6. /\ "turn.complete" \in said <=> \E i \in mine : I[i].event = "turn.complete"
      /\ "turn.complete" \notin said <=> \A i \in mine : I[i].event # "turn.complete"
      /\ ended = {} <=> \A i \in mine : I[i].event \notin Endings
  BY DEF Endings
<1> HIDE DEF mine
<1>7. /\ (card.status = "completed") <=> ("turn.complete" \in said /\ ended = {})
      /\ (card.status = "in_progress") <=> ("turn.complete" \notin said /\ ended = {})
  <2> HIDE DEF said, ended
  <2> QED
    BY <1>5, <1>6 DEF Tells, OutcomeTold
<1>8. card.tokens = Ai!SumFunction([i \in mine |-> I[i].tokens])
  BY <1>5, TokensAddUp DEF Tells, CostTold
<1>9. ASSUME NEW i \in mine, I[i].event \in {"tool.proposed", "tool.executed"}
      PROVE  Ai!Cardinality({j \in DOMAIN card.tools : card.tools[j] =
                [action |-> I[i].action, status |-> Ai!toolStatus(I[i])]}) = 1
  <2> DEFINE S == {j \in DOMAIN card.tools : card.tools[j] =
                     [action |-> I[i].action, status |-> Ai!toolStatus(I[i])]}
  <2>1. PICK j \in DOMAIN card.tools : card.tools[j] = Tool(I, i)
    BY <1>5, <1>9 DEF Tells, ToolsTold, ToolEvents
  <2>2. \A a, b \in DOMAIN card.tools : card.tools[a] = card.tools[b] => a = b
    BY <1>5 DEF Tells, ToolsTold
  <2>3. j \in S /\ \A y \in S : y = j
    BY <2>1, <2>2 DEF Tool
  <2> HIDE DEF S
  <2>4. Ai!Cardinality(S) = 1
    BY <2>3, AloneCounts
  <2> QED
    BY <2>4 DEF S
<1>10. \A i \in mine : card.started <= I[i].ts /\ I[i].ts <= card.completed
  BY <1>5 DEF Tells, TimesTold
<1> HIDE DEF said, ended
<1>11. /\ Ai!Cardinality(at) = 1
       /\ (card.status = "completed") <=> ("turn.complete" \in said /\ ended = {})
       /\ (card.status = "in_progress") <=> ("turn.complete" \notin said /\ ended = {})
       /\ card.tokens = Ai!SumFunction([i \in mine |-> I[i].tokens])
       /\ \A i \in mine :
            /\ card.started <= I[i].ts /\ I[i].ts <= card.completed
            /\ I[i].event \in {"tool.proposed", "tool.executed"} =>
                Ai!Cardinality({j \in DOMAIN card.tools : card.tools[j] =
                    [action |-> I[i].action, status |-> Ai!toolStatus(I[i])]}) = 1
  BY <1>3, <1>7, <1>8, <1>9, <1>10
<1> QED
  BY <1>11, Zenon DEF CardIsTrue, mine, at, card, said, ended

\* Every turn of a trace has its card among the cards.
LEMMA CardsAreTrue ==
  ASSUME NEW I, Positions(I), NEW tid, NEW id \in Ai!TurnIds(I, tid)
  PROVE  CardIsTrue(I, tid, Ai!buildAiTraceTurnCards(I, tid), id)
<1> DEFINE Ids == Ai!TurnIds(I, tid)
           CardOf(d) == Ai!Turn(I, Ai!OfTurn(I, tid, d))
           C == {CardOf(d) : d \in Ids}
           q == Ai!buildAiTraceTurnCards(I, tid)
           n == Cardinality(C)
<1>1. \A d \in Ids : Tells(I, Ai!OfTurn(I, tid, d), d, CardOf(d))
  <2> SUFFICES ASSUME NEW d \in Ids PROVE Tells(I, Ai!OfTurn(I, tid, d), d, CardOf(d))
    OBVIOUS
  <2>1. \E i \in DOMAIN I : I[i].trace = tid /\ I[i].turn = d
    BY DEF Ai!TurnIds
  <2>2. /\ Ai!OfTurn(I, tid, d) \in SUBSET DOMAIN I /\ Ai!OfTurn(I, tid, d) # {}
        /\ \A i \in Ai!OfTurn(I, tid, d) : I[i].turn = d
    BY <2>1 DEF Ai!OfTurn
  <2> QED
    BY <2>2, TurnTells
<1>2. q = CHOOSE l \in Ai!InTurn(C) : TRUE
  BY DEF Ai!buildAiTraceTurnCards
<1>3. IsFiniteSet(Ids)
  <2> DEFINE P == {k \in DOMAIN I : I[k].trace = tid}
             T == {I[k].turn : k \in P}
             f == [k \in P |-> I[k].turn]
  <2>1. IsFiniteSet(P)
    BY FS_Subset DEF Positions
  <2>2. f \in [P -> T] /\ \A y \in T : \E k \in P : f[k] = y
    OBVIOUS
  <2>3. Ids \in SUBSET T
    BY DEF Ai!TurnIds
  <2> HIDE DEF P, T, f, Ids
  <2>4. IsFiniteSet(T)
    BY <2>1, <2>2, ImageIsFinite
  <2> QED
    BY <2>3, <2>4, FS_Subset
<1> HIDE DEF Ids, CardOf
<1>4. IsFiniteSet(C)
  <2> DEFINE f == [d \in Ids |-> CardOf(d)]
  <2>1. f \in [Ids -> C] /\ \A y \in C : \E d \in Ids : f[d] = y
    OBVIOUS
  <2> HIDE DEF f, C
  <2> QED
    BY <1>3, <2>1, ImageIsFinite
<1>5. \A t \in C : t.started \in Nat
  BY <1>1 DEF Tells, TimesTold
<1>6. C # {} /\ CardOf(id) \in C /\ \A d \in Ids : CardOf(d).turn = d
  BY <1>1 DEF Tells, Ids
<1>7. \A t \in C : t.turn = id <=> t = CardOf(id)
  BY <1>6 DEF Ids
<1> HIDE DEF C, q
<1>8. \A f : f \in Ai!Bijection(1 .. Ai!Cardinality(C), C) <=>
               /\ f \in [1 .. n -> C] /\ \A i, j \in 1 .. n : f[i] = f[j] => i = j
               /\ \A y \in C : \E i \in 1 .. n : f[i] = y
  BY AiCounts DEF Ai!Bijection, Ai!Injection, Ai!Surjection, Ai!IsInjective
<1>9. PICK l \in [1 .. n -> C] :
            /\ \A i, k \in 1 .. n : i # k => l[i] # l[k]
            /\ \A i, k \in 1 .. n : i < k => l[i].started <= l[k].started
  BY <1>4, <1>5, CardsHaveOrder
<1>10. l \in Ai!InTurn(C)
  <2>1. n \in Nat
    BY <1>4, FS_CardinalityType
  <2>2. Cardinality(1 .. n) = n
    BY <2>1, FS_Interval
  <2>3. l \in Injection(1 .. n, C)
    BY <1>9 DEF Injection, IsInjective
  <2>4. l \in Surjection(1 .. n, C)
    BY <1>4, <2>2, <2>3, FS_Injection
  <2>5. \A y \in C : \E i \in 1 .. n : l[i] = y
    BY <2>4 DEF Surjection
  <2>6. DOMAIN l = 1 .. n /\ l \in Ai!Bijection(1 .. Ai!Cardinality(C), C)
    BY <1>8, <1>9, <2>5
  <2> QED
    BY <1>9, <2>6 DEF Ai!InTurn
<1>11. q \in Ai!InTurn(C)
  BY <1>2, <1>10
<1>12. /\ q \in [1 .. n -> C] /\ \A i, j \in 1 .. n : q[i] = q[j] => i = j
       /\ \A y \in C : \E i \in 1 .. n : q[i] = y
  BY <1>8, <1>11 DEF Ai!InTurn
<1>13. PICK k \in 1 .. n : q[k] = CardOf(id)
  BY <1>6, <1>12
<1>14. k \in DOMAIN q /\ \A j \in DOMAIN q : q[j].turn = id <=> j = k
  <2>1. DOMAIN q = 1 .. n
    BY <1>12
  <2>2. \A j \in 1 .. n : q[j].turn = id <=> q[j] = CardOf(id)
    BY <1>7, <1>12
  <2> QED
    BY <1>12, <1>13, <2>1, <2>2
<1>15. Tells(I, Ai!OfTurn(I, tid, id), id, q[k])
  BY <1>1, <1>13 DEF Ids
<1>16. CardIsTrue(I, tid, q, id)
  BY <1>14, <1>15, ToldIsTrue
<1> QED
  BY <1>16 DEF q

-----------------------------------------------------------------------------
AiInv ==
    /\ spans \in SUBSET AiSpans /\ IsFiniteSet(spans)
    /\ aiPage.at = "shown" =>
          \A tid \in DOMAIN aiPage.groups : \A id \in Ai!TurnIds(aiPage.items, tid) :
              CardIsTrue(aiPage.items, tid, aiPage.groups[tid], id)

LEMMA AiStarts == Ai!Init => AiInv
BY FS_EmptySet DEF Ai!Init, Ai!Blank, AiInv

\* A page that shows spans in order of time shows their turns truly.
LEMMA ShownIsTrue ==
  ASSUME Ai!AiViewAssumption, NEW r, NEW msg, NEW S \in SUBSET AiSpans, IsFiniteSet(S),
         NEW I \in Ai!Bijection(1 .. Ai!Cardinality(S), S), Ai!Show(r, I, msg), spans' \in SUBSET AiSpans, IsFiniteSet(spans')
  PROVE  AiInv'
<1>1. I \in [1 .. Cardinality(S) -> S] /\ Cardinality(S) \in Nat
  BY AiCounts, FS_CardinalityType DEF Ai!Bijection, Ai!Injection
<1>2. Positions(I)
  <2>1. DOMAIN I = 1 .. Cardinality(S) /\ \A i \in DOMAIN I : I[i] \in AiSpans
    BY <1>1
  <2>2. IsFiniteSet(DOMAIN I)
    BY <1>1, <2>1, FS_Interval
  <2> QED
    BY <1>1, <2>1, <2>2 DEF Positions, Ai!AiViewAssumption
<1>3. /\ aiPage'.items = I
      /\ \A tid \in DOMAIN aiPage'.groups : aiPage'.groups[tid] = Ai!buildAiTraceTurnCards(I, tid)
  BY DEF Ai!Show
<1>4. \A tid \in DOMAIN aiPage'.groups : \A id \in Ai!TurnIds(aiPage'.items, tid) :
          CardIsTrue(aiPage'.items, tid, aiPage'.groups[tid], id)
  BY <1>2, <1>3, CardsAreTrue
<1>5. IsFiniteSet(spans)'
  OBVIOUS
<1> QED
  BY <1>4, <1>5 DEF AiInv

LEMMA NothingIsASequence ==
  <<>> \in Ai!Bijection(1 .. Ai!Cardinality({}), {}) /\ {} \in SUBSET AiSpans /\ IsFiniteSet({})
<1>1. Cardinality({}) = 0 /\ IsFiniteSet({})
  BY FS_EmptySet
<1>2. 1 .. 0 = {}
  OBVIOUS
<1>3. <<>> \in [{} -> {}]
  OBVIOUS
<1> QED
  BY <1>1, <1>2, <1>3, AiCounts DEF Ai!Bijection, Ai!Injection, Ai!Surjection, Ai!IsInjective

LEMMA AiIsKept ==
  ASSUME Ai!AiViewAssumption, AiInv, [Ai!Next]_Ai!vars
  PROVE  AiInv'
<1>0. spans \in SUBSET AiSpans /\ IsFiniteSet(spans)
  BY DEF AiInv
<1>1. ASSUME NEW s \in AiSpans, Ai!Arrive(s) PROVE AiInv'
  <2>1. spans' = spans \cup {s} /\ aiPage' = aiPage
    BY <1>1 DEF Ai!Arrive
  <2>2. IsFiniteSet(spans \cup {s})
    BY <1>0, FS_AddElement
  <2>3. IsFiniteSet(spans')
    BY <2>1, <2>2
  <2> QED
    BY <1>0, <2>1, <2>3 DEF AiInv
<1>2. ASSUME NEW r \in AiRequests, Ai!ReadTraces(r) PROVE AiInv'
  <2>1. spans' = spans
    BY <1>2 DEF Ai!ReadTraces
  <2>2. spans' \in SUBSET AiSpans /\ IsFiniteSet(spans')
    BY <1>0, <2>1
  <2>3. CASE Ai!Show(r, <<>>, TRUE)
    BY <2>2, <2>3, NothingIsASequence, ShownIsTrue
  <2>4. CASE aiPage'.at = "traces"
    BY <2>2, <2>4 DEF AiInv
  <2> DEFINE ids == {s.trace : s \in {t \in spans : t.trace # "" /\ Ai!Where(r, t)}}
  <2>6. Ai!Show(r, <<>>, TRUE) \/ aiPage' = [at |-> "traces", req |-> r, ids |-> ids]
    BY <1>2, Zenon DEF Ai!ReadTraces
  <2> HIDE DEF ids
  <2>7. aiPage' = [at |-> "traces", req |-> r, ids |-> ids] => aiPage'.at = "traces"
    OBVIOUS
  <2>5. Ai!Show(r, <<>>, TRUE) \/ aiPage'.at = "traces"
    BY <2>6, <2>7, Zenon
  <2> QED
    BY <2>3, <2>4, <2>5
<1>3. ASSUME Ai!ReadSpans PROVE AiInv'
  <2>1. spans' = spans
    BY <1>3 DEF Ai!ReadSpans
  <2>2. spans' \in SUBSET AiSpans /\ IsFiniteSet(spans')
    BY <1>0, <2>1
  <2>3. CASE Ai!Show(aiPage.req, <<>>, TRUE)
    BY <2>2, <2>3, NothingIsASequence, ShownIsTrue
  <2>4. ASSUME NEW q \in Ai!InTime({s \in spans : s.trace \in aiPage.ids /\ Ai!Where(aiPage.req, s)}),
               Ai!Show(aiPage.req, q, FALSE)
        PROVE  AiInv'
    <3> DEFINE S == {s \in spans : s.trace \in aiPage.ids /\ Ai!Where(aiPage.req, s)}
    <3>1. S \in SUBSET AiSpans /\ S \in SUBSET spans
      BY <1>0
    <3>2. q \in Ai!Bijection(1 .. Ai!Cardinality(S), S)
      BY <2>4 DEF Ai!InTime
    <3> HIDE DEF S
    <3>3. IsFiniteSet(S)
      BY <1>0, <3>1, FS_Subset
    <3> QED
      BY <2>2, <2>4, <3>1, <3>2, <3>3, ShownIsTrue
  <2> QED
    BY <1>3, <2>3, <2>4 DEF Ai!ReadSpans
<1>4. ASSUME UNCHANGED Ai!vars PROVE AiInv'
  <2>1. spans' = spans /\ aiPage' = aiPage
    BY <1>4 DEF Ai!vars
  <2>2. IsFiniteSet(spans')
    BY <1>0, <2>1
  <2> QED
    BY <1>0, <2>1, <2>2 DEF AiInv
<1> QED
  BY <1>1, <1>2, <1>3, <1>4 DEF Ai!Next

LEMMA AiTells == AiInv => Ai!CardsTellOutcome
<1> SUFFICES ASSUME AiInv, aiPage.at = "shown", NEW tid \in DOMAIN aiPage.groups,
                    NEW id \in {s.turn : s \in {t \in Ai!Range(aiPage.items) : t.trace = tid}} \ {""}
             PROVE  CardIsTrue(aiPage.items, tid, aiPage.groups[tid], id)
  BY DEF Ai!CardsTellOutcome, CardIsTrue
<1>1. {s.turn : s \in {t \in Ai!Range(aiPage.items) : t.trace = tid}}
          = {aiPage.items[i].turn : i \in {k \in DOMAIN aiPage.items : aiPage.items[k].trace = tid}}
  BY DEF Ai!Range
<1>2. id \in Ai!TurnIds(aiPage.items, tid)
  BY <1>1 DEF Ai!TurnIds
<1> QED
  BY <1>2 DEF AiInv

\* A turn whose spans are on the page has one card, which tells how it ended, what
\* it cost and what it did, however many spans of whatever kinds it has, in whatever
\* order they arrive and the store returns those of one moment
\* (buildAiTraceTurnCards).
THEOREM CardsTell ==
  ASSUME Ai!AiViewAssumption
  PROVE  Ai!Spec => []Ai!CardsTellOutcome
<1>1. Ai!Init => AiInv
  BY AiStarts
<1>2. AiInv /\ [Ai!Next]_Ai!vars => AiInv'
  BY AiIsKept
<1>3. AiInv => Ai!CardsTellOutcome
  BY AiTells
<1> QED
  BY <1>1, <1>2, <1>3, PTL DEF Ai!Spec

-----------------------------------------------------------------------------
(* Source maps.                                                            *)

LEMMA PartSums == \A f : Mapping!SumFunction(f) = Total(f)
BY DEF Mapping!SumFunction, Mapping!SumFunctionOnSet, Mapping!FoldFunctionOnSet,
       Mapping!MapThenFoldSet, Total

LEMMA MapsAreSequences ==
  ASSUME Mapping!SourceMapsAssumption, NEW M \in Maps
  PROVE  /\ DOMAIN M = 1 .. Len(M) /\ Len(M) \in Nat
         /\ \A i \in DOMAIN M : /\ DOMAIN M[i] = 1 .. Len(M[i]) /\ Len(M[i]) \in Nat
                                /\ \A k \in DOMAIN M[i] :
                                     /\ DOMAIN M[i][k] = 1 .. Len(M[i][k])
                                     /\ Len(M[i][k]) \in Nat /\ Len(M[i][k]) >= 1
                                     /\ \A n \in DOMAIN M[i][k] : M[i][k][n] \in Seq(0 .. 1)
<1>1. M \in Seq(Seq(Seq(Seq(0 .. 1)) \ {<<>>}))
  BY DEF Mapping!SourceMapsAssumption
<1>2. \A i \in DOMAIN M : M[i] \in Seq(Seq(Seq(0 .. 1)) \ {<<>>})
  BY <1>1
<1>3. \A i \in DOMAIN M : \A k \in DOMAIN M[i] : M[i][k] \in Seq(Seq(0 .. 1)) /\ M[i][k] # <<>>
  BY <1>2
<1>4. \A i \in DOMAIN M : \A k \in DOMAIN M[i] : Len(M[i][k]) \in Nat /\ Len(M[i][k]) # 0
  BY <1>3
<1>5. \A i \in DOMAIN M : \A k \in DOMAIN M[i] : \A n \in DOMAIN M[i][k] : M[i][k][n] \in Seq(0 .. 1)
  BY <1>3
<1> QED
  BY <1>1, <1>2, <1>3, <1>4, <1>5

LEMMA NumbersAreDecoded ==
  ASSUME NEW digits \in Seq(0 .. 1)
  PROVE  Mapping!decodeVLQ(digits) \in Int
<1> DEFINE f == [i \in DOMAIN digits |-> digits[i] * 2 ^ (i - 1)]
           n == Total(f)
<1>1. IsFiniteSet(DOMAIN digits)
  <2>1. DOMAIN digits = 1 .. Len(digits) /\ Len(digits) \in Nat
    OBVIOUS
  <2> QED
    BY <2>1, FS_Interval
<1>2. f \in [DOMAIN digits -> Int]
  <2> SUFFICES ASSUME NEW i \in DOMAIN digits PROVE digits[i] * 2 ^ (i - 1) \in Int
    OBVIOUS
  <2>1. digits[i] \in Int /\ i - 1 \in Nat
    OBVIOUS
  <2>2. \A k \in Nat : 2 ^ k \in Int
    BY SMT
  <2> QED
    BY <2>1, <2>2
<1>3. Mapping!decodeVLQ(digits) = IF n % 2 = 0 THEN n \div 2 ELSE -(n \div 2)
  BY PartSums DEF Mapping!decodeVLQ
<1> HIDE DEF f
<1>4. n \in Int
  BY <1>1, <1>2, TotalIsInt
<1> HIDE DEF n
<1>5. n \div 2 \in Int
  BY <1>4
<1> QED
  BY <1>3, <1>5

\* The number n of a segment.
Number(M, i, k, n) == Mapping!decodeVLQ(M[i][k][n])

LEMMA SegmentsAreFinite ==
  ASSUME Mapping!SourceMapsAssumption, NEW M \in Maps, NEW i \in DOMAIN M, NEW seg
  PROVE  IsFiniteSet(Mapping!UpTo(M, i, seg))
<1> DEFINE L == {{l} \X DOMAIN M[l] : l \in 1 .. i}
           h == [l \in 1 .. i |-> {l} \X DOMAIN M[l]]
<1>1. i \in Nat /\ 1 .. i \in SUBSET DOMAIN M
  BY MapsAreSequences
<1>2. IsFiniteSet(L)
  <2>1. IsFiniteSet(1 .. i)
    BY <1>1, FS_Interval
  <2>2. h \in [1 .. i -> L] /\ \A y \in L : \E l \in 1 .. i : h[l] = y
    OBVIOUS
  <2> HIDE DEF h, L
  <2> QED
    BY <2>1, <2>2, ImageIsFinite
<1>3. \A l \in 1 .. i : IsFiniteSet({l} \X DOMAIN M[l])
  <2> SUFFICES ASSUME NEW l \in 1 .. i PROVE IsFiniteSet({l} \X DOMAIN M[l])
    OBVIOUS
  <2>1. IsFiniteSet({l}) /\ IsFiniteSet(DOMAIN M[l])
    <3>1. IsFiniteSet({l})
      BY FS_Singleton
    <3>2. DOMAIN M[l] = 1 .. Len(M[l]) /\ 1 \in Int /\ Len(M[l]) \in Int
      BY <1>1, MapsAreSequences
    <3>3. IsFiniteSet(1 .. Len(M[l]))
      BY <3>2, FS_Interval
    <3> QED
      BY <3>1, <3>2, <3>3
  <2> QED
    BY <2>1, FS_Product
<1>4. IsFiniteSet(UNION L)
  BY <1>2, <1>3, FS_UNION
<1>5. Mapping!UpTo(M, i, seg) \in SUBSET UNION L
  BY DEF Mapping!UpTo
<1> QED
  BY <1>4, <1>5, FS_Subset

LEMMA UpToMembers ==
  ASSUME Mapping!SourceMapsAssumption, NEW M \in Maps, NEW i \in DOMAIN M, NEW seg, NEW c
  PROVE  c \in Mapping!UpTo(M, i, seg) <=>
            \E l \in 1 .. i : \E k \in DOMAIN M[l] :
                c = <<l, k>> /\ (l < i \/ k <= seg) /\ Len(M[l][k]) >= 4
BY DEF Mapping!UpTo

LEMMA SumSteps ==
  ASSUME Mapping!SourceMapsAssumption, NEW M \in Maps, NEW i \in DOMAIN M, NEW k \in DOMAIN M[i],
         NEW n \in 2 .. 4
  PROVE  /\ Mapping!SumOf(M, i, k - 1, n) \in Int
         /\ Mapping!SumOf(M, i, k, n) =
                IF Len(M[i][k]) >= 4 THEN Number(M, i, k, n) + Mapping!SumOf(M, i, k - 1, n)
                ELSE Mapping!SumOf(M, i, k - 1, n)
<1> DEFINE S == Mapping!UpTo(M, i, k)
           R == Mapping!UpTo(M, i, k - 1)
           f == [c \in S |-> Mapping!decodeVLQ(M[c[1]][c[2]][n])]
           h == [c \in R |-> Mapping!decodeVLQ(M[c[1]][c[2]][n])]
<1>1. i \in Nat /\ k \in Nat /\ i \in 1 .. i /\ \A l \in 1 .. i : l \in DOMAIN M /\ DOMAIN M[l] \in SUBSET Nat
  BY MapsAreSequences
<1>2. \A c : c \in R <=> c \in S /\ c # <<i, k>>
  <2> SUFFICES ASSUME NEW c PROVE c \in R <=> c \in S /\ c # <<i, k>>
    OBVIOUS
  <2>1. \A l \in 1 .. i : \A m \in DOMAIN M[l] : (l < i \/ m <= k - 1) <=> ((l < i \/ m <= k) /\ <<l, m>> # <<i, k>>)
    BY <1>1
  <2> QED
    BY <2>1, UpToMembers
<1>3. <<i, k>> \in S <=> Len(M[i][k]) >= 4
  <2>1. \A l, m : <<l, m>> = <<i, k>> <=> l = i /\ m = k
    OBVIOUS
  <2>2. k <= k
    BY <1>1
  <2> QED
    BY <1>1, <2>1, <2>2, UpToMembers
<1>4. \A c \in S : Mapping!decodeVLQ(M[c[1]][c[2]][n]) \in Int
  <2> SUFFICES ASSUME NEW c \in S PROVE Mapping!decodeVLQ(M[c[1]][c[2]][n]) \in Int
    OBVIOUS
  <2>0. PICK l \in 1 .. i : \E m \in DOMAIN M[l] : c = <<l, m>> /\ Len(M[l][m]) >= 4
    BY UpToMembers
  <2>1. PICK m \in DOMAIN M[l] : c = <<l, m>> /\ Len(M[l][m]) >= 4
    BY <2>0
  <2>2. n \in DOMAIN M[l][m]
    BY <1>1, <2>1, MapsAreSequences
  <2>3. M[l][m][n] \in Seq(0 .. 1)
    BY <1>1, <2>2, MapsAreSequences
  <2> QED
    BY <2>1, <2>3, NumbersAreDecoded
<1>5. IsFiniteSet(S) /\ IsFiniteSet(R)
  BY SegmentsAreFinite
<1>6. f \in [S -> Int] /\ h \in [R -> Int]
  BY <1>2, <1>4
<1>7. Mapping!SumOf(M, i, k, n) = Total(f) /\ Mapping!SumOf(M, i, k - 1, n) = Total(h)
  BY PartSums DEF Mapping!SumOf
<1>8. Total(h) \in Int
  <2> HIDE DEF h, R
  <2> QED
    BY <1>5, <1>6, TotalIsInt
<1>9. CASE Len(M[i][k]) >= 4
  <2>1. R = S \ {<<i, k>>}
    BY <1>2
  <2>2. h = [c \in S \ {<<i, k>>} |-> f[c]]
    <3> HIDE DEF R, S
    <3> QED
      BY <2>1
  <2>3. <<i, k>> \in S /\ f[<<i, k>>] = Number(M, i, k, n)
    BY <1>3, <1>9 DEF Number
  <2> HIDE DEF S, R, f, h
  <2>4. Total(f) = f[<<i, k>>] + Total(h)
    BY <1>5, <1>6, <2>2, <2>3, TotalAdds
  <2> QED
    BY <1>7, <1>8, <1>9, <2>3, <2>4
<1>10. CASE ~ Len(M[i][k]) >= 4
  <2>1. R = S
    BY <1>2, <1>3, <1>10
  <2>2. f = h
    <3> HIDE DEF S, R
    <3> QED
      BY <2>1
  <2> QED
    BY <1>7, <1>8, <1>10, <2>2
<1> QED
  BY <1>9, <1>10

\* The sums begin at nothing, and go on from line to line.
LEMMA SumsGoOn ==
  ASSUME Mapping!SourceMapsAssumption, NEW M \in Maps, NEW n
  PROVE  /\ 1 \in DOMAIN M => Mapping!SumOf(M, 1, 0, n) = 0
         /\ \A i \in DOMAIN M : i + 1 \in DOMAIN M =>
                Mapping!SumOf(M, i + 1, 0, n) = Mapping!SumOf(M, i, Len(M[i]), n)
<1>0. \A i \in DOMAIN M : i \in Nat /\ \A l \in 1 .. i : l \in DOMAIN M /\ DOMAIN M[l] \in SUBSET (Nat \ {0})
                          /\ \A k \in DOMAIN M[l] : k <= Len(M[l])
  BY MapsAreSequences
<1>1. ASSUME 1 \in DOMAIN M PROVE Mapping!SumOf(M, 1, 0, n) = 0
  <2> DEFINE f == [c \in Mapping!UpTo(M, 1, 0) |-> Mapping!decodeVLQ(M[c[1]][c[2]][n])]
  <2>1. \A l \in 1 .. 1 : \A k \in DOMAIN M[l] : ~(l < 1 \/ k <= 0)
    BY <1>0, <1>1
  <2>2. Mapping!UpTo(M, 1, 0) = {}
    <3>1. \A c : c \notin Mapping!UpTo(M, 1, 0)
      BY <1>1, <2>1, UpToMembers
    <3> QED
      BY <3>1
  <2>3. f \in [{} -> Int]
    BY <2>2
  <2>4. Mapping!SumOf(M, 1, 0, n) = Total(f)
    BY PartSums DEF Mapping!SumOf
  <2> HIDE DEF f
  <2> QED
    BY <2>3, <2>4, TotalOfNone
<1>2. ASSUME NEW i \in DOMAIN M, i + 1 \in DOMAIN M
      PROVE  Mapping!SumOf(M, i + 1, 0, n) = Mapping!SumOf(M, i, Len(M[i]), n)
  <2>1. ASSUME NEW c
        PROVE  c \in Mapping!UpTo(M, i + 1, 0) <=> c \in Mapping!UpTo(M, i, Len(M[i]))
    <3>1. \A l \in 1 .. (i + 1) : \A k \in DOMAIN M[l] : (l < i + 1 \/ k <= 0) <=> l \in 1 .. i
      BY <1>0, <1>2
    <3>2. \A l \in 1 .. i : \A k \in DOMAIN M[l] : l < i \/ k <= Len(M[i])
      BY <1>0, <1>2
    <3>3. \A l \in 1 .. i : l \in 1 .. (i + 1)
      BY <1>0
    <3>4. c \in Mapping!UpTo(M, i + 1, 0) <=>
            \E l \in 1 .. (i + 1) : \E k \in DOMAIN M[l] :
                c = <<l, k>> /\ (l < i + 1 \/ k <= 0) /\ Len(M[l][k]) >= 4
      BY <1>2, UpToMembers
    <3>5. c \in Mapping!UpTo(M, i, Len(M[i])) <=>
            \E l \in 1 .. i : \E k \in DOMAIN M[l] :
                c = <<l, k>> /\ (l < i \/ k <= Len(M[i])) /\ Len(M[l][k]) >= 4
      BY <1>2, UpToMembers
    <3> QED
      BY <3>1, <3>2, <3>3, <3>4, <3>5
  <2>2. Mapping!UpTo(M, i + 1, 0) = Mapping!UpTo(M, i, Len(M[i]))
    BY <2>1
  <2> QED
    BY <2>2 DEF Mapping!SumOf
<1> QED
  BY <1>1, <1>2

LEMMA ColumnSteps ==
  ASSUME Mapping!SourceMapsAssumption, NEW M \in Maps, NEW i \in DOMAIN M
  PROVE  /\ Mapping!ColumnOf(M, i, 0) = 0
         /\ \A k \in DOMAIN M[i] :
                /\ Mapping!ColumnOf(M, i, k - 1) \in Int
                /\ Mapping!ColumnOf(M, i, k) = Number(M, i, k, 1) + Mapping!ColumnOf(M, i, k - 1)
<1> DEFINE C(k) == [j \in 1 .. k |-> Mapping!decodeVLQ(M[i][j][1])]
<1>1. \A k : Mapping!ColumnOf(M, i, k) = Total(C(k))
  BY PartSums DEF Mapping!ColumnOf
<1>2. \A k \in DOMAIN M[i] : Mapping!decodeVLQ(M[i][k][1]) \in Int
  <2> SUFFICES ASSUME NEW k \in DOMAIN M[i] PROVE Mapping!decodeVLQ(M[i][k][1]) \in Int
    OBVIOUS
  <2>1. 1 \in DOMAIN M[i][k]
    BY MapsAreSequences
  <2> QED
    BY <2>1, MapsAreSequences, NumbersAreDecoded
<1>3. Total(C(0)) = 0
  <2>1. C(0) \in [{} -> Int]
    OBVIOUS
  <2> HIDE DEF C
  <2> QED
    BY <2>1, TotalOfNone
<1>4. ASSUME NEW k \in DOMAIN M[i]
      PROVE  Total(C(k - 1)) \in Int /\ Total(C(k)) = Number(M, i, k, 1) + Total(C(k - 1))
  <2>1. k \in Nat /\ 1 .. k \in SUBSET DOMAIN M[i] /\ k \in 1 .. k /\ (1 .. k) \ {k} = 1 .. (k - 1)
    BY MapsAreSequences
  <2>2. C(k) \in [1 .. k -> Int] /\ C(k - 1) \in [1 .. (k - 1) -> Int]
    BY <1>2, <2>1
  <2>3. C(k - 1) = [j \in (1 .. k) \ {k} |-> C(k)[j]]
    BY <2>1
  <2>4. C(k)[k] = Number(M, i, k, 1)
    BY <2>1 DEF Number
  <2>5. IsFiniteSet(1 .. k) /\ IsFiniteSet(1 .. (k - 1))
    BY <2>1, FS_Interval
  <2> HIDE DEF C
  <2>6. Total(C(k - 1)) \in Int
    BY <2>2, <2>5, TotalIsInt
  <2>7. Total(C(k)) = C(k)[k] + Total(C(k - 1))
    <3> DEFINE S == 1 .. k
               f == C(k)
               h == C(k - 1)
    <3>1. IsFiniteSet(S) /\ f \in [S -> Int] /\ k \in S /\ h = [j \in S \ {k} |-> f[j]]
      BY <2>1, <2>2, <2>3, <2>5
    <3> HIDE DEF S, f, h
    <3>2. Total(f) = f[k] + Total(h)
      BY <3>1, TotalAdds
    <3> QED
      BY <3>2 DEF f, h
  <2> QED
    BY <2>4, <2>6, <2>7
<1> HIDE DEF C
<1> QED
  BY <1>1, <1>3, <1>4

-----------------------------------------------------------------------------
(* What has been read of a map up to a segment.                            *)

Seg(M, i, j) ==
    [genCol |-> Mapping!ColumnOf(M, i, j),
     src |-> IF Len(M[i][j]) < 4 THEN -1 ELSE Mapping!SumOf(M, i, j, 2),
     line |-> IF Len(M[i][j]) < 4 THEN -1 ELSE Mapping!SumOf(M, i, j, 3),
     col |-> IF Len(M[i][j]) < 4 THEN -1 ELSE Mapping!SumOf(M, i, j, 4)]
Acc(M, i, k) ==
    [genCol |-> Mapping!ColumnOf(M, i, k), src |-> Mapping!SumOf(M, i, k, 2),
     line |-> Mapping!SumOf(M, i, k, 3), col |-> Mapping!SumOf(M, i, k, 4),
     segs |-> [j \in 1 .. k |-> Seg(M, i, j)]]
OneSeg == [genCol : Int, src : Int, line : Int, col : Int]
Accs == [genCol : Int, src : Int, line : Int, col : Int, segs : Seq(OneSeg)]

LEMMA AccsAreTyped ==
  ASSUME Mapping!SourceMapsAssumption, NEW M \in Maps, NEW i \in DOMAIN M, NEW k \in 0 .. Len(M[i])
  PROVE  /\ Mapping!ColumnOf(M, i, k) \in Int
         /\ \A n \in 2 .. 4 : Mapping!SumOf(M, i, k, n) \in Int
<1>0. DOMAIN M[i] = 1 .. Len(M[i]) /\ Len(M[i]) \in Nat
  BY MapsAreSequences
<1>1. ASSUME NEW j \in DOMAIN M[i], NEW n \in 1 .. 4, n = 1 \/ Len(M[i][j]) >= 4
      PROVE  Number(M, i, j, n) \in Int
  <2>1. n \in DOMAIN M[i][j]
    BY <1>1, MapsAreSequences
  <2> QED
    BY <2>1, MapsAreSequences, NumbersAreDecoded DEF Number
<1>2. Mapping!ColumnOf(M, i, k) \in Int
  <2>1. CASE k = 0
    BY <2>1, ColumnSteps
  <2>2. CASE k # 0
    <3>1. k \in DOMAIN M[i]
      BY <1>0, <2>2
    <3> QED
      BY <1>1, <3>1, ColumnSteps
  <2> QED
    BY <2>1, <2>2
<1>3. ASSUME NEW n \in 2 .. 4 PROVE Mapping!SumOf(M, i, k, n) \in Int
  <2>1. CASE k \in DOMAIN M[i]
    BY <1>1, <2>1, SumSteps
  <2>2. CASE k \notin DOMAIN M[i]
    <3>1. k = 0
      BY <1>0, <2>2
    <3> DEFINE f == [c \in Mapping!UpTo(M, i, 0) |-> Mapping!decodeVLQ(M[c[1]][c[2]][n])]
    <3>2. Mapping!SumOf(M, i, 0, n) = Total(f)
      BY PartSums DEF Mapping!SumOf
    <3>3. f \in [Mapping!UpTo(M, i, 0) -> Int]
      <4> SUFFICES ASSUME NEW c \in Mapping!UpTo(M, i, 0) PROVE Mapping!decodeVLQ(M[c[1]][c[2]][n]) \in Int
        OBVIOUS
      <4>0. PICK l \in 1 .. i : \E m \in DOMAIN M[l] : c = <<l, m>> /\ Len(M[l][m]) >= 4
        BY UpToMembers
      <4>1. PICK m \in DOMAIN M[l] : c = <<l, m>> /\ Len(M[l][m]) >= 4
        BY <4>0
      <4>2. l \in DOMAIN M
        BY MapsAreSequences
      <4>3. n \in DOMAIN M[l][m]
        BY <4>1, <4>2, MapsAreSequences
      <4>4. M[l][m][n] \in Seq(0 .. 1)
        BY <4>2, <4>3, MapsAreSequences
      <4> QED
        BY <4>1, <4>4, NumbersAreDecoded
    <3>4. IsFiniteSet(Mapping!UpTo(M, i, 0))
      BY SegmentsAreFinite
    <3> HIDE DEF f
    <3> QED
      BY <3>1, <3>2, <3>3, <3>4, TotalIsInt
  <2> QED
    BY <2>1, <2>2
<1> QED
  BY <1>2, <1>3

LEMMA AccIsTyped ==
  ASSUME Mapping!SourceMapsAssumption, NEW M \in Maps, NEW i \in DOMAIN M, NEW k \in 0 .. Len(M[i])
  PROVE  Acc(M, i, k) \in Accs
<1>0. \A j \in 1 .. k : j \in DOMAIN M[i] /\ j \in 0 .. Len(M[i])
  BY MapsAreSequences
<1>1. \A j \in 1 .. k : Seg(M, i, j) \in OneSeg
  <2> SUFFICES ASSUME NEW j \in 1 .. k PROVE Seg(M, i, j) \in OneSeg
    OBVIOUS
  <2>1. /\ Mapping!ColumnOf(M, i, j) \in Int /\ Mapping!SumOf(M, i, j, 2) \in Int
        /\ Mapping!SumOf(M, i, j, 3) \in Int /\ Mapping!SumOf(M, i, j, 4) \in Int
    BY <1>0, AccsAreTyped
  <2> QED
    BY <2>1 DEF Seg, OneSeg
<1>2. [j \in 1 .. k |-> Seg(M, i, j)] \in Seq(OneSeg)
  <2>1. k \in Nat
    BY MapsAreSequences
  <2> QED
    BY <1>1, <2>1
<1>3. /\ Mapping!ColumnOf(M, i, k) \in Int /\ Mapping!SumOf(M, i, k, 2) \in Int
      /\ Mapping!SumOf(M, i, k, 3) \in Int /\ Mapping!SumOf(M, i, k, 4) \in Int
  BY AccsAreTyped
<1> QED
  BY <1>2, <1>3 DEF Acc, Accs

\* A segment is added to what was read.
LEMMA SegmentIsAdded ==
  ASSUME Mapping!SourceMapsAssumption, NEW M \in Maps, NEW i \in DOMAIN M, NEW k \in DOMAIN M[i]
  PROVE  Mapping!addSegment(Acc(M, i, k - 1), M[i][k]) = Acc(M, i, k)
<1> DEFINE a == Acc(M, i, k - 1)
           v == Mapping!decodeVLQSegment(M[i][k])
           new == [genCol |-> a.genCol + v[1],
                   src |-> IF Len(v) < 4 THEN -1 ELSE a.src + v[2],
                   line |-> IF Len(v) < 4 THEN -1 ELSE a.line + v[3],
                   col |-> IF Len(v) < 4 THEN -1 ELSE a.col + v[4]]
<1>1. k \in Nat /\ k - 1 \in 0 .. Len(M[i]) /\ k \in 0 .. Len(M[i])
      /\ DOMAIN M[i][k] = 1 .. Len(M[i][k]) /\ Len(M[i][k]) \in Nat /\ Len(M[i][k]) >= 1
  BY MapsAreSequences
<1>2. /\ DOMAIN v = 1 .. Len(M[i][k]) /\ \A n \in DOMAIN v : v[n] = Number(M, i, k, n)
      /\ \A n \in DOMAIN v : v[n] \in Int
  BY <1>1, MapsAreSequences, NumbersAreDecoded DEF Mapping!decodeVLQSegment, Number
<1>3. Len(v) = Len(M[i][k])
  BY <1>1, <1>2
<1>4. a \in Accs /\ Acc(M, i, k) \in Accs
  BY <1>1, AccIsTyped
<1>5. /\ a.genCol = Mapping!ColumnOf(M, i, k - 1) /\ a.src = Mapping!SumOf(M, i, k - 1, 2)
      /\ a.line = Mapping!SumOf(M, i, k - 1, 3) /\ a.col = Mapping!SumOf(M, i, k - 1, 4)
      /\ a.segs = [j \in 1 .. (k - 1) |-> Seg(M, i, j)]
  BY DEF Acc
<1>6. Mapping!ColumnOf(M, i, k) = a.genCol + v[1]
  <2>1. Mapping!ColumnOf(M, i, k) = Number(M, i, k, 1) + Mapping!ColumnOf(M, i, k - 1)
        /\ Mapping!ColumnOf(M, i, k - 1) \in Int
    BY ColumnSteps
  <2>2. v[1] = Number(M, i, k, 1) /\ v[1] \in Int
    BY <1>1, <1>2
  <2> HIDE DEF a, v
  <2> QED
    BY <1>5, <2>1, <2>2
<1>7. ASSUME NEW n \in 2 .. 4
      PROVE  Mapping!SumOf(M, i, k, n) = IF Len(v) < 4 THEN Mapping!SumOf(M, i, k - 1, n)
                                         ELSE Mapping!SumOf(M, i, k - 1, n) + v[n]
  <2>1. /\ Mapping!SumOf(M, i, k - 1, n) \in Int
        /\ Mapping!SumOf(M, i, k, n) =
                IF Len(M[i][k]) >= 4 THEN Number(M, i, k, n) + Mapping!SumOf(M, i, k - 1, n)
                ELSE Mapping!SumOf(M, i, k - 1, n)
    BY SumSteps
  <2>2. Len(v) >= 4 => v[n] = Number(M, i, k, n) /\ v[n] \in Int
    BY <1>1, <1>2, <1>3
  <2> HIDE DEF a, v
  <2> QED
    BY <1>1, <1>3, <2>1, <2>2
<1>8. new = Seg(M, i, k)
  <2> HIDE DEF a, v
  <2>1. Len(v) < 4 <=> Len(M[i][k]) < 4
    BY <1>3
  <2>2. ~ Len(v) < 4 => /\ Mapping!SumOf(M, i, k, 2) = a.src + v[2]
                        /\ Mapping!SumOf(M, i, k, 3) = a.line + v[3]
                        /\ Mapping!SumOf(M, i, k, 4) = a.col + v[4]
    BY <1>5, <1>7
  <2> QED
    BY <1>6, <2>1, <2>2 DEF Seg
<1>9. Append(a.segs, new) = [j \in 1 .. k |-> Seg(M, i, j)]
  <2> HIDE DEF new
  <2>1. DOMAIN a.segs = 1 .. (k - 1) /\ Len(a.segs) = k - 1
    BY <1>1, <1>5
  <2> HIDE DEF a
  <2>2. Append(a.segs, new) = [j \in 1 .. k |-> IF j = k THEN new ELSE a.segs[j]]
    <3>1. a.segs \in Seq(OneSeg) /\ (k - 1) + 1 = k
      BY <1>1, <1>4 DEF Accs
    <3> QED
      BY <2>1, <3>1
  <2>3. \A j \in 1 .. k : (IF j = k THEN new ELSE a.segs[j]) = Seg(M, i, j)
    BY <1>1, <1>5, <1>8
  <2> QED
    BY <2>2, <2>3
<1>10. CASE Len(v) < 4
  <2>1. Mapping!addSegment(a, M[i][k]) = [a EXCEPT !.genCol = a.genCol + v[1],
                                                   !.segs = Append(a.segs, new)]
    BY <1>10 DEF Mapping!addSegment
  <2>2. /\ Acc(M, i, k) = [genCol |-> a.genCol + v[1], src |-> a.src, line |-> a.line, col |-> a.col,
                           segs |-> Append(a.segs, new)]
    <3>1. /\ Mapping!SumOf(M, i, k, 2) = a.src
          /\ Mapping!SumOf(M, i, k, 3) = a.line
          /\ Mapping!SumOf(M, i, k, 4) = a.col
      <4> HIDE DEF a, v
      <4> QED
        BY <1>5, <1>7, <1>10
    <3> HIDE DEF a, v, new
    <3> QED
      BY <1>6, <1>9, <3>1 DEF Acc
  <2> HIDE DEF a, v, new
  <2> QED
    BY <1>4, <2>1, <2>2 DEF a, Accs
<1>11. CASE ~ Len(v) < 4
  <2>1. Mapping!addSegment(a, M[i][k]) = [a EXCEPT !.genCol = a.genCol + v[1], !.src = a.src + v[2],
                                                   !.line = a.line + v[3], !.col = a.col + v[4],
                                                   !.segs = Append(a.segs, new)]
    BY <1>11 DEF Mapping!addSegment
  <2>2. /\ Acc(M, i, k) = [genCol |-> a.genCol + v[1], src |-> a.src + v[2], line |-> a.line + v[3],
                           col |-> a.col + v[4], segs |-> Append(a.segs, new)]
    <3>1. /\ Mapping!SumOf(M, i, k, 2) = a.src + v[2]
          /\ Mapping!SumOf(M, i, k, 3) = a.line + v[3]
          /\ Mapping!SumOf(M, i, k, 4) = a.col + v[4]
      <4> HIDE DEF a, v
      <4> QED
        BY <1>5, <1>7, <1>11
    <3> HIDE DEF a, v, new
    <3> QED
      BY <1>6, <1>9, <3>1 DEF Acc
  <2> HIDE DEF a, v, new
  <2> QED
    BY <1>4, <2>1, <2>2 DEF a, Accs
<1> QED
  BY <1>10, <1>11

\* The fold over a line reads all its segments.
LEMMA LineIsRead ==
  ASSUME Mapping!SourceMapsAssumption, NEW M \in Maps, NEW i \in DOMAIN M
  PROVE  Mapping!FoldLeft(Mapping!addSegment, Acc(M, i, 0), M[i]) = Acc(M, i, Len(M[i]))
<1> DEFINE n == Len(M[i])
           D == DOMAIN M[i]
           base == Acc(M, i, 0)
           Step(G, T) == IF T = {} THEN base
                         ELSE Mapping!addSegment(G[T \ {Mapping!Max(T)}], M[i][Mapping!Max(T)])
           Fold == CHOOSE G : G = [T \in SUBSET D |-> Step(G, T)]
           c == [T \in (SUBSET D) \ {{}} |-> Mapping!Max(T)]
           g == [k \in D |-> [v \in Accs |-> Mapping!addSegment(v, M[i][k])]]
           A == [k \in 0 .. n |-> Acc(M, i, k)]
<1>1. Mapping!FoldLeft(Mapping!addSegment, Acc(M, i, 0), M[i]) = Fold[D]
  BY DEF Mapping!FoldLeft, Mapping!MapThenFoldSet
<1>2. D = 1 .. n /\ n \in Nat /\ D \in SUBSET Nat /\ IsFiniteSet(D)
  <2>1. D = 1 .. n /\ n \in Nat
    BY MapsAreSequences
  <2> HIDE DEF n, D
  <2>2. IsFiniteSet(1 .. n)
    BY <2>1, FS_Interval
  <2> QED
    BY <2>1, <2>2
<1> HIDE DEF n, D
<1>3. \A T \in SUBSET D : T # {} => Mapping!Max(T) \in T /\ \A j \in T : j <= Mapping!Max(T)
  <2> SUFFICES ASSUME NEW T \in SUBSET D, T # {}
               PROVE Mapping!Max(T) \in T /\ \A j \in T : j <= Mapping!Max(T)
    OBVIOUS
  <2>1. T \in SUBSET Nat /\ IsFiniteSet(T)
    BY <1>2, FS_Subset
  <2>2. PICK m \in T : \A j \in T : j <= m
    BY <2>1, FiniteMax
  <2>3. \A j \in T : m >= j
    BY <2>1, <2>2
  <2>4. Mapping!Max(T) \in T /\ \A j \in T : Mapping!Max(T) >= j
    BY <2>3 DEF Mapping!Max
  <2> QED
    BY <2>1, <2>4
<1>4. \A k \in D, v \in Accs : g[k][v] = Mapping!addSegment(v, M[i][k]) /\ g[k][v] \in Accs
  <2> SUFFICES ASSUME NEW k \in D, NEW v \in Accs
               PROVE  g[k][v] = Mapping!addSegment(v, M[i][k]) /\ g[k][v] \in Accs
    OBVIOUS
  <2>1. g[k][v] = Mapping!addSegment(v, M[i][k])
    OBVIOUS
  <2>2. Mapping!addSegment(v, M[i][k]) \in Accs
    <3> DEFINE w == Mapping!decodeVLQSegment(M[i][k])
    <3>1. /\ DOMAIN M[i][k] = 1 .. Len(M[i][k]) /\ Len(M[i][k]) \in Nat /\ Len(M[i][k]) >= 1
      BY MapsAreSequences DEF D
    <3>2. DOMAIN w = 1 .. Len(M[i][k]) /\ \A m \in DOMAIN w : w[m] \in Int
      BY <3>1, MapsAreSequences, NumbersAreDecoded DEF Mapping!decodeVLQSegment, D
    <3>3. Len(w) = Len(M[i][k])
      BY <3>1, <3>2
    <3> HIDE DEF w
    <3>4. w[1] \in Int /\ (~ Len(w) < 4 => w[2] \in Int /\ w[3] \in Int /\ w[4] \in Int)
      BY <3>1, <3>2, <3>3
    <3>5. v.genCol \in Int /\ v.src \in Int /\ v.line \in Int /\ v.col \in Int /\ v.segs \in Seq(OneSeg)
      BY DEF Accs
    <3>6. CASE Len(w) < 4
      <4>1. Mapping!addSegment(v, M[i][k]) =
              [v EXCEPT !.genCol = v.genCol + w[1],
                        !.segs = Append(v.segs, [genCol |-> v.genCol + w[1], src |-> -1, line |-> -1, col |-> -1])]
        BY <3>6 DEF Mapping!addSegment, w
      <4>2. [genCol |-> v.genCol + w[1], src |-> -1, line |-> -1, col |-> -1] \in OneSeg
        BY <3>4, <3>5 DEF OneSeg
      <4>3. Append(v.segs, [genCol |-> v.genCol + w[1], src |-> -1, line |-> -1, col |-> -1]) \in Seq(OneSeg)
        BY <3>5, <4>2
      <4>4. v.genCol + w[1] \in Int
        BY <3>4, <3>5
      <4> QED
        BY <4>1, <4>3, <4>4 DEF Accs
    <3>7. CASE ~ Len(w) < 4
      <4>0. w[1] \in Int /\ w[2] \in Int /\ w[3] \in Int /\ w[4] \in Int
        BY <3>4, <3>7
      <4>2. v.genCol + w[1] \in Int /\ v.src + w[2] \in Int /\ v.line + w[3] \in Int /\ v.col + w[4] \in Int
        <5>1. \A a, b \in Int : a + b \in Int
          OBVIOUS
        <5>2. v.genCol + w[1] \in Int
          BY <3>5, <4>0, <5>1
        <5>3. v.src + w[2] \in Int
          BY <3>5, <4>0, <5>1
        <5>4. v.line + w[3] \in Int
          BY <3>5, <4>0, <5>1
        <5>5. v.col + w[4] \in Int
          BY <3>5, <4>0, <5>1
        <5> QED
          BY <5>2, <5>3, <5>4, <5>5
      <4> DEFINE s == [genCol |-> v.genCol + w[1], src |-> v.src + w[2], line |-> v.line + w[3],
                       col |-> v.col + w[4]]
      <4>1. Mapping!addSegment(v, M[i][k]) =
              [v EXCEPT !.genCol = v.genCol + w[1], !.src = v.src + w[2], !.line = v.line + w[3],
                        !.col = v.col + w[4], !.segs = Append(v.segs, s)]
        BY <3>7 DEF Mapping!addSegment, w
      <4>3. s \in OneSeg
        BY <4>2 DEF OneSeg
      <4> HIDE DEF s
      <4>4. Append(v.segs, s) \in Seq(OneSeg)
        BY <3>5, <4>3
      <4> QED
        BY <4>1, <4>2, <4>4 DEF Accs
    <3> QED
      BY <3>6, <3>7
  <2> QED
    BY <2>1, <2>2
<1>5. \A T \in SUBSET D : T # {} => c[T] = Mapping!Max(T) /\ c[T] \in T /\ \A j \in T : j <= c[T]
  BY <1>3
<1>6. base \in Accs /\ \A k \in 0 .. n : A[k] = Acc(M, i, k) /\ A[k] \in Accs
  <2>1. \A k \in 0 .. n : Acc(M, i, k) \in Accs
    BY AccIsTyped DEF n
  <2>2. 0 \in 0 .. n
    BY <1>2
  <2> QED
    BY <2>1, <2>2
<1> HIDE DEF c, g, A
<1>7. PICK F : IsFold(F, D, Accs, base, c, g)
  <2>1. CanFold(D, Accs, c, g)
    BY <1>4, <1>5 DEF CanFold
  <2> HIDE DEF base
  <2> QED
    BY <1>2, <1>6, <2>1, FoldExists
<1>8. \A T \in SUBSET D : F[T] = Step(F, T)
  <2> SUFFICES ASSUME NEW T \in SUBSET D PROVE F[T] = Step(F, T)
    OBVIOUS
  <2>1. F[T] = IF T = {} THEN base ELSE g[c[T]][F[T \ {c[T]}]]
    BY <1>7 DEF IsFold
  <2> HIDE DEF base
  <2>2. CASE T = {}
    BY <2>1, <2>2
  <2>3. CASE T # {}
    <3>1. c[T] = Mapping!Max(T) /\ c[T] \in D /\ T \ {c[T]} \in SUBSET D
      BY <1>5, <2>3
    <3>2. F[T \ {c[T]}] \in Accs
      BY <1>7, <3>1 DEF IsFold
    <3>3. F[T] = g[c[T]][F[T \ {c[T]}]]
      BY <2>1, <2>3
    <3> QED
      BY <1>4, <2>3, <3>1, <3>2, <3>3
  <2> QED
    BY <2>2, <2>3
<1>9. F = [T \in SUBSET D |-> Step(F, T)]
  <2>1. F \in [SUBSET D -> Accs]
    BY <1>7 DEF IsFold
  <2> HIDE DEF Step
  <2> QED
    BY <1>8, <2>1
<1> HIDE DEF Step
<1>10. Fold = [T \in SUBSET D |-> Step(Fold, T)]
  BY <1>9
<1> HIDE DEF Fold
<1> DEFINE Q == {T \in SUBSET D : Fold[T] = F[T]}
<1>11. ASSUME NEW T \in SUBSET D, \A x \in T : T \ {x} \in Q PROVE T \in Q
  <2>1. Fold[T] = Step(Fold, T) /\ F[T] = Step(F, T)
    BY <1>8, <1>10
  <2>2. Step(Fold, T) = Step(F, T)
    <3>1. CASE T = {}
      BY <3>1 DEF Step
    <3>2. CASE T # {}
      <4>1. Mapping!Max(T) \in T
        BY <1>3, <3>2
      <4>2. Fold[T \ {Mapping!Max(T)}] = F[T \ {Mapping!Max(T)}]
        BY <1>11, <4>1
      <4> QED
        BY <3>2, <4>2 DEF Step
    <3> QED
      BY <3>1, <3>2
  <2> QED
    BY <2>1, <2>2
<1>12. Fold[D] = F[D]
  <2>1. \A T \in SUBSET D : (\A x \in T : T \ {x} \in Q) => T \in Q
    BY <1>11
  <2> HIDE DEF Q
  <2>2. \A T \in SUBSET D : T \in Q
    BY <1>2, <2>1, SubsetsAreReached
  <2>3. D \in Q
    BY <2>2
  <2> QED
    BY <2>3 DEF Q
<1>13. \A k \in 1 .. n : A[k] = g[k][A[k - 1]]
  <2> SUFFICES ASSUME NEW k \in 1 .. n PROVE A[k] = g[k][A[k - 1]]
    OBVIOUS
  <2>1. k \in D /\ k \in 0 .. n /\ k - 1 \in 0 .. n
    BY <1>2
  <2>2. g[k][A[k - 1]] = Mapping!addSegment(A[k - 1], M[i][k])
    BY <1>4, <1>6, <2>1
  <2>3. Mapping!addSegment(Acc(M, i, k - 1), M[i][k]) = Acc(M, i, k)
    BY <2>1, SegmentIsAdded DEF D
  <2> QED
    BY <1>6, <2>1, <2>2, <2>3
<1>14. F[1 .. n] = A[n]
  <2>1. A[0] = base
    BY <1>2, <1>6
  <2>2. IsFold(F, 1 .. n, Accs, base, c, g)
    BY <1>2, <1>7
  <2>3. \A T \in SUBSET (1 .. n) : T # {} => c[T] \in T /\ \A j \in T : j <= c[T]
    BY <1>2, <1>5
  <2> HIDE DEF base
  <2>4. \A k \in 0 .. n : F[1 .. k] = A[k]
    BY <1>2, <1>13, <2>1, <2>2, <2>3, FoldGoesInOrder
  <2> QED
    BY <1>2, <2>4
<1> QED
  BY <1>1, <1>2, <1>6, <1>12, <1>14 DEF n

LEMMA LineIsCleared ==
  ASSUME NEW a \in Accs, NEW none, NEW zero
  PROVE  [a EXCEPT !.genCol = zero, !.segs = none]
           = [genCol |-> zero, src |-> a.src, line |-> a.line, col |-> a.col, segs |-> none]
<1> DEFINE e == [a EXCEPT !.genCol = zero, !.segs = none]
           Names == {"genCol", "src", "line", "col", "segs"}
<1>1. a = [f \in Names |-> a[f]]
  BY DEF Accs
<1>2. e = [f \in Names |-> IF f = "genCol" THEN zero ELSE IF f = "segs" THEN none ELSE a[f]]
  BY <1>1
<1>3. /\ DOMAIN e = Names /\ e.genCol = zero /\ e.src = a.src /\ e.line = a.line /\ e.col = a.col
      /\ e.segs = none
  BY <1>2
<1> HIDE DEF e
<1>4. e = [genCol |-> e.genCol, src |-> e.src, line |-> e.line, col |-> e.col, segs |-> e.segs]
  BY <1>2
<1> QED
  BY <1>3, <1>4 DEF e

LEMMA NextLineBegins ==
  ASSUME Mapping!SourceMapsAssumption, NEW M \in Maps
  PROVE  /\ 1 \in DOMAIN M => Mapping!nextLine(Mapping!Start) = Acc(M, 1, 0)
         /\ \A i \in DOMAIN M : i + 1 \in DOMAIN M =>
                Mapping!nextLine(Acc(M, i, Len(M[i]))) = Acc(M, i + 1, 0)
<1>0. \A k : [j \in 1 .. 0 |-> Seg(M, k, j)] = <<>>
  OBVIOUS
<1>1. ASSUME 1 \in DOMAIN M PROVE Mapping!nextLine(Mapping!Start) = Acc(M, 1, 0)
  <2>1. /\ Mapping!SumOf(M, 1, 0, 2) = 0 /\ Mapping!SumOf(M, 1, 0, 3) = 0
        /\ Mapping!SumOf(M, 1, 0, 4) = 0 /\ Mapping!ColumnOf(M, 1, 0) = 0
    BY <1>1, SumsGoOn, ColumnSteps
  <2>2. Acc(M, 1, 0) = [genCol |-> 0, src |-> 0, line |-> 0, col |-> 0, segs |-> <<>>]
    BY <1>0, <2>1 DEF Acc
  <2>3. Mapping!Start = [genCol |-> 0, src |-> 0, line |-> 0, col |-> 0, segs |-> <<>>]
    BY DEF Mapping!Start
  <2>4. Mapping!Start \in Accs
    <3>1. <<>> \in Seq(OneSeg)
      OBVIOUS
    <3> QED
      BY <2>3, <3>1 DEF Accs
  <2>5. Mapping!nextLine(Mapping!Start)
          = [genCol |-> 0, src |-> Mapping!Start.src, line |-> Mapping!Start.line,
             col |-> Mapping!Start.col, segs |-> <<>>]
    BY <2>4, LineIsCleared DEF Mapping!nextLine
  <2>6. Mapping!Start.src = 0 /\ Mapping!Start.line = 0 /\ Mapping!Start.col = 0
    BY <2>3
  <2> QED
    BY <2>2, <2>5, <2>6
<1>2. ASSUME NEW i \in DOMAIN M, i + 1 \in DOMAIN M
      PROVE  Mapping!nextLine(Acc(M, i, Len(M[i]))) = Acc(M, i + 1, 0)
  <2>1. /\ Mapping!SumOf(M, i + 1, 0, 2) = Mapping!SumOf(M, i, Len(M[i]), 2)
        /\ Mapping!SumOf(M, i + 1, 0, 3) = Mapping!SumOf(M, i, Len(M[i]), 3)
        /\ Mapping!SumOf(M, i + 1, 0, 4) = Mapping!SumOf(M, i, Len(M[i]), 4)
        /\ Mapping!ColumnOf(M, i + 1, 0) = 0
    BY <1>2, SumsGoOn, ColumnSteps
  <2>2. Acc(M, i + 1, 0) = [genCol |-> 0, src |-> Mapping!SumOf(M, i, Len(M[i]), 2),
                            line |-> Mapping!SumOf(M, i, Len(M[i]), 3),
                            col |-> Mapping!SumOf(M, i, Len(M[i]), 4), segs |-> <<>>]
    BY <1>0, <2>1 DEF Acc
  <2> DEFINE a == Acc(M, i, Len(M[i]))
  <2>3. a.src = Mapping!SumOf(M, i, Len(M[i]), 2) /\ a.line = Mapping!SumOf(M, i, Len(M[i]), 3)
        /\ a.col = Mapping!SumOf(M, i, Len(M[i]), 4)
    BY DEF Acc
  <2>4. a \in Accs
    <3>1. Len(M[i]) \in 0 .. Len(M[i])
      BY MapsAreSequences
    <3> QED
      BY <3>1, AccIsTyped
  <2> HIDE DEF a
  <2>5. [a EXCEPT !.genCol = 0, !.segs = <<>>]
          = [genCol |-> 0, src |-> a.src, line |-> a.line, col |-> a.col, segs |-> <<>>]
    BY <2>4, LineIsCleared
  <2>6. Mapping!nextLine(a) = [a EXCEPT !.genCol = 0, !.segs = <<>>]
    BY DEF Mapping!nextLine
  <2> QED
    BY <2>2, <2>3, <2>5, <2>6 DEF a
<1> QED
  BY <1>1, <1>2

\* A map is read line by line.
LEMMA MapIsParsed ==
  ASSUME Mapping!SourceMapsAssumption, NEW M \in Maps
  PROVE  Mapping!parseMappings(M) = [i \in DOMAIN M |-> [j \in 1 .. Len(M[i]) |-> Seg(M, i, j)]]
<1> DEFINE n == Len(M)
           Step(G, i) == IF i = 0 THEN Mapping!Start
                         ELSE Mapping!FoldLeft(Mapping!addSegment, Mapping!nextLine(G[i - 1]), M[i])
           After == CHOOSE G : G = [i \in 0 .. n |-> Step(G, i)]
           W == [i \in 0 .. n |-> IF i = 0 THEN Mapping!Start ELSE Acc(M, i, Len(M[i]))]
<1>1. Mapping!parseMappings(M) = [i \in DOMAIN M |-> After[i].segs]
  BY DEF Mapping!parseMappings
<1>2. n \in Nat /\ DOMAIN M = 1 .. n
  BY MapsAreSequences
<1> HIDE DEF n
<1>3. ASSUME NEW i \in 1 .. n, NEW G, G[i - 1] = W[i - 1] PROVE Step(G, i) = W[i]
  <2>1. i \in DOMAIN M /\ i # 0 /\ i \in 0 .. n /\ i - 1 \in 0 .. n
    BY <1>2
  <2>2. Mapping!nextLine(W[i - 1]) = Acc(M, i, 0)
    <3>1. CASE i = 1
      <4>1. W[0] = Mapping!Start
        BY <2>1, <3>1
      <4> HIDE DEF W
      <4> QED
        BY <2>1, <3>1, <4>1, NextLineBegins
    <3>2. CASE i # 1
      <4>1. i - 1 \in DOMAIN M /\ (i - 1) + 1 = i /\ i - 1 # 0
        BY <1>2, <3>2
      <4>2. W[i - 1] = Acc(M, i - 1, Len(M[i - 1]))
        BY <2>1, <4>1
      <4> HIDE DEF W
      <4> QED
        BY <2>1, <4>1, <4>2, NextLineBegins
    <3> QED
      BY <3>1, <3>2
  <2>3. W[i] = Acc(M, i, Len(M[i]))
    BY <2>1
  <2> HIDE DEF W
  <2> QED
    BY <1>3, <2>1, <2>2, <2>3, LineIsRead
<1>4. W = [i \in 0 .. n |-> Step(W, i)]
  <2>1. \A i \in 0 .. n : W[i] = Step(W, i)
    <3> SUFFICES ASSUME NEW i \in 0 .. n PROVE W[i] = Step(W, i)
      OBVIOUS
    <3>1. CASE i = 0
      BY <3>1
    <3>2. CASE i # 0
      <4>1. i \in 1 .. n
        BY <1>2, <3>2
      <4> HIDE DEF Step, W
      <4> QED
        BY <1>3, <4>1
    <3> QED
      BY <3>1, <3>2
  <2> HIDE DEF Step
  <2> QED
    BY <2>1
<1>5. W[0] = Mapping!Start /\ \A G : Step(G, 0) = Mapping!Start
  BY <1>2
<1>6. \A i \in DOMAIN M : W[i].segs = [j \in 1 .. Len(M[i]) |-> Seg(M, i, j)]
  <2> SUFFICES ASSUME NEW i \in DOMAIN M PROVE W[i].segs = [j \in 1 .. Len(M[i]) |-> Seg(M, i, j)]
    OBVIOUS
  <2>1. W[i] = Acc(M, i, Len(M[i]))
    BY <1>2
  <2> HIDE DEF W
  <2> QED
    BY <2>1 DEF Acc
<1> HIDE DEF Step, W
<1>7. After = [i \in 0 .. n |-> Step(After, i)]
  BY <1>4
<1> HIDE DEF After
<1> DEFINE G == {i \in Nat : i <= n => After[i] = W[i]}
<1>8. 0 \in G
  <2>1. 0 \in 0 .. n
    BY <1>2
  <2> QED
    BY <1>5, <1>7, <2>1
<1>9. ASSUME NEW i \in G PROVE i + 1 \in G
  <2> SUFFICES ASSUME i + 1 <= n PROVE After[i + 1] = W[i + 1]
    OBVIOUS
  <2>1. i + 1 \in 1 .. n /\ i + 1 \in 0 .. n /\ (i + 1) - 1 = i /\ i <= n
    BY <1>2
  <2>2. After[i] = W[i]
    BY <2>1
  <2>3. After[i + 1] = Step(After, i + 1)
    BY <1>7, <2>1
  <2> QED
    BY <1>3, <2>1, <2>2, <2>3
<1>10. G = Nat
  <2>1. G \in SUBSET Nat
    OBVIOUS
  <2> HIDE DEF G
  <2> QED
    BY <1>8, <1>9, <2>1, NumbersAreReached
<1>11. \A i \in DOMAIN M : After[i] = W[i]
  BY <1>2, <1>10
<1> QED
  BY <1>1, <1>6, <1>11

\* Whoever counts from none has a least.
LEMMA LeastExists ==
  ASSUME NEW T \in SUBSET Nat, T # {}
  PROVE  \E i \in T : \A j \in T : i <= j
<1> DEFINE R == OpToRel(<, Nat)
<1>1. IsWellFoundedOn(R, Nat)
  BY NatLessThanWellFounded
<1>2. \A a, b \in Nat : a < b => <<a, b>> \in R
  BY DEF OpToRel
<1> HIDE DEF R
<1>3. PICK d \in T : \A e \in T : ~ (<<e, d>> \in R)
  BY <1>1, WFMin
<1>4. \A e \in T : d <= e
  <2> SUFFICES ASSUME NEW e \in T PROVE d <= e
    OBVIOUS
  <2>1. e \in Nat /\ d \in Nat
    OBVIOUS
  <2>2. ~ e < d
    BY <1>2, <1>3, <2>1
  <2> QED
    BY <2>1, <2>2
<1> QED
  BY <1>4

\* The lookup finds the segment the frame lies in.
LEMMA PositionIsFound ==
  ASSUME Mapping!SourceMapsAssumption, NEW M \in Maps, NEW f \in Frames
  PROVE  Mapping!lookupIn(Mapping!parseMappings(M), f.line, f.col) = Mapping!Position(M, f)
<1> DEFINE lines == Mapping!parseMappings(M)
           L == f.line
           N == Len(M[L])
           col == f.col
           segs == lines[L]
           upto == {k \in DOMAIN M[L] : \A i \in 1 .. k : Mapping!ColumnOf(M, L, i) <= f.col}
           last == CHOOSE x \in upto : \A y \in upto : y <= x
           later == {i \in DOMAIN segs : segs[i].genCol > col}
           b == Mapping!LastSegment(segs, col)
<1>1. DOMAIN lines = DOMAIN M /\ \A i \in DOMAIN M : lines[i] = [j \in 1 .. Len(M[i]) |-> Seg(M, i, j)]
  BY MapIsParsed
<1> HIDE DEF lines
<1>2. CASE L \notin DOMAIN M
  <2>1. Mapping!lookupIn(lines, f.line, f.col) = Mapping!NotFound
    BY <1>1, <1>2 DEF Mapping!lookupIn
  <2>2. Mapping!Position(M, f) = Mapping!NotFound
    BY <1>2 DEF Mapping!Position
  <2> QED
    BY <2>1, <2>2 DEF lines
<1>3. CASE L \in DOMAIN M
  <2>1. N \in Nat /\ DOMAIN M[L] = 1 .. N
    BY <1>3, MapsAreSequences
  <2>2. segs = [j \in 1 .. N |-> Seg(M, L, j)]
    BY <1>1, <1>3
  <2> HIDE DEF N, segs
  <2>3. DOMAIN segs = 1 .. N /\ \A j \in 1 .. N : segs[j] = Seg(M, L, j)
    BY <2>2
  <2>4. Len(segs) = N
    BY <2>1, <2>3
  <2>5. col \in Int /\ \A j \in 1 .. N : segs[j].genCol = Mapping!ColumnOf(M, L, j)
                                          /\ Mapping!ColumnOf(M, L, j) \in Int
    <3>1. col \in Int
      BY DEF Mapping!SourceMapsAssumption
    <3>2. \A j \in 1 .. N : Mapping!ColumnOf(M, L, j) \in Int
      BY <1>3, <2>1, AccsAreTyped DEF N
    <3>3. \A j \in 1 .. N : segs[j].genCol = Mapping!ColumnOf(M, L, j)
      BY <2>3 DEF Seg
    <3> QED
      BY <3>1, <3>2, <3>3
  <2>6. b \in 0 .. N /\ (\A i \in 1 .. b : Mapping!ColumnOf(M, L, i) <= col)
        /\ (b # N => Mapping!ColumnOf(M, L, b + 1) > col)
    <3>1. CASE later = {}
      <4>1. b = N
        BY <2>4, <3>1 DEF Mapping!LastSegment
      <4>2. \A i \in 1 .. N : ~ Mapping!ColumnOf(M, L, i) > col
        BY <2>3, <2>5, <3>1
      <4> HIDE DEF b, col
      <4> QED
        BY <2>1, <2>5, <4>1, <4>2
    <3>2. CASE later # {}
      <4> DEFINE m == CHOOSE i \in later : \A k \in later : i <= k
      <4>1. later \in SUBSET Nat
        BY <2>3
      <4>2. \E i \in later : \A k \in later : i <= k
        <5> HIDE DEF later
        <5> QED
          BY <3>2, <4>1, LeastExists
      <4>3. m \in later /\ \A k \in later : m <= k
        <5> HIDE DEF later
        <5> QED
          BY <4>2
      <4>4. b = m - 1
        BY <3>2 DEF Mapping!LastSegment
      <4>5. m \in 1 .. N /\ Mapping!ColumnOf(M, L, m) > col
        <5> HIDE DEF m
        <5> QED
          BY <2>3, <2>5, <4>3
      <4>6. \A i \in 1 .. N : i < m => ~ Mapping!ColumnOf(M, L, i) > col
        <5> HIDE DEF m
        <5> SUFFICES ASSUME NEW i \in 1 .. N, i < m, Mapping!ColumnOf(M, L, i) > col PROVE FALSE
          OBVIOUS
        <5>1. i \in later
          BY <2>3, <2>5
        <5>2. m <= i /\ m \in Int
          BY <4>3, <4>5, <5>1
        <5> QED
          BY <5>2
      <4> HIDE DEF b, m, col
      <4> QED
        BY <2>1, <2>5, <4>4, <4>5, <4>6
    <3> QED
      BY <3>1, <3>2
  <2>7. upto = 1 .. b
    <3> HIDE DEF b
    <3>1. ASSUME NEW k \in 1 .. b PROVE k \in upto
      <4>1. k \in DOMAIN M[L] /\ \A i \in 1 .. k : i \in 1 .. b
        BY <2>1, <2>6
      <4> QED
        BY <2>6, <4>1
    <3>2. ASSUME NEW k \in upto PROVE k \in 1 .. b
      <4>1. k \in 1 .. N /\ \A i \in 1 .. k : Mapping!ColumnOf(M, L, i) <= col
        BY <2>1
      <4> HIDE DEF upto, col
      <4> SUFFICES ASSUME ~ k <= b PROVE FALSE
        BY <2>6, <4>1
      <4>2. b # N /\ b + 1 \in 1 .. k /\ b + 1 \in 1 .. N
        BY <2>1, <2>6, <4>1
      <4>3. Mapping!ColumnOf(M, L, b + 1) > col /\ Mapping!ColumnOf(M, L, b + 1) <= col
        BY <2>6, <4>1, <4>2
      <4> QED
        BY <2>5, <4>2, <4>3
    <3> HIDE DEF upto
    <3> QED
      BY <3>1, <3>2
  <2>8. Mapping!lookupIn(lines, f.line, f.col) =
          IF b = 0 THEN Mapping!NotFound
          ELSE IF segs[b].src < 0 THEN Mapping!NoSource
               ELSE [src |-> segs[b].src, line |-> segs[b].line, col |-> segs[b].col]
    BY <1>1, <1>3 DEF Mapping!lookupIn, segs
  <2>9. Mapping!Position(M, f) =
          IF upto = {} THEN Mapping!NotFound
          ELSE IF Len(M[L][last]) < 4 \/ Mapping!SumOf(M, L, last, 2) < 0 THEN Mapping!NoSource
          ELSE [src |-> Mapping!SumOf(M, L, last, 2), line |-> Mapping!SumOf(M, L, last, 3),
                col |-> Mapping!SumOf(M, L, last, 4)]
    BY <1>3 DEF Mapping!Position
  <2>10. CASE b = 0
    <3>1. upto = {}
      BY <2>7, <2>10
    <3> QED
      BY <2>8, <2>9, <2>10, <3>1 DEF lines
  <2>11. CASE b # 0
    <3>1. b \in 1 .. b /\ b \in 1 .. N /\ \A y \in 1 .. b : y <= b
      <4> HIDE DEF b
      <4> QED
        BY <2>1, <2>6, <2>11
    <3>2. last = b
      <4> HIDE DEF upto, b
      <4>1. last \in upto /\ \A y \in upto : y <= last
        BY <2>7, <3>1
      <4> HIDE DEF last
      <4>2. last \in 1 .. b /\ b <= last
        BY <2>7, <3>1, <4>1
      <4> QED
        BY <2>6, <3>1, <4>2
    <3>3. upto # {}
      BY <2>7, <3>1
    <3>4. segs[b] = Seg(M, L, b)
      BY <2>3, <3>1
    <3>5. /\ segs[b].src = IF Len(M[L][b]) < 4 THEN -1 ELSE Mapping!SumOf(M, L, b, 2)
          /\ segs[b].line = IF Len(M[L][b]) < 4 THEN -1 ELSE Mapping!SumOf(M, L, b, 3)
          /\ segs[b].col = IF Len(M[L][b]) < 4 THEN -1 ELSE Mapping!SumOf(M, L, b, 4)
      <4> HIDE DEF b
      <4> QED
        BY <3>4 DEF Seg
    <3> HIDE DEF b, last, upto
    <3>6. CASE Len(M[L][b]) < 4
      <4>1. segs[b].src < 0
        BY <3>5, <3>6
      <4> QED
        BY <2>8, <2>9, <2>11, <3>2, <3>3, <3>6, <4>1 DEF lines
    <3>7. CASE ~ Len(M[L][b]) < 4
      <4>1. /\ segs[b].src = Mapping!SumOf(M, L, b, 2) /\ segs[b].line = Mapping!SumOf(M, L, b, 3)
            /\ segs[b].col = Mapping!SumOf(M, L, b, 4)
        BY <3>5, <3>7
      <4> QED
        BY <2>8, <2>9, <2>11, <3>2, <3>3, <3>7, <4>1 DEF lines
    <3> QED
      BY <3>6, <3>7
  <2> QED
    BY <2>10, <2>11
<1> QED
  BY <1>2, <1>3

-----------------------------------------------------------------------------
(* Lookups while maps are exchanged.                                       *)

AnyMap == Maps \cup {Mapping!NoMap}
FoundLookup == [at : {"found"}, f : Frames, path : Paths, mtime : Nat, of : SUBSET AnyMap]
Told(r) ==
    \/ r.of = {} /\ r.answer = Mapping!NotFound
    \/ \E map \in r.of : r.answer = IF map = Mapping!NoMap THEN Mapping!NotFound ELSE Mapping!Position(map, r.f)

\* A file has a time when there is one, and none is ahead of the exchanges.
FileTrue(p) ==
    /\ files[p].mtime \in 0 .. deploys /\ files[p].map \in AnyMap
    /\ files[p].mtime > 0 => files[p].map \in Maps /\ files[p].map # Mapping!NoMap
\* What the cache remembers under a time is a map the file had at that time or
\* later: the one it has if the time is still the file's, and one that each lookup
\* that found the file at that time may answer from.
CacheTrue(p) ==
    /\ p \in Paths /\ mapCache[p].mtime \in 1 .. deploys
    /\ \E M \in Maps :
        /\ M # Mapping!NoMap /\ mapCache[p].lines = Mapping!parseMappings(M)
        /\ files[p].mtime = mapCache[p].mtime => files[p].map = M
        /\ \A l \in Lookups :
              (lookup[l].at = "found" /\ lookup[l].path = p /\ lookup[l].mtime = mapCache[p].mtime) =>
                  M \in lookup[l].of
LookupTrue(l) ==
    /\ lookup[l].at \in {"idle", "found", "done"}
    /\ lookup[l].at = "found" => /\ lookup[l] \in FoundLookup
                                 /\ lookup[l].mtime \in 1 .. deploys
                                 /\ files[lookup[l].path].map \in lookup[l].of
    /\ lookup[l].at = "done" => Told(lookup[l])
MapsInv ==
    /\ deploys \in Nat
    /\ files = [p \in Paths |-> files[p]] /\ \A p \in Paths : FileTrue(p)
    /\ \A p \in DOMAIN mapCache : CacheTrue(p)
    /\ lookup = [l \in Lookups |-> lookup[l]] /\ \A l \in Lookups : LookupTrue(l)

LEMMA MapsStart == Mapping!Init => MapsInv
<1> SUFFICES ASSUME Mapping!Init PROVE MapsInv
  OBVIOUS
<1>1. /\ files = [p \in Paths |-> [mtime |-> 0, map |-> Mapping!NoMap]] /\ mapCache = <<>> /\ deploys = 0
      /\ lookup = [l \in Lookups |-> [at |-> "idle"]]
  BY DEF Mapping!Init, Mapping!Missing
<1>2. \A p \in Paths : FileTrue(p)
  BY <1>1 DEF FileTrue, AnyMap
<1>3. DOMAIN mapCache = {}
  BY <1>1
<1>4. \A l \in Lookups : LookupTrue(l)
  BY <1>1 DEF LookupTrue
<1>5. files = [p \in Paths |-> files[p]] /\ lookup = [l \in Lookups |-> lookup[l]] /\ deploys \in Nat
  BY <1>1
<1> QED
  BY <1>2, <1>3, <1>4, <1>5 DEF MapsInv

LEMMA FoundIsTrue ==
  ASSUME Mapping!SourceMapsAssumption, MapsInv, NEW l \in Lookups, NEW f \in Frames, Mapping!Stat(l, f)
  PROVE  MapsInv'
<1> DEFINE there == {i \in DOMAIN f.candidates : files[f.candidates[i]].mtime > 0}
           p == f.candidates[CHOOSE i \in there : \A k \in there : i <= k]
           miss == [at |-> "done", f |-> f, answer |-> Mapping!NotFound, of |-> {}]
           hit == [at |-> "found", f |-> f, path |-> p, mtime |-> files[p].mtime, of |-> {files[p].map}]
<1>1. /\ UNCHANGED <<files, mapCache, deploys>>
      /\ lookup' = [lookup EXCEPT ![l] = IF there = {} THEN miss ELSE hit]
  BY Zenon DEF Mapping!Stat
<1>2. /\ lookup' = [m \in Lookups |-> lookup'[m]]
      /\ lookup'[l] = IF there = {} THEN miss ELSE hit
      /\ \A m \in Lookups : m # l => lookup'[m] = lookup[m]
  <2>1. lookup = [m \in Lookups |-> lookup[m]]
    BY DEF MapsInv
  <2> HIDE DEF miss, hit, there
  <2> QED
    BY <1>1, <2>1
<1>3. there # {} => /\ p \in Paths /\ files[p].mtime > 0 /\ files[p].mtime \in 1 .. deploys
                    /\ files[p].map \in AnyMap
  <2> SUFFICES ASSUME there # {} PROVE p \in Paths /\ files[p].mtime > 0 /\ files[p].mtime \in 1 .. deploys
                                       /\ files[p].map \in AnyMap
    OBVIOUS
  <2>1. f.candidates \in Seq(Paths) /\ there \in SUBSET Nat
    BY DEF Mapping!SourceMapsAssumption
  <2>2. \E i \in there : \A k \in there : i <= k
    <3> HIDE DEF there
    <3> QED
      BY <2>1, LeastExists
  <2>3. (CHOOSE i \in there : \A k \in there : i <= k) \in there
    <3> HIDE DEF there
    <3> QED
      BY <2>2
  <2>4. p \in Paths /\ files[p].mtime > 0
    <3>1. \A i \in there : f.candidates[i] \in Paths /\ files[f.candidates[i]].mtime > 0
      BY <2>1
    <3> HIDE DEF there
    <3> QED
      BY <2>3, <3>1
  <2> HIDE DEF p, there
  <2>5. files[p].mtime \in 0 .. deploys /\ files[p].map \in AnyMap /\ deploys \in Nat
    BY <2>4 DEF MapsInv, FileTrue
  <2> QED
    BY <2>4, <2>5
<1>4. there # {} => hit \in FoundLookup
  <2> HIDE DEF p, there
  <2>1. deploys \in Nat
    BY DEF MapsInv
  <2> QED
    BY <1>3, <2>1 DEF FoundLookup
<1>5. /\ there # {} => /\ hit.at = "found" /\ hit.path = p /\ hit.mtime = files[p].mtime
                       /\ hit.of = {files[p].map}
      /\ miss.at = "done" /\ Told(miss)
  BY DEF Told
<1> HIDE DEF miss, hit, p, there
<1>6. \A q \in Paths : FileTrue(q)'
  BY <1>1 DEF MapsInv, FileTrue
<1>7. ASSUME NEW q \in DOMAIN mapCache' PROVE CacheTrue(q)'
  <2>1. q \in DOMAIN mapCache /\ CacheTrue(q)
    BY <1>1, <1>7 DEF MapsInv
  <2>2. PICK M \in Maps :
          /\ M # Mapping!NoMap /\ mapCache[q].lines = Mapping!parseMappings(M)
          /\ files[q].mtime = mapCache[q].mtime => files[q].map = M
          /\ \A m \in Lookups :
                (lookup[m].at = "found" /\ lookup[m].path = q /\ lookup[m].mtime = mapCache[q].mtime) =>
                    M \in lookup[m].of
    BY <2>1 DEF CacheTrue
  <2>3. ASSUME NEW m \in Lookups, lookup'[m].at = "found", lookup'[m].path = q,
               lookup'[m].mtime = mapCache[q].mtime
        PROVE  M \in lookup'[m].of
    <3>1. CASE m # l
      BY <1>2, <2>2, <2>3, <3>1
    <3>2. CASE m = l
      <4>1. there # {} /\ lookup'[m] = hit
        BY <1>2, <1>5, <2>3, <3>2
      <4>2. files[q].mtime = mapCache[q].mtime
        BY <1>5, <2>3, <4>1
      <4> QED
        BY <1>5, <2>2, <2>3, <4>1, <4>2
    <3> QED
      BY <3>1, <3>2
  <2>4. q \in Paths /\ mapCache'[q].mtime \in 1 .. deploys'
    BY <1>1, <2>1 DEF CacheTrue
  <2> QED
    BY <1>1, <2>2, <2>3, <2>4 DEF CacheTrue
<1>8. ASSUME NEW m \in Lookups PROVE LookupTrue(m)'
  <2>1. CASE m # l
    <3>1. LookupTrue(m) /\ lookup'[m] = lookup[m]
      BY <1>2, <2>1 DEF MapsInv
    <3> QED
      BY <1>1, <3>1 DEF LookupTrue
  <2>2. CASE m = l /\ there = {}
    <3>1. lookup'[m] = miss
      BY <1>2, <2>2
    <3> QED
      BY <1>5, <3>1 DEF LookupTrue
  <2>3. CASE m = l /\ there # {}
    <3>1. lookup'[m] = hit
      BY <1>2, <2>3
    <3>2. files'[hit.path].map \in hit.of
      BY <1>1, <1>5, <2>3
    <3> QED
      BY <1>1, <1>3, <1>4, <1>5, <2>3, <3>1, <3>2 DEF LookupTrue
  <2> QED
    BY <2>1, <2>2, <2>3
<1>9. deploys' \in Nat /\ files' = [q \in Paths |-> files'[q]]
  BY <1>1 DEF MapsInv
<1> QED
  BY <1>2, <1>6, <1>7, <1>8, <1>9 DEF MapsInv

\* An answer from the map M is told by it.
LEMMA AnswerIsTold ==
  ASSUME Mapping!SourceMapsAssumption, MapsInv, NEW l \in Lookups, lookup[l].at = "found",
         NEW lines, Mapping!Answer(l, lines),
         \E M \in lookup[l].of :
            \/ M = Mapping!NoMap /\ lines = <<>>
            \/ M \in Maps /\ M # Mapping!NoMap /\ lines = Mapping!parseMappings(M)
  PROVE  /\ lookup' = [m \in Lookups |-> lookup'[m]]
         /\ \A m \in Lookups : m # l => lookup'[m] = lookup[m]
         /\ lookup'[l].at = "done" /\ Told(lookup'[l])
<1> DEFINE r == lookup[l]
           done == [at |-> "done", f |-> r.f, of |-> r.of,
                    answer |-> Mapping!lookupIn(lines, r.f.line, r.f.col)]
<1>1. lookup' = [lookup EXCEPT ![l] = done]
  BY DEF Mapping!Answer
<1>2. lookup = [m \in Lookups |-> lookup[m]]
  BY DEF MapsInv
<1>3. /\ lookup' = [m \in Lookups |-> lookup'[m]] /\ lookup'[l] = done
      /\ \A m \in Lookups : m # l => lookup'[m] = lookup[m]
  <2> HIDE DEF done
  <2> QED
    BY <1>1, <1>2
<1>4. r.f \in Frames
  BY DEF MapsInv, LookupTrue, FoundLookup
<1>5. done.at = "done" /\ done.f = r.f /\ done.of = r.of
      /\ done.answer = Mapping!lookupIn(lines, r.f.line, r.f.col)
  OBVIOUS
<1> HIDE DEF done
<1>6. PICK M \in r.of : \/ M = Mapping!NoMap /\ lines = <<>>
                        \/ M \in Maps /\ M # Mapping!NoMap /\ lines = Mapping!parseMappings(M)
  OBVIOUS
<1>7. done.answer = IF M = Mapping!NoMap THEN Mapping!NotFound ELSE Mapping!Position(M, done.f)
  <2>1. CASE M = Mapping!NoMap
    <3>1. lines = <<>>
      BY <1>6, <2>1
    <3>2. DOMAIN lines = {}
      BY <3>1
    <3>3. Mapping!lookupIn(lines, r.f.line, r.f.col) = Mapping!NotFound
      BY <3>2 DEF Mapping!lookupIn
    <3> QED
      BY <1>5, <2>1, <3>3
  <2>2. CASE M # Mapping!NoMap
    BY <1>4, <1>5, <1>6, <2>2, PositionIsFound
  <2> QED
    BY <2>1, <2>2
<1>8. Told(done)
  BY <1>5, <1>7 DEF Told
<1> QED
  BY <1>3, <1>5, <1>8

LEMMA LoadIsTrue ==
  ASSUME Mapping!SourceMapsAssumption, MapsInv, NEW l \in Lookups, Mapping!Load(l)
  PROVE  MapsInv'
<1> DEFINE p == lookup[l].path
           map == files[p].map
<1>1. lookup[l].at = "found" /\ UNCHANGED <<files, deploys>>
  BY DEF Mapping!Load
<1>2. /\ p \in Paths /\ lookup[l].mtime \in 1 .. deploys /\ map \in lookup[l].of /\ map \in AnyMap
  BY <1>1 DEF MapsInv, LookupTrue, FoundLookup, FileTrue
<1>3. \/ Mapping!Cached(l) /\ Mapping!Answer(l, mapCache[p].lines) /\ mapCache' = mapCache
      \/ map = Mapping!NoMap /\ Mapping!Answer(l, <<>>) /\ mapCache' = mapCache
      \/ /\ map # Mapping!NoMap /\ Mapping!Answer(l, Mapping!parseMappings(map))
         /\ mapCache' = [q \in DOMAIN mapCache \cup {p} |->
                            IF q # p THEN mapCache[q]
                            ELSE [mtime |-> lookup[l].mtime, lines |-> Mapping!parseMappings(map)]]
  BY DEF Mapping!Load
<1> HIDE DEF p, map
<1>4. /\ lookup' = [m \in Lookups |-> lookup'[m]]
      /\ \A m \in Lookups : m # l => lookup'[m] = lookup[m]
      /\ lookup'[l].at = "done" /\ Told(lookup'[l])
  <2>1. CASE Mapping!Cached(l) /\ Mapping!Answer(l, mapCache[p].lines)
    <3>1. p \in DOMAIN mapCache /\ mapCache[p].mtime = lookup[l].mtime
      BY <2>1 DEF Mapping!Cached, p
    <3>2. CacheTrue(p)
      BY <3>1 DEF MapsInv
    <3>3. \E M \in lookup[l].of : M \in Maps /\ M # Mapping!NoMap /\ mapCache[p].lines = Mapping!parseMappings(M)
      BY <1>1, <3>1, <3>2 DEF CacheTrue, p
    <3> QED
      BY <1>1, <2>1, <3>3, AnswerIsTold
  <2>2. CASE map = Mapping!NoMap /\ Mapping!Answer(l, <<>>)
    BY <1>1, <1>2, <2>2, AnswerIsTold
  <2>3. CASE map # Mapping!NoMap /\ Mapping!Answer(l, Mapping!parseMappings(map))
    <3>1. map \in Maps
      BY <1>2, <2>3 DEF AnyMap
    <3> QED
      BY <1>1, <1>2, <2>3, <3>1, AnswerIsTold
  <2> QED
    BY <1>3, <2>1, <2>2, <2>3
<1>5. \A q \in Paths : FileTrue(q)'
  BY <1>1 DEF MapsInv, FileTrue
<1>6. ASSUME NEW m \in Lookups PROVE LookupTrue(m)'
  <2>1. CASE m = l
    BY <1>4, <2>1 DEF LookupTrue
  <2>2. CASE m # l
    <3>1. LookupTrue(m) /\ lookup'[m] = lookup[m]
      BY <1>4, <2>2 DEF MapsInv
    <3> QED
      BY <1>1, <3>1 DEF LookupTrue
  <2> QED
    BY <2>1, <2>2
<1>7. ASSUME NEW q \in DOMAIN mapCache, mapCache'[q] = mapCache[q] PROVE CacheTrue(q)'
  <2>1. CacheTrue(q)
    BY DEF MapsInv
  <2>2. PICK M \in Maps :
          /\ M # Mapping!NoMap /\ mapCache[q].lines = Mapping!parseMappings(M)
          /\ files[q].mtime = mapCache[q].mtime => files[q].map = M
          /\ \A m \in Lookups :
                (lookup[m].at = "found" /\ lookup[m].path = q /\ lookup[m].mtime = mapCache[q].mtime) =>
                    M \in lookup[m].of
    BY <2>1 DEF CacheTrue
  <2>3. \A m \in Lookups :
           (lookup'[m].at = "found" /\ lookup'[m].path = q /\ lookup'[m].mtime = mapCache[q].mtime) =>
              M \in lookup'[m].of
    BY <1>4, <2>2
  <2>4. q \in Paths /\ mapCache[q].mtime \in 1 .. deploys
    BY <2>1 DEF CacheTrue
  <2> QED
    BY <1>1, <1>7, <2>2, <2>3, <2>4 DEF CacheTrue
<1>8. ASSUME NEW q \in DOMAIN mapCache' PROVE CacheTrue(q)'
  <2>1. CASE mapCache' = mapCache
    BY <1>7, <1>8, <2>1
  <2>2. CASE /\ map # Mapping!NoMap
             /\ mapCache' = [x \in DOMAIN mapCache \cup {p} |->
                                IF x # p THEN mapCache[x]
                                ELSE [mtime |-> lookup[l].mtime, lines |-> Mapping!parseMappings(map)]]
    <3>1. CASE q # p
      BY <1>7, <1>8, <2>2, <3>1
    <3>2. CASE q = p
      <4>1. mapCache'[q].mtime = lookup[l].mtime /\ mapCache'[q].lines = Mapping!parseMappings(map)
        BY <1>8, <2>2, <3>2
      <4>2. map \in Maps /\ files'[q].map = map
        BY <1>1, <1>2, <2>2, <3>2 DEF AnyMap, map
      <4>3. ASSUME NEW m \in Lookups, lookup'[m].at = "found", lookup'[m].path = q PROVE map \in lookup'[m].of
        <5>1. m # l /\ lookup'[m] = lookup[m]
          BY <1>4, <4>3
        <5>2. files[lookup[m].path].map \in lookup[m].of
          BY <4>3, <5>1 DEF MapsInv, LookupTrue
        <5> QED
          BY <3>2, <4>3, <5>1, <5>2 DEF map
      <4>4. q \in Paths /\ mapCache'[q].mtime \in 1 .. deploys'
        BY <1>1, <1>2, <3>2, <4>1
      <4> QED
        BY <2>2, <4>1, <4>2, <4>3, <4>4 DEF CacheTrue
    <3> QED
      BY <3>1, <3>2
  <2> QED
    BY <1>3, <2>1, <2>2
<1>9. deploys' \in Nat /\ files' = [q \in Paths |-> files'[q]]
  BY <1>1 DEF MapsInv
<1> QED
  BY <1>4, <1>5, <1>6, <1>8, <1>9 DEF MapsInv

LEMMA DeployIsTrue ==
  ASSUME MapsInv, NEW p \in Paths, NEW map \in AnyMap, Mapping!Deploy(p, map)
  PROVE  MapsInv'
<1> DEFINE new == IF map = Mapping!NoMap THEN Mapping!Missing ELSE [mtime |-> deploys + 1, map |-> map]
<1>1. /\ deploys' = deploys + 1 /\ mapCache' = mapCache /\ deploys \in Nat /\ deploys' \in Nat
      /\ files' = [files EXCEPT ![p] = new]
      /\ lookup' = [l \in Lookups |-> IF lookup[l].at = "found" /\ lookup[l].path = p
                                      THEN [lookup[l] EXCEPT !.of = @ \cup {map}] ELSE lookup[l]]
  BY DEF Mapping!Deploy, MapsInv
<1>2. new.map = map /\ new.mtime = IF map = Mapping!NoMap THEN 0 ELSE deploys + 1
  BY DEF Mapping!Missing
<1> HIDE DEF new
<1>3. files' = [q \in Paths |-> files'[q]] /\ \A q \in Paths : files'[q] = IF q = p THEN new ELSE files[q]
  <2>1. files = [q \in Paths |-> files[q]]
    BY DEF MapsInv
  <2> QED
    BY <1>1, <2>1
<1>4. ASSUME NEW q \in Paths PROVE FileTrue(q)'
  <2>1. FileTrue(q)
    BY DEF MapsInv
  <2>2. CASE q = p
    BY <1>1, <1>2, <1>3, <2>2 DEF FileTrue, AnyMap
  <2>3. CASE q # p
    <3>1. files'[q] = files[q]
      BY <1>3, <2>3
    <3>2. files[q].mtime \in 0 .. deploys'
      BY <1>1, <2>1 DEF FileTrue
    <3> QED
      BY <2>1, <3>1, <3>2 DEF FileTrue
  <2> QED
    BY <2>2, <2>3
<1>5. ASSUME NEW l \in Lookups, lookup[l].at = "found", lookup[l].path = p
      PROVE  lookup'[l] \in FoundLookup /\ lookup'[l].path = p /\ lookup'[l].mtime = lookup[l].mtime
             /\ lookup'[l].of = lookup[l].of \cup {map}
  <2> DEFINE r == lookup[l]
  <2>1. r \in FoundLookup
    BY <1>5 DEF MapsInv, LookupTrue
  <2>2. lookup'[l] = [r EXCEPT !.of = r.of \cup {map}]
    BY <1>1, <1>5
  <2> HIDE DEF r
  <2>3. r.of \cup {map} \in SUBSET AnyMap
    BY <2>1 DEF FoundLookup
  <2> QED
    BY <1>5, <2>1, <2>2, <2>3 DEF FoundLookup, r
<1>6. \A l \in Lookups : ~(lookup[l].at = "found" /\ lookup[l].path = p) => lookup'[l] = lookup[l]
  BY <1>1
<1>7. ASSUME NEW l \in Lookups PROVE LookupTrue(l)'
  <2>0. LookupTrue(l)
    BY DEF MapsInv
  <2>1. CASE lookup[l].at = "found" /\ lookup[l].path = p
    <3>1. lookup'[l].at = "found"
      BY <1>5, <2>1 DEF FoundLookup
    <3>2. lookup'[l].mtime \in 1 .. deploys'
      BY <1>1, <1>5, <2>0, <2>1 DEF LookupTrue
    <3>3. files'[lookup'[l].path].map \in lookup'[l].of
      BY <1>2, <1>3, <1>5, <2>1
    <3> QED
      BY <1>5, <2>1, <3>1, <3>2, <3>3 DEF LookupTrue
  <2>2. CASE ~(lookup[l].at = "found" /\ lookup[l].path = p)
    <3>1. lookup'[l] = lookup[l]
      BY <1>6, <2>2
    <3>2. lookup[l].at = "found" => /\ files'[lookup[l].path].map \in lookup[l].of
                                    /\ lookup[l].mtime \in 1 .. deploys'
      <4> SUFFICES ASSUME lookup[l].at = "found"
                   PROVE  files'[lookup[l].path].map \in lookup[l].of /\ lookup[l].mtime \in 1 .. deploys'
        OBVIOUS
      <4>1. lookup[l].path \in Paths /\ lookup[l].path # p /\ files[lookup[l].path].map \in lookup[l].of
            /\ lookup[l].mtime \in 1 .. deploys
        BY <2>0, <2>2 DEF LookupTrue, FoundLookup
      <4> QED
        BY <1>1, <1>3, <4>1
    <3> QED
      BY <2>0, <3>1, <3>2 DEF LookupTrue
  <2> QED
    BY <2>1, <2>2
<1>8. ASSUME NEW q \in DOMAIN mapCache' PROVE CacheTrue(q)'
  <2>1. CacheTrue(q)
    BY <1>1, <1>8 DEF MapsInv
  <2>2. PICK M \in Maps :
          /\ M # Mapping!NoMap /\ mapCache[q].lines = Mapping!parseMappings(M)
          /\ files[q].mtime = mapCache[q].mtime => files[q].map = M
          /\ \A m \in Lookups :
                (lookup[m].at = "found" /\ lookup[m].path = q /\ lookup[m].mtime = mapCache[q].mtime) =>
                    M \in lookup[m].of
    BY <2>1 DEF CacheTrue
  <2>3. q \in Paths /\ mapCache[q].mtime \in 1 .. deploys
    BY <2>1 DEF CacheTrue
  <2>4. files'[q].mtime = mapCache[q].mtime => files'[q].map = M
    <3>1. CASE q = p
      <4>1. files'[q].mtime # mapCache[q].mtime
        BY <1>1, <1>2, <1>3, <2>3, <3>1
      <4> QED
        BY <4>1
    <3>2. CASE q # p
      BY <1>3, <2>2, <2>3, <3>2
    <3> QED
      BY <3>1, <3>2
  <2>5. ASSUME NEW m \in Lookups, lookup'[m].at = "found", lookup'[m].path = q,
               lookup'[m].mtime = mapCache[q].mtime
        PROVE  M \in lookup'[m].of
    <3>1. CASE lookup[m].at = "found" /\ lookup[m].path = p
      BY <1>5, <2>2, <2>5, <3>1
    <3>2. CASE ~(lookup[m].at = "found" /\ lookup[m].path = p)
      BY <1>6, <2>2, <2>5, <3>2
    <3> QED
      BY <3>1, <3>2
  <2>6. mapCache'[q] = mapCache[q] /\ mapCache[q].mtime \in 1 .. deploys'
    BY <1>1, <2>3
  <2> QED
    BY <2>2, <2>3, <2>4, <2>5, <2>6 DEF CacheTrue
<1>9. lookup' = [l \in Lookups |-> lookup'[l]]
  BY <1>1
<1> QED
  BY <1>1, <1>3, <1>4, <1>7, <1>8, <1>9 DEF MapsInv

LEMMA MapsAreKept ==
  ASSUME Mapping!SourceMapsAssumption, MapsInv, [Mapping!Next]_Mapping!vars
  PROVE  MapsInv'
<1>1. CASE \E l \in Lookups : \E f \in Frames : Mapping!Stat(l, f)
  BY <1>1, FoundIsTrue
<1>2. CASE \E l \in Lookups : Mapping!Load(l)
  BY <1>2, LoadIsTrue
<1>3. CASE \E p \in Paths, map \in AnyMap : Mapping!Deploy(p, map)
  BY <1>3, DeployIsTrue
<1>4. CASE UNCHANGED Mapping!vars
  BY <1>4 DEF Mapping!vars, MapsInv, FileTrue, CacheTrue, LookupTrue
<1> QED
  BY <1>1, <1>2, <1>3, <1>4 DEF Mapping!Next, AnyMap

\* A frame is told by a map that was in the directory during its lookup, and its
\* position is the one the numbers of that map add up to: for every map, frame and
\* number of lookups, while files are exchanged between the steps of a lookup
\* (source_map.go load, parseMappings).
THEOREM FramesAreTold ==
  ASSUME Mapping!SourceMapsAssumption
  PROVE  Mapping!Spec => []Mapping!FramesAreMapped
<1>1. Mapping!Init => MapsInv
  BY MapsStart
<1>2. MapsInv /\ [Mapping!Next]_Mapping!vars => MapsInv'
  BY MapsAreKept
<1>3. MapsInv => Mapping!FramesAreMapped
  BY DEF MapsInv, LookupTrue, Told, Mapping!FramesAreMapped
<1> QED
  BY <1>1, <1>2, <1>3, PTL DEF Mapping!Spec

-----------------------------------------------------------------------------
(* The parts together: the one that is at work stays so, and its steps are  *)
(* those of the part alone.                                                *)

LEMMA PageStays == [PagesNext]_pageVars => part' = part
BY DEF PagesNext, Only, KeptOnly, pageVars, formVars

LEMMA VisitorsIsAlone ==
  /\ AllInit /\ part = "rumpage" => Visitors!Init
  /\ [PagesNext]_pageVars /\ part = "rumpage" => [Visitors!Next]_Visitors!vars
BY DEF AllInit, PagesNext, Only, KeptOnly, pageVars, rumpageVars, Visitors!vars

LEMMA ChartIsAlone ==
  /\ AllInit /\ part = "chart" => Chart!Init
  /\ [PagesNext]_pageVars /\ part = "chart" => [Chart!Next]_Chart!vars
BY DEF AllInit, PagesNext, Only, KeptOnly, pageVars, chartVars, Chart!vars

LEMMA AiIsAlone ==
  /\ AllInit /\ part = "ai" => Ai!Init
  /\ [PagesNext]_pageVars /\ part = "ai" => [Ai!Next]_Ai!vars
BY DEF AllInit, PagesNext, Only, KeptOnly, pageVars, aiVars, Ai!vars

LEMMA MappingIsAlone ==
  /\ AllInit /\ part = "maps" => Mapping!Init
  /\ [PagesNext]_pageVars /\ part = "maps" => [Mapping!Next]_Mapping!vars
BY DEF AllInit, PagesNext, Only, KeptOnly, pageVars, mapsVars, Mapping!vars

LEMMA WizardIsAlone ==
  /\ AllInit /\ part = "wizard" => Wizard!Init
  /\ [PagesNext]_pageVars /\ part = "wizard" => [Wizard!Next]_Wizard!vars
BY DEF AllInit, PagesNext, Only, KeptOnly, pageVars, wizardVars, Wizard!vars

LEMMA SuggestIsAlone ==
  /\ AllInit /\ part = "suggest" => Suggest!Init
  /\ [PagesNext]_pageVars /\ part = "suggest" => [Suggest!Next]_Suggest!vars
BY DEF AllInit, PagesNext, Only, KeptOnly, pageVars, suggestVars, Suggest!vars

LEMMA AttrsIsAlone ==
  /\ AllInit /\ part = "attrs" => Attrs!Init
  /\ [PagesNext]_pageVars /\ part = "attrs" => [Attrs!Next]_Attrs!vars
BY DEF AllInit, PagesNext, Only, KeptOnly, pageVars, attrVars, Attrs!vars

\* However many requests, people and repositories: the wizard opens a second issue only
\* when it could not see the first, its work items say what became of issues, and what an
\* inspection calls missing is in none of the files that came.
THEOREM OnboardingStaysHonest == PagesSpec => []OnboardingIsHonest
<1>1. Wizard!Spec => [](Wizard!OneIssueEach /\ Wizard!ItemsTellIssues /\ Wizard!InspectionIsTrue)
  BY OnboardingIsKept, PagesAssumption
<1>2. AllInit /\ part = "wizard" => Wizard!Init
  BY WizardIsAlone
<1>3. [PagesNext]_pageVars /\ part = "wizard" => [Wizard!Next]_Wizard!vars
  BY WizardIsAlone
<1>4. (part = "wizard" => Wizard!OneIssueEach /\ Wizard!ItemsTellIssues /\ Wizard!InspectionIsTrue)
          => OnboardingIsHonest
  BY DEF OnboardingIsHonest
<1>5. [PagesNext]_pageVars /\ part = "wizard" => (part = "wizard")'
  BY PageStays
<1>6. [PagesNext]_pageVars /\ ~ (part = "wizard") => ~ (part = "wizard")'
  BY PageStays
<1>7. PagesInit => AllInit
  BY DEF PagesInit
<1> QED
  BY <1>1, <1>2, <1>3, <1>4, <1>5, <1>6, <1>7, PTL DEF PagesSpec, Wizard!Spec

\* However many requests and rows: a rule is made once of what was read, metric rules
\* alarm beyond where they warn, the cache of attribute keys is their table, and the keys
\* that fit best are proposed.
THEOREM SuggestionsStayRight == PagesSpec => []SuggestionsHold
<1>1. Suggest!Spec => [](Suggest!MadeOnce /\ Suggest!AlarmsBeyondWarnings)
  BY SuggestionsAreKept, PagesAssumption
<1>2. Attrs!Spec => [](Attrs!CacheIsTable /\ Attrs!BestAreShown)
  BY KeysAreKnown, PagesAssumption
<1>3. AllInit /\ part = "suggest" => Suggest!Init
  BY SuggestIsAlone
<1>4. [PagesNext]_pageVars /\ part = "suggest" => [Suggest!Next]_Suggest!vars
  BY SuggestIsAlone
<1>5. AllInit /\ part = "attrs" => Attrs!Init
  BY AttrsIsAlone
<1>6. [PagesNext]_pageVars /\ part = "attrs" => [Attrs!Next]_Attrs!vars
  BY AttrsIsAlone
<1>7. /\ (part = "suggest" => Suggest!MadeOnce /\ Suggest!AlarmsBeyondWarnings)
         /\ (part = "attrs" => Attrs!CacheIsTable /\ Attrs!BestAreShown)
      => SuggestionsHold
  BY DEF SuggestionsHold
<1>8. [PagesNext]_pageVars /\ part = "suggest" => (part = "suggest")'
  BY PageStays
<1>9. [PagesNext]_pageVars /\ ~ (part = "suggest") => ~ (part = "suggest")'
  BY PageStays
<1>10. [PagesNext]_pageVars /\ part = "attrs" => (part = "attrs")'
  BY PageStays
<1>11. [PagesNext]_pageVars /\ ~ (part = "attrs") => ~ (part = "attrs")'
  BY PageStays
<1>12. PagesInit => AllInit
  BY DEF PagesInit
<1> QED
  BY <1>1, <1>2, <1>3, <1>4, <1>5, <1>6, <1>7, <1>8, <1>9, <1>10, <1>11, <1>12, PTL
     DEF PagesSpec, Suggest!Spec, Attrs!Spec

\* However many samples and rules: on the chart of a signal no rule that fires is hidden
\* by another, nor a stored state by a rule.
THEOREM AlarmsAreSeen == PagesSpec => []NoAlarmIsHidden
<1>1. Chart!Spec => [](Chart!NoAlarmIsHidden)
  BY NoAlarmHides, PagesAssumption
<1>2. AllInit /\ part = "chart" => Chart!Init
  BY ChartIsAlone
<1>3. [PagesNext]_pageVars /\ part = "chart" => [Chart!Next]_Chart!vars
  BY ChartIsAlone
<1>4. (part = "chart" => Chart!NoAlarmIsHidden) => NoAlarmIsHidden
  BY DEF NoAlarmIsHidden
<1>5. [PagesNext]_pageVars /\ part = "chart" => (part = "chart")'
  BY PageStays
<1>6. [PagesNext]_pageVars /\ ~ (part = "chart") => ~ (part = "chart")'
  BY PageStays
<1>7. PagesInit => AllInit
  BY DEF PagesInit
<1> QED
  BY <1>1, <1>2, <1>3, <1>4, <1>5, <1>6, <1>7, PTL DEF PagesSpec, Chart!Spec

\* However many spans in whatever order: the card of a turn of the AI tells how it ended,
\* what it cost and what it did.
THEOREM TurnsAreTold == PagesSpec => []CardsTellOutcome
<1>1. Ai!Spec => [](Ai!CardsTellOutcome)
  BY CardsTell, PagesAssumption
<1>2. AllInit /\ part = "ai" => Ai!Init
  BY AiIsAlone
<1>3. [PagesNext]_pageVars /\ part = "ai" => [Ai!Next]_Ai!vars
  BY AiIsAlone
<1>4. (part = "ai" => Ai!CardsTellOutcome) => CardsTellOutcome
  BY DEF CardsTellOutcome
<1>5. [PagesNext]_pageVars /\ part = "ai" => (part = "ai")'
  BY PageStays
<1>6. [PagesNext]_pageVars /\ ~ (part = "ai") => ~ (part = "ai")'
  BY PageStays
<1>7. PagesInit => AllInit
  BY DEF PagesInit
<1> QED
  BY <1>1, <1>2, <1>3, <1>4, <1>5, <1>6, <1>7, PTL DEF PagesSpec, Ai!Spec

\* However many visitors and events: a session of the list ranks as its worst event, where
\* the keys of the list and of its page agree, and the countries add up to the events of
\* the addresses that were listed.
THEOREM VisitorsStayRight == PagesSpec => []VisitorsAddUp
<1>1. Visitors!Spec => [](Visitors!RanksCoverEvents /\ Visitors!CountriesAddUp)
  BY VisitorsAreCounted, PagesAssumption
<1>2. AllInit /\ part = "rumpage" => Visitors!Init
  BY VisitorsIsAlone
<1>3. [PagesNext]_pageVars /\ part = "rumpage" => [Visitors!Next]_Visitors!vars
  BY VisitorsIsAlone
<1>4. (part = "rumpage" => Visitors!RanksCoverEvents /\ Visitors!CountriesAddUp) => VisitorsAddUp
  BY DEF VisitorsAddUp
<1>5. [PagesNext]_pageVars /\ part = "rumpage" => (part = "rumpage")'
  BY PageStays
<1>6. [PagesNext]_pageVars /\ ~ (part = "rumpage") => ~ (part = "rumpage")'
  BY PageStays
<1>7. PagesInit => AllInit
  BY DEF PagesInit
<1> QED
  BY <1>1, <1>2, <1>3, <1>4, <1>5, <1>6, <1>7, PTL DEF PagesSpec, Visitors!Spec

\* However many lookups and deployments: a frame is mapped by one map as it was at one
\* time, or not at all.
THEOREM FramesStayMapped == PagesSpec => []FramesAreMapped
<1>1. Mapping!Spec => [](Mapping!FramesAreMapped)
  BY FramesAreTold, PagesAssumption
<1>2. AllInit /\ part = "maps" => Mapping!Init
  BY MappingIsAlone
<1>3. [PagesNext]_pageVars /\ part = "maps" => [Mapping!Next]_Mapping!vars
  BY MappingIsAlone
<1>4. (part = "maps" => Mapping!FramesAreMapped) => FramesAreMapped
  BY DEF FramesAreMapped
<1>5. [PagesNext]_pageVars /\ part = "maps" => (part = "maps")'
  BY PageStays
<1>6. [PagesNext]_pageVars /\ ~ (part = "maps") => ~ (part = "maps")'
  BY PageStays
<1>7. PagesInit => AllInit
  BY DEF PagesInit
<1> QED
  BY <1>1, <1>2, <1>3, <1>4, <1>5, <1>6, <1>7, PTL DEF PagesSpec, Mapping!Spec
=============================================================================
