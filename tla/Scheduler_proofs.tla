--------------------------- MODULE Scheduler_proofs ---------------------------
(***************************************************************************)
(* For any plan without cycles, any calendars, days and requests: types,   *)
(* the order of the dependencies, the hours booked and the statuses of the *)
(* tasks.  The runs are followed through the invariant IInv, which says of *)
(* the middle of a run that what is in has its dependencies in, begins     *)
(* after them, and takes from each day what it is booked for (Budget).     *)
(* Recursive functions over days are unfolded with Recursion, maxima and   *)
(* sums over sets with least counterexamples instead of inductions.        *)
(***************************************************************************)
EXTENDS Scheduler, FiniteSetTheorems, WellFoundedInduction, TLAPS

-----------------------------------------------------------------------------
(* Numbers and finite sets.                                                *)

(* Numbers that are there have a least one.                                *)
LEMMA LeastNumber ==
    ASSUME NEW T \in SUBSET Nat, T # {}
    PROVE  \E m \in T : \A k \in T : m <= k
<1>1. \E x \in T : \A y \in T : ~ (<<y, x>> \in OpToRel(<, Nat))
  BY NatLessThanWellFounded, WFMin
<1>2. PICK m \in T : \A k \in T : ~ (<<k, m>> \in OpToRel(<, Nat))
  BY <1>1
<1>3. \A k \in T : ~ (k < m)
  BY <1>2 DEF OpToRel
<1>. QED BY <1>3

(* Min finds it.                                                           *)
LEMMA MinIsLeast ==
    ASSUME NEW T \in SUBSET Nat, T # {}
    PROVE  Min(T) \in T /\ \A k \in T : Min(T) <= k
BY LeastNumber DEF Min

(* Of finitely many sets there is a smallest one.                          *)
LEMMA SmallestSet ==
    ASSUME NEW S, IsFiniteSet(S), NEW W \in SUBSET (SUBSET S), W # {}
    PROVE  \E R \in W : \A x \in R : R \ {x} \notin W
<1>. DEFINE T == {Cardinality(R) : R \in W}
<1>1. \A R \in W : IsFiniteSet(R) /\ Cardinality(R) \in Nat
  BY FS_Subset, FS_CardinalityType
<1>2. T \in SUBSET Nat /\ T # {}
  BY <1>1
<1>3. PICK m \in T : \A k \in T : m <= k
  <2>. HIDE DEF T
  <2>. QED BY <1>2, LeastNumber
<1>4. PICK R \in W : m = Cardinality(R)
  OBVIOUS
<1>5. ASSUME NEW x \in R, R \ {x} \in W PROVE FALSE
  <2>1. Cardinality(R \ {x}) = Cardinality(R) - 1
    BY <1>1, FS_RemoveElement
  <2>2. m <= Cardinality(R \ {x})
    BY <1>3, <1>5
  <2>. QED BY <1>1, <1>4, <2>1, <2>2
<1>. QED BY <1>5

(* Finitely many numbers have a greatest one, and Max finds it.            *)
LEMMA MaxIsGreatest ==
    ASSUME NEW S \in SUBSET Int, IsFiniteSet(S), S # {}
    PROVE  Max(S) \in S /\ \A k \in S : k <= Max(S)
<1>. DEFINE W == {R \in SUBSET S : R # {} /\ \A x \in R : \E y \in R : ~ (x >= y)}
<1>1. W = {}
  <2>. SUFFICES ASSUME W # {} PROVE FALSE
    OBVIOUS
  <2>1. PICK R \in W : \A x \in R : R \ {x} \notin W
    <3>1. W \in SUBSET (SUBSET S)
      OBVIOUS
    <3>. HIDE DEF W
    <3>. QED BY <3>1, SmallestSet
  <2>2. PICK x \in R : TRUE
    OBVIOUS
  <2>3. PICK y \in R : ~ (x >= y)
    OBVIOUS
  <2>4. PICK z \in R \ {x} : \A u \in R \ {x} : z >= u
    <3>1. R \ {x} \in SUBSET S /\ R \ {x} # {} /\ R \ {x} \notin W
      BY <2>1, <2>3
    <3>. QED BY <3>1
  <2>5. \A u \in R : z >= u
    BY <2>3, <2>4
  <2>. QED BY <2>5
<1>2. \E x \in S : \A y \in S : x >= y
  BY <1>1
<1>. QED BY <1>2 DEF Max

(* Sets written out are finite.                                            *)
LEMMA SmallSets ==
    ASSUME NEW x, NEW y, NEW z
    PROVE  IsFiniteSet({x, y}) /\ IsFiniteSet({x, y, z})
<1>1. IsFiniteSet({x})
  BY FS_Singleton
<1>2. IsFiniteSet({x} \cup {y})
  BY <1>1, FS_AddElement
<1>3. IsFiniteSet(({x} \cup {y}) \cup {z})
  BY <1>2, FS_AddElement
<1>4. {x, y} = {x} \cup {y} /\ {x, y, z} = ({x} \cup {y}) \cup {z}
  OBVIOUS
<1>. QED BY <1>2, <1>3, <1>4

(* The greater of two numbers.                                             *)
LEMMA MaxOfTwo ==
    ASSUME NEW x \in Int, NEW y \in Int
    PROVE  Max({x, y}) = IF x >= y THEN x ELSE y
<1>1. IsFiniteSet({x, y}) /\ {x, y} # {} /\ {x, y} \in SUBSET Int
  BY SmallSets
<1>2. Max({x, y}) \in {x, y} /\ \A k \in {x, y} : k <= Max({x, y})
  BY <1>1, MaxIsGreatest
<1>. QED BY <1>2

(* The values of a function on a finite set.                               *)
LEMMA ImageIsFinite ==
    ASSUME NEW S, IsFiniteSet(S), NEW f, DOMAIN f = S, f = [x \in S |-> f[x]]
    PROVE  IsFiniteSet({f[x] : x \in S})
<1>. DEFINE T == {f[x] : x \in S}
<1>1. f \in Surjection(S, T)
  BY DEF Surjection
<1>2. IsFiniteSet(T)
  <2>. HIDE DEF T
  <2>. QED BY <1>1, FS_Surjection
<1>. QED BY <1>2

(* A maximum that has a default.                                           *)
LEMMA MaxOf ==
    ASSUME NEW S, IsFiniteSet(S), NEW f \in [S -> Int], NEW D \in SUBSET Int, IsFiniteSet(D), D # {}
    PROVE  LET M == Max(D \cup {f[x] : x \in S})
           IN  /\ M \in Int
               /\ \A d \in D : d <= M
               /\ \A x \in S : f[x] <= M
<1>. DEFINE T == {f[x] : x \in S}
<1>1. IsFiniteSet(T) /\ T \in SUBSET Int
  BY ImageIsFinite
<1>2. IsFiniteSet(D \cup T) /\ D \cup T \in SUBSET Int /\ D \cup T # {}
  BY <1>1, FS_Union
<1>3. Max(D \cup T) \in D \cup T /\ \A k \in D \cup T : k <= Max(D \cup T)
  <2>. HIDE DEF T
  <2>. QED BY <1>2, MaxIsGreatest
<1>. QED BY <1>2, <1>3

-----------------------------------------------------------------------------
(* Recursion over an interval and over the subsets of a finite set.        *)

(* The function f of an interval begins with none, and G makes of each     *)
(* value and the place after it the next value.                            *)
Repeats(f, A, none, first, last, G) ==
    /\ f \in [first - 1 .. last -> A]
    /\ \A k \in first - 1 .. last : f[k] = IF k < first THEN none ELSE G[<<f[k - 1], k>>]

(* There is such a function.                                               *)
LEMMA Recursion ==
    ASSUME NEW A, NEW none \in A, NEW first \in Int, NEW last \in Int, last >= first - 1,
           NEW G \in [A \X (first .. last) -> A]
    PROVE  \E f : Repeats(f, A, none, first, last, G)
<1>. DEFINE Sol(f, l) == Repeats(f, A, none, first, l, G)
            T == {j \in Nat : j <= last - first + 1 /\ ~ \E f : Sol(f, first - 1 + j)}
<1>1. SUFFICES T = {}
  <2>. SUFFICES ASSUME T = {} PROVE \E f : Sol(f, last)
    BY DEF Sol
  <2>. DEFINE j == last - first + 1
  <2>1. j \in Nat /\ first - 1 + j = last
    OBVIOUS
  <2>. HIDE DEF Sol, j
  <2>2. j \notin T
    OBVIOUS
  <2>3. \E f : Sol(f, first - 1 + j)
    BY <2>1, <2>2 DEF j
  <2>. QED BY <2>1, <2>3
<1>2. SUFFICES ASSUME NEW m \in T, \A k \in T : m <= k PROVE FALSE
  <2>. HIDE DEF T
  <2>1. T \in SUBSET Nat
    BY DEF T
  <2>. QED BY <1>1, <2>1, LeastNumber
<1>3. CASE m = 0
  <2>1. Sol([k \in first - 1 .. first - 1 |-> none], first - 1)
    BY DEF Repeats
  <2>. HIDE DEF Sol
  <2>. QED BY <1>3, <2>1
<1>4. CASE m # 0
  <2>1. m - 1 \in Nat /\ m - 1 \notin T /\ m - 1 <= last - first + 1
    <3>. HIDE DEF Sol
    <3>1. m \in Nat /\ m <= last - first + 1
      OBVIOUS
    <3>2. m - 1 \in Nat /\ ~ (m <= m - 1)
      BY <1>4, <3>1
    <3>3. m - 1 \notin T
      <4>. HIDE DEF T
      <4>. QED BY <1>2, <3>2
    <3>. QED BY <3>1, <3>2, <3>3
  <2>2. PICK f : Sol(f, first - 1 + (m - 1))
    <3>. HIDE DEF Sol
    <3>. QED BY <2>1
  <2>. DEFINE l == first - 1 + m
              g == [k \in first - 1 .. l |-> IF k = l THEN G[<<f[l - 1], l>>] ELSE f[k]]
  <2>3. /\ l \in first .. last /\ f \in [first - 1 .. l - 1 -> A]
        /\ \A k \in first - 1 .. l - 1 : f[k] = IF k < first THEN none ELSE G[<<f[k - 1], k>>]
    BY <2>2, <1>4 DEF Repeats
  <2>4. G[<<f[l - 1], l>>] \in A
    BY <2>3
  <2>5. g \in [first - 1 .. l -> A]
    BY <2>3, <2>4
  <2>6. ASSUME NEW k \in first - 1 .. l
        PROVE  g[k] = IF k < first THEN none ELSE G[<<g[k - 1], k>>]
    <3>1. CASE k = l
      <4>1. ~ (k < first) /\ k - 1 \in first - 1 .. l /\ k - 1 # l
        BY <2>3, <3>1
      <4>. QED BY <3>1, <4>1
    <3>2. CASE k # l
      <4>1. k \in first - 1 .. l - 1 /\ (k >= first => k - 1 \in first - 1 .. l /\ k - 1 # l)
        BY <3>2, <2>3
      <4>2. f[k] = IF k < first THEN none ELSE G[<<f[k - 1], k>>]
        BY <2>3, <4>1
      <4>3. g[k] = f[k] /\ (k >= first => g[k - 1] = f[k - 1])
        BY <3>2, <4>1
      <4>. HIDE DEF g
      <4>. QED BY <4>2, <4>3
    <3>. QED BY <3>1, <3>2
  <2>7. Sol(g, first - 1 + m)
    <3>. HIDE DEF g
    <3>. QED BY <2>5, <2>6 DEF Repeats
  <2>. HIDE DEF Sol, g
  <2>. QED BY <2>7
<1>. QED BY <1>3, <1>4

(* What holds of the first value and is kept by each step holds of all.    *)
LEMMA AllAlong ==
    ASSUME NEW A, NEW first \in Int, NEW last \in Int, last >= first - 1, NEW f,
           f[first - 1] \in A,
           \A k \in first .. last : f[k - 1] \in A => f[k] \in A
    PROVE  \A k \in first - 1 .. last : f[k] \in A
<1>. DEFINE T == {j \in Nat : j <= last - first + 1 /\ f[first - 1 + j] \notin A}
<1>1. T = {}
  <2>. SUFFICES ASSUME NEW m \in T, \A k \in T : m <= k PROVE FALSE
    <3>. HIDE DEF T
    <3>1. T \in SUBSET Nat
      BY DEF T
    <3>. QED BY <3>1, LeastNumber
  <2>1. m # 0
    OBVIOUS
  <2>2. m - 1 \in Nat /\ m - 1 \notin T
    BY <2>1
  <2>3. f[(first - 1 + m) - 1] \in A
    BY <2>2
  <2>. QED BY <2>1, <2>3
<1>2. ASSUME NEW k \in first - 1 .. last PROVE f[k] \in A
  <2>. DEFINE j == k - first + 1
  <2>1. j \in Nat /\ j <= last - first + 1 /\ k = first - 1 + j
    OBVIOUS
  <2>2. j \notin T
    BY <1>1
  <2>. HIDE DEF j
  <2>. QED BY <2>1, <2>2
<1>. QED BY <1>2

(* Of places: what the first is and each is if the one before is.          *)
LEMMA StepByStep ==
    ASSUME NEW A, NEW first \in Int, NEW last \in Int, last >= first - 1,
           first - 1 \in A, \A k \in first .. last : k - 1 \in A => k \in A
    PROVE  \A k \in first - 1 .. last : k \in A
<1>. DEFINE f == [k \in Int |-> k]
<1>1. \A k \in Int : f[k] = k
  OBVIOUS
<1>2. first - 1 \in Int /\ \A k \in first - 1 .. last : k \in Int /\ k - 1 \in Int
  OBVIOUS
<1>3. f[first - 1] \in A /\ \A k \in first .. last : f[k - 1] \in A => f[k] \in A
  OBVIOUS
<1>. HIDE DEF f
<1>4. \A k \in first - 1 .. last : f[k] \in A
  BY <1>3, AllAlong, Zenon
<1>. QED BY <1>1, <1>2, <1>4

(* The same of a fold over a finite set: each subset has one element h[R]  *)
(* that is taken off.                                                      *)
Folds(f, S, A, base, h, G) ==
    /\ f \in [SUBSET S -> A]
    /\ \A R \in SUBSET S : f[R] = IF R = {} THEN base ELSE G[<<h[R], f[R \ {h[R]}]>>]

LEMMA SetRecursion ==
    ASSUME NEW S, IsFiniteSet(S), NEW A, NEW base \in A,
           NEW h, \A R \in SUBSET S : R # {} => h[R] \in R,
           NEW G \in [S \X A -> A]
    PROVE  \E f : Folds(f, S, A, base, h, G)
<1>. DEFINE F == [SUBSET S -> A]
            n == Cardinality(S)
            H == [x \in F \X (1 .. n) |->
                    [R \in SUBSET S |-> IF R = {} THEN base
                                        ELSE G[<<h[R], x[1][R \ {h[R]}]>>]]]
            none == [R \in SUBSET S |-> base]
<1>1. n \in Nat
  BY FS_CardinalityType
<1>2. none \in F
  OBVIOUS
<1>3. H \in [F \X (1 .. n) -> F]
  <2>1. ASSUME NEW x \in F \X (1 .. n), NEW R \in SUBSET S, R # {}
        PROVE  G[<<h[R], x[1][R \ {h[R]}]>>] \in A
    <3>1. R \ {h[R]} \in SUBSET S /\ h[R] \in S
      BY <2>1
    <3>2. x[1][R \ {h[R]}] \in A
      BY <3>1
    <3>. QED BY <3>1, <3>2
  <2>. QED BY <2>1
<1>4. PICK f \in [0 .. n -> F] :
         \A k \in 0 .. n : f[k] = IF k < 1 THEN none ELSE H[<<f[k - 1], k>>]
  <2>1. 1 \in Int /\ n \in Int /\ n >= 1 - 1
    BY <1>1
  <2>2. \E f : Repeats(f, F, none, 1, n, H)
    <3>. HIDE DEF F, H, none, n
    <3>. QED BY <1>2, <1>3, <2>1, Recursion, Zenon
  <2>. HIDE DEF F, H, none, n
  <2>. QED BY <2>1, <2>2 DEF Repeats
<1>. DEFINE sol == [R \in SUBSET S |-> f[Cardinality(R)][R]]
<1>5. \A R \in SUBSET S : IsFiniteSet(R) /\ Cardinality(R) \in 0 .. n
  BY <1>1, FS_Subset, FS_CardinalityType
<1>6. sol \in [SUBSET S -> A]
  BY <1>5
<1>7. ASSUME NEW R \in SUBSET S
      PROVE  sol[R] = IF R = {} THEN base ELSE G[<<h[R], sol[R \ {h[R]}]>>]
  <2>. DEFINE c == Cardinality(R)
  <2>1. CASE R = {}
    <3>1. c = 0
      BY <2>1, FS_EmptySet
    <3>2. f[0] = none
      <4>. HIDE DEF none, H, F, n
      <4>1. 0 \in 0 .. n /\ 0 < 1
        BY <1>1
      <4>. QED BY <1>4, <4>1, Zenon
    <3>. QED BY <2>1, <3>1, <3>2
  <2>2. CASE R # {}
    <3>1. Cardinality(R \ {h[R]}) = c - 1
      BY <2>2, <1>5, FS_RemoveElement
    <3>2. c # 0
      BY <2>2, <1>5, FS_EmptySet
    <3>3. c \in 1 .. n /\ c - 1 \in 0 .. n
      BY <1>5, <3>2
    <3>4. f[c] = H[<<f[c - 1], c>>] /\ f[c - 1] \in F
      <4>. HIDE DEF none, H, F, n, c
      <4>. QED BY <1>1, <1>4, <3>3
    <3>5. f[c][R] = G[<<h[R], f[c - 1][R \ {h[R]}]>>]
      BY <2>2, <3>3, <3>4
    <3>6. sol[R \ {h[R]}] = f[c - 1][R \ {h[R]}]
      BY <3>1
    <3>. QED BY <2>2, <3>5, <3>6
  <2>. QED BY <2>1, <2>2
<1>8. Folds(sol, S, A, base, h, G)
  <2>. HIDE DEF sol
  <2>. QED BY <1>6, <1>7 DEF Folds
<1>. QED BY <1>8

(* The sum of the values of a function on a finite set is the value for    *)
(* the whole set of a function of its subsets that adds one value to       *)
(* another.                                                                *)
SumsUp(g, f, S) ==
    /\ g \in [SUBSET S -> Nat] /\ SumFunction(f) = g[S]
    /\ \A R \in SUBSET S :
          g[R] = IF R = {} THEN 0
                 ELSE f[CHOOSE x \in R : TRUE] + g[R \ {CHOOSE x \in R : TRUE}]

LEMMA SumIsRecursive ==
    ASSUME NEW S, IsFiniteSet(S), NEW f \in [S -> Nat]
    PROVE  \E g : SumsUp(g, f, S)
<1>. DEFINE Round(it) == [R \in SUBSET S |->
                             IF R = {} THEN 0
                             ELSE f[CHOOSE x \in R : TRUE] + it[R \ {CHOOSE x \in R : TRUE}]]
            h == [R \in SUBSET S |-> CHOOSE x \in R : TRUE]
            G == [x \in S \X Nat |-> f[x[1]] + x[2]]
            sum == CHOOSE it : it = Round(it)
<1>1. SumFunction(f) = sum[S]
  BY DEF SumFunction, SumFunctionOnSet, FoldFunctionOnSet, MapThenFoldSet
<1>2. \A R \in SUBSET S : R # {} => h[R] \in R
  OBVIOUS
<1>3. G \in [S \X Nat -> Nat]
  OBVIOUS
<1>4. PICK g : Folds(g, S, Nat, 0, h, G)
  <2>. HIDE DEF h, G
  <2>1. 0 \in Nat
    OBVIOUS
  <2>. QED BY <1>2, <1>3, <2>1, SetRecursion, Zenon
<1>5. ASSUME NEW R \in SUBSET S, R # {}
      PROVE  G[<<h[R], g[R \ {h[R]}]>>] = f[h[R]] + g[R \ {h[R]}]
  <2>. HIDE DEF h
  <2>1. h[R] \in S /\ g[R \ {h[R]}] \in Nat
    BY <1>2, <1>4, <1>5 DEF Folds
  <2>. QED BY <2>1
<1>6. g = Round(g)
  <2>1. ASSUME NEW R \in SUBSET S
        PROVE  g[R] = IF R = {} THEN 0 ELSE f[h[R]] + g[R \ {h[R]}]
    <3>. HIDE DEF h, G
    <3>. QED BY <1>4, <1>5 DEF Folds
  <2>. QED BY <1>4, <2>1 DEF Folds
<1>7. sum = Round(sum)
  <2>. HIDE DEF Round
  <2>. QED BY <1>6
<1>8. ASSUME NEW R \in SUBSET S PROVE sum[R] \in Nat
  <2>. DEFINE W == {Q \in SUBSET S : sum[Q] \notin Nat}
  <2>. SUFFICES ASSUME W # {} PROVE FALSE
    OBVIOUS
  <2>1. PICK Q \in W : \A x \in Q : Q \ {x} \notin W
    <3>1. W \in SUBSET (SUBSET S)
      OBVIOUS
    <3>. HIDE DEF W
    <3>. QED BY <3>1, SmallestSet
  <2>. DEFINE x == CHOOSE x \in Q : TRUE
  <2>2. CASE Q = {}
    <3>. HIDE DEF sum
    <3>. QED BY <1>7, <2>2
  <2>3. CASE Q # {}
    <3>1. x \in Q /\ Q \ {x} \in SUBSET S
      BY <2>3
    <3>2. sum[Q \ {x}] \in Nat
      BY <2>1, <3>1
    <3>3. sum[Q] = f[x] + sum[Q \ {x}]
      <4>. HIDE DEF sum
      <4>. QED BY <1>7, <2>3
    <3>4. f[x] \in Nat
      BY <3>1
    <3>. QED BY <3>2, <3>3, <3>4
  <2>. QED BY <2>2, <2>3
<1>. HIDE DEF sum
<1>9. DOMAIN sum = SUBSET S /\ sum = [R \in SUBSET S |-> sum[R]]
  BY <1>7
<1>10. sum \in [SUBSET S -> Nat]
  BY <1>8, <1>9
<1>11. SumsUp(sum, f, S)
  BY <1>1, <1>7, <1>10 DEF SumsUp
<1>. QED BY <1>11

(* The sum of natural numbers is one.                                      *)
LEMMA SumIsNat ==
    ASSUME NEW S, IsFiniteSet(S), NEW f \in [S -> Nat]
    PROVE  SumFunction(f) \in Nat
<1>1. PICK g : SumsUp(g, f, S)
  BY SumIsRecursive, Zenon
<1>. QED BY <1>1 DEF SumsUp

(* The sum of no numbers.                                                  *)
LEMMA SumOfNone == ASSUME NEW f \in [{} -> Nat] PROVE SumFunction(f) = 0
<1>1. IsFiniteSet({})
  BY FS_EmptySet
<1>2. PICK g : SumsUp(g, f, {})
  BY <1>1, SumIsRecursive, Zenon
<1>3. g[{}] = 0
  BY <1>2 DEF SumsUp
<1>. QED BY <1>2, <1>3 DEF SumsUp

(* The order of adding does not matter.                                    *)
LEMMA SumOneMore ==
    ASSUME NEW S, IsFiniteSet(S), NEW x, x \notin S, NEW f \in [S \cup {x} -> Nat]
    PROVE  SumFunction(f) = SumFunction([y \in S |-> f[y]]) + f[x]
<1>. DEFINE T == S \cup {x}
            e == [y \in S |-> f[y]]
<1>1. IsFiniteSet(T) /\ e \in [S -> Nat]
  BY FS_AddElement
<1>2. PICK g : SumsUp(g, f, T)
  <2>. HIDE DEF T
  <2>1. f \in [T -> Nat]
    BY DEF T
  <2>. QED BY <1>1, <2>1, SumIsRecursive, Zenon
<1>3. PICK k : SumsUp(k, e, S)
  <2>. HIDE DEF e
  <2>. QED BY <1>1, SumIsRecursive, Zenon
<1>. USE DEF SumsUp
<1>4. ASSUME NEW R \in SUBSET T, NEW y \in R PROVE g[R] = f[y] + g[R \ {y}]
  <2>. DEFINE W == {Q \in SUBSET T : \E z \in Q : g[Q] # f[z] + g[Q \ {z}]}
  <2>1. W = {}
    <3>. SUFFICES ASSUME W # {} PROVE FALSE
      OBVIOUS
    <3>1. PICK Q \in W : \A z \in Q : Q \ {z} \notin W
      <4>1. W \in SUBSET (SUBSET T)
        OBVIOUS
      <4>. HIDE DEF W, T
      <4>. QED BY <1>1, <4>1, SmallestSet
    <3>2. PICK z \in Q : g[Q] # f[z] + g[Q \ {z}]
      OBVIOUS
    <3>. DEFINE h == CHOOSE w \in Q : TRUE
                P == Q \ {z}
                H == Q \ {h}
                B == P \ {h}
    <3>3. h \in Q /\ Q \in SUBSET T
      BY <3>2
    <3>4. g[Q] = f[h] + g[H]
      BY <1>2, <3>2, <3>3
    <3>. HIDE DEF h
    <3>5. h # z
      BY <3>2, <3>4
    <3>6. P \in SUBSET T /\ H \in SUBSET T /\ B \in SUBSET T /\ h \in P /\ z \in H
      BY <3>2, <3>3, <3>5
    <3>7. g[P] = f[h] + g[B]
      BY <3>1, <3>2, <3>6
    <3>8. g[H] = f[z] + g[H \ {z}] /\ H \ {z} = B
      BY <3>1, <3>3, <3>6
    <3>9. f[h] \in Nat /\ f[z] \in Nat /\ g[B] \in Nat
      BY <1>2, <3>2, <3>3, <3>6
    <3>10. g[Q] # f[z] + g[P] /\ g[H] = f[z] + g[B]
      BY <3>2, <3>8
    <3>. HIDE DEF W, P, H, B
    <3>. QED BY <3>4, <3>7, <3>9, <3>10
  <2>2. R \notin W
    BY <2>1
  <2>. QED BY <2>2
<1>5. ASSUME NEW R \in SUBSET S PROVE k[R] = g[R]
  <2>. DEFINE W == {Q \in SUBSET S : k[Q] # g[Q]}
  <2>1. W = {}
    <3>. SUFFICES ASSUME W # {} PROVE FALSE
      OBVIOUS
    <3>1. PICK Q \in W : \A z \in Q : Q \ {z} \notin W
      <4>1. W \in SUBSET (SUBSET S)
        OBVIOUS
      <4>. HIDE DEF W
      <4>. QED BY <4>1, SmallestSet
    <3>2. Q \in SUBSET S /\ Q \in SUBSET T /\ k[Q] # g[Q]
      OBVIOUS
    <3>3. CASE Q = {}
      <4>1. k[{}] = 0 /\ g[{}] = 0
        BY <1>2, <1>3
      <4>. QED BY <3>2, <3>3, <4>1
    <3>4. CASE Q # {}
      <4>. DEFINE h == CHOOSE w \in Q : TRUE
      <4>1. h \in Q
        BY <3>4
      <4>2. k[Q] = e[h] + k[Q \ {h}]
        <5>. HIDE DEF e
        <5>. QED BY <1>3, <3>2, <3>4
      <4>3. g[Q] = f[h] + g[Q \ {h}]
        BY <1>2, <3>2, <3>4
      <4>. HIDE DEF h
      <4>4. e[h] = f[h]
        BY <3>2, <4>1
      <4>5. k[Q \ {h}] = g[Q \ {h}]
        BY <3>1, <3>2, <4>1
      <4>. QED BY <3>2, <4>2, <4>3, <4>4, <4>5
    <3>. QED BY <3>3, <3>4
  <2>. QED BY <2>1
<1>6. g[T] = f[x] + g[S]
  <2>1. T \ {x} = S
    OBVIOUS
  <2>. QED BY <1>4, <2>1
<1>7. k[S] = g[S] /\ g[S] \in Nat /\ f[x] \in Nat
  BY <1>2, <1>5
<1>8. SumFunction(f) = g[T] /\ SumFunction(e) = k[S]
  BY <1>2, <1>3
<1>. HIDE DEF T, e, SumsUp
<1>9. SumFunction(f) = SumFunction(e) + f[x]
  <2>1. g[S] + f[x] = f[x] + g[S]
    BY <1>7
  <2>. QED BY <1>6, <1>7, <1>8, <2>1
<1>. QED BY <1>9 DEF e

(* More numbers have no smaller sum.                                       *)
LEMMA SumOfMore ==
    ASSUME NEW S, IsFiniteSet(S), NEW f \in [S -> Nat], NEW T \in SUBSET S
    PROVE  SumFunction([y \in T |-> f[y]]) <= SumFunction(f)
<1>. DEFINE Part(R) == SumFunction([y \in R |-> f[y]])
            W == {R \in SUBSET S : T \subseteq R /\ ~ (Part(T) <= Part(R))}
<1>1. ASSUME NEW R \in SUBSET S PROVE Part(R) \in Nat
  <2>1. IsFiniteSet(R) /\ [y \in R |-> f[y]] \in [R -> Nat]
    BY FS_Subset
  <2>. QED BY <2>1, SumIsNat
<1>2. ASSUME NEW R \in SUBSET S, NEW x \in R PROVE Part(R) = Part(R \ {x}) + f[x]
  <2>. DEFINE e == [y \in R |-> f[y]]
              Q == R \ {x}
  <2>1. IsFiniteSet(Q) /\ x \notin Q /\ e \in [Q \cup {x} -> Nat] /\ Q \cup {x} = R
    <3>1. Q \cup {x} = R /\ Q \in SUBSET S
      OBVIOUS
    <3>. QED BY <3>1, FS_Subset
  <2>2. [y \in Q |-> e[y]] = [y \in Q |-> f[y]] /\ e[x] = f[x]
    OBVIOUS
  <2>. HIDE DEF e, Q
  <2>3. SumFunction(e) = SumFunction([y \in Q |-> e[y]]) + e[x]
    BY <2>1, SumOneMore
  <2>4. Part(R) = SumFunction(e) /\ Part(R \ {x}) = SumFunction([y \in Q |-> f[y]])
    BY DEF e, Q
  <2>. QED BY <2>2, <2>3, <2>4
<1>3. W = {}
  <2>. SUFFICES ASSUME W # {} PROVE FALSE
    OBVIOUS
  <2>1. PICK R \in W : \A x \in R : R \ {x} \notin W
    <3>1. W \in SUBSET (SUBSET S)
      OBVIOUS
    <3>. HIDE DEF W
    <3>. QED BY <3>1, SmallestSet
  <2>. HIDE DEF Part
  <2>2. R # T
    BY <1>1
  <2>3. PICK x \in R : x \notin T
    BY <2>2
  <2>4. Part(T) <= Part(R \ {x}) /\ R \ {x} \in SUBSET S
    BY <2>1, <2>3
  <2>5. Part(R) = Part(R \ {x}) + f[x] /\ f[x] \in Nat /\ R \in SUBSET S
    BY <1>2
  <2>. QED BY <1>1, <2>4, <2>5
<1>4. S \notin W
  BY <1>3
<1>5. [y \in S |-> f[y]] = f
  OBVIOUS
<1>. QED BY <1>4, <1>5

-----------------------------------------------------------------------------
(* The hours of segments, and of tasks.                                    *)

(* Tasks and their allocations.                                            *)
TasksOK(tasks) == /\ DOMAIN tasks \subseteq Tasks
                  /\ \A t \in DOMAIN tasks : /\ tasks[t] \in Allocation
                                             /\ IsFiniteSet(tasks[t].work)

(* What has been planned for someone on a day is a number of hours.        *)
LEMMA SpentIsNat ==
    ASSUME NEW segs \in SUBSET Segment, IsFiniteSet(segs), NEW u, NEW d
    PROVE  Spent(segs, u, d) \in Nat
<1>. DEFINE S == {h \in segs : h.user = u /\ h.date = d}
            f == [g \in S |-> g.hours]
<1>1. IsFiniteSet(S)
  BY FS_Subset
<1>2. f \in [S -> Nat]
  BY DEF Segment
<1>3. SumFunction(f) \in Nat
  <2>. HIDE DEF f, S
  <2>. QED BY <1>1, <1>2, SumIsNat
<1>. QED BY <1>3 DEF Spent

LEMMA BookedIsNat ==
    ASSUME NEW tasks, TasksOK(tasks), NEW u, NEW d
    PROVE  Booked(tasks, u, d) \in Nat
<1>. DEFINE S == {x \in DOMAIN tasks : tasks[x].status # "Dropped"}
            f == [t \in S |-> Spent(tasks[t].work, u, d)]
<1>1. IsFiniteSet(S)
  <2>1. S \in SUBSET Nodes
    BY DEF TasksOK, Nodes
  <2>. HIDE DEF S
  <2>. QED BY <2>1, NodesAssumption, FS_Subset
<1>2. ASSUME NEW t \in S PROVE Spent(tasks[t].work, u, d) \in Nat
  <2>1. tasks[t].work \in SUBSET Segment /\ IsFiniteSet(tasks[t].work)
    BY DEF TasksOK, Allocation
  <2>. QED BY <2>1, SpentIsNat
<1>3. f \in [S -> Nat]
  BY <1>2
<1>4. SumFunction(f) \in Nat
  <2>. HIDE DEF f, S
  <2>. QED BY <1>1, <1>3, SumIsNat
<1>. QED BY <1>4 DEF Booked

(* One segment more, and none.                                             *)
LEMMA SpentOneMore ==
    ASSUME NEW segs \in SUBSET Segment, IsFiniteSet(segs), NEW g \in Segment, g \notin segs,
           NEW u, NEW d
    PROVE  Spent(segs \cup {g}, u, d)
              = Spent(segs, u, d) + (IF g.user = u /\ g.date = d THEN g.hours ELSE 0)
<1>. DEFINE S == {h \in segs : h.user = u /\ h.date = d}
            T == {h \in segs \cup {g} : h.user = u /\ h.date = d}
            f == [h \in T |-> h.hours]
            e == [h \in S |-> h.hours]
<1>1. Spent(segs, u, d) = SumFunction(e) /\ Spent(segs \cup {g}, u, d) = SumFunction(f)
  BY DEF Spent
<1>2. CASE g.user = u /\ g.date = d
  <2>1. T = S \cup {g} /\ g \notin S /\ IsFiniteSet(S)
    BY <1>2, FS_Subset
  <2>2. f \in [S \cup {g} -> Nat] /\ f[g] = g.hours
    BY <2>1 DEF Segment
  <2>3. [h \in S |-> f[h]] = e
    BY <2>1
  <2>. HIDE DEF S, T, f, e
  <2>4. SumFunction(f) = SumFunction([h \in S |-> f[h]]) + f[g]
    BY <2>1, <2>2, SumOneMore
  <2>. QED BY <1>1, <1>2, <2>2, <2>3, <2>4
<1>3. CASE ~ (g.user = u /\ g.date = d)
  <2>1. T = S
    BY <1>3
  <2>2. f = e
    BY <2>1
  <2>3. Spent(segs, u, d) \in Nat
    BY SpentIsNat
  <2>. HIDE DEF S, T, f, e
  <2>. QED BY <1>1, <1>3, <2>2, <2>3
<1>. QED BY <1>2, <1>3

LEMMA SpentNone == ASSUME NEW u, NEW d PROVE Spent({}, u, d) = 0
<1>. DEFINE S == {h \in {} : h.user = u /\ h.date = d}
            e == [h \in S |-> h.hours]
<1>1. e \in [{} -> Nat]
  OBVIOUS
<1>2. Spent({}, u, d) = SumFunction(e)
  BY DEF Spent
<1>. HIDE DEF e
<1>. QED BY <1>1, <1>2, SumOfNone

(* One task more, and some.                                                *)
Counted(tasks) == {x \in DOMAIN tasks : tasks[x].status # "Dropped"}
LEMMA BookedOneMore ==
    ASSUME NEW small, TasksOK(small), NEW big, TasksOK(big), NEW t, t \notin DOMAIN small,
           DOMAIN big = DOMAIN small \cup {t}, \A x \in DOMAIN small : big[x] = small[x],
           big[t].status # "Dropped", NEW u, NEW d
    PROVE  Booked(big, u, d) = Booked(small, u, d) + Spent(big[t].work, u, d)
<1>. DEFINE S == Counted(small)
            f == [x \in Counted(big) |-> Spent(big[x].work, u, d)]
            e == [x \in S |-> Spent(small[x].work, u, d)]
<1>1. Booked(big, u, d) = SumFunction(f) /\ Booked(small, u, d) = SumFunction(e)
  BY DEF Booked, Counted
<1>2. Counted(big) = S \cup {t} /\ t \notin S
  BY DEF Counted
<1>3. IsFiniteSet(S)
  <2>1. S \in SUBSET Nodes
    BY DEF TasksOK, Nodes, Counted
  <2>. HIDE DEF S
  <2>. QED BY <2>1, NodesAssumption, FS_Subset
<1>4. f \in [S \cup {t} -> Nat]
  <2>1. ASSUME NEW x \in Counted(big) PROVE Spent(big[x].work, u, d) \in Nat
    <3>1. big[x].work \in SUBSET Segment /\ IsFiniteSet(big[x].work)
      BY DEF TasksOK, Allocation, Counted
    <3>. QED BY <3>1, SpentIsNat
  <2>. QED BY <1>2, <2>1
<1>5. [x \in S |-> f[x]] = e /\ f[t] = Spent(big[t].work, u, d)
  <2>1. \A x \in S : f[x] = Spent(small[x].work, u, d)
    BY <1>2 DEF Counted
  <2>2. f[t] = Spent(big[t].work, u, d)
    BY <1>2
  <2>. HIDE DEF f
  <2>. QED BY <2>1, <2>2
<1>. HIDE DEF S, f, e
<1>6. SumFunction(f) = SumFunction([x \in S |-> f[x]]) + f[t]
  BY <1>2, <1>3, <1>4, SumOneMore
<1>. QED BY <1>1, <1>5, <1>6

LEMMA BookedMore ==
    ASSUME NEW small, TasksOK(small), NEW big, TasksOK(big), NEW t \in DOMAIN big,
           t \notin DOMAIN small, DOMAIN small \subseteq DOMAIN big,
           \A x \in DOMAIN small : big[x] = small[x],
           big[t].status # "Dropped", NEW u, NEW d
    PROVE  Booked(small, u, d) + Spent(big[t].work, u, d) <= Booked(big, u, d)
<1>. DEFINE mid == [x \in DOMAIN small \cup {t} |-> big[x]]
            f == [x \in Counted(big) |-> Spent(big[x].work, u, d)]
            C == Counted(mid)
<1>1. TasksOK(mid)
  BY DEF TasksOK
<1>2. Booked(mid, u, d) = Booked(small, u, d) + Spent(big[t].work, u, d)
  <2>1. DOMAIN mid = DOMAIN small \cup {t} /\ mid[t] = big[t]
        /\ \A x \in DOMAIN small : mid[x] = small[x]
    OBVIOUS
  <2>. HIDE DEF mid
  <2>. QED BY <1>1, <2>1, BookedOneMore
<1>3. C \in SUBSET Counted(big) /\ \A x \in C : mid[x] = big[x]
  BY DEF Counted
<1>4. IsFiniteSet(Counted(big))
  <2>1. Counted(big) \in SUBSET Nodes
    BY DEF TasksOK, Nodes, Counted
  <2>. QED BY <2>1, NodesAssumption, FS_Subset
<1>5. f \in [Counted(big) -> Nat]
  <2>1. ASSUME NEW x \in Counted(big) PROVE Spent(big[x].work, u, d) \in Nat
    <3>1. big[x].work \in SUBSET Segment /\ IsFiniteSet(big[x].work)
      BY DEF TasksOK, Allocation, Counted
    <3>. QED BY <3>1, SpentIsNat
  <2>. QED BY <2>1
<1>6. Booked(big, u, d) = SumFunction(f)
  BY DEF Booked, Counted
<1>7. Booked(mid, u, d) = SumFunction([x \in C |-> f[x]])
  <2>1. Booked(mid, u, d) = SumFunction([x \in C |-> Spent(mid[x].work, u, d)])
    <3>. HIDE DEF mid
    <3>. QED BY DEF Booked, Counted
  <2>2. [x \in C |-> Spent(mid[x].work, u, d)] = [x \in C |-> f[x]]
    <3>. HIDE DEF mid, C
    <3>. QED BY <1>3
  <2>. QED BY <2>1, <2>2
<1>8. SumFunction([x \in C |-> f[x]]) <= SumFunction(f)
  <2>. HIDE DEF C, f
  <2>. QED BY <1>3, <1>4, <1>5, SumOfMore
<1>. HIDE DEF f, C, mid
<1>. QED BY <1>2, <1>6, <1>7, <1>8

-----------------------------------------------------------------------------
(* What the run computes has the types it should have.                     *)

(* The work of a task is finite.                                           *)
AllocsOK(a) == AllocationsOK(a) /\ \A t \in DOMAIN a.tasks : IsFiniteSet(a.tasks[t].work)
SavedOK(a) ==
    /\ a = [tasks |-> a.tasks, milestones |-> a.milestones, late |-> a.late]
    /\ AllocsOK(a)
CapOK(cap) == cap \in [Users -> [Days -> Nat]]
StateOK(s) ==
    /\ s = [tasks |-> s.tasks, milestones |-> s.milestones, late |-> s.late, cap |-> s.cap]
    /\ AllocsOK(s) /\ CapOK(s.cap)
(* What the run reads.                                                     *)
ReadsOK == /\ PlanOK(plan) /\ today \in FirstDay .. LastDay
           /\ started \in [Tasks -> Nat \cup {NoDay}] /\ SavedOK(saved)

(* Days are numbers.                                                       *)
LEMMA DaysAreNat == Days \subseteq Nat /\ IsFiniteSet(Days) /\ FirstDay .. LastDay \subseteq Days
<1>1. IsFiniteSet(0 .. Horizon)
  BY DaysAssumption, FS_Interval
<1>. QED BY <1>1, DaysAssumption DEF Days

(* The next working day is not before the day that is asked for.           *)
LEMMA NextWorkingDayIsLater ==
    ASSUME PlanOK(plan), NEW d \in Nat
    PROVE  NextWorkingDay(d) \in Nat /\ NextWorkingDay(d) >= d
<1>. DEFINE on == {e \in plan.working : e >= d}
<1>1. on \in SUBSET Nat
  BY DaysAreNat DEF PlanOK
<1>2. on # {} => Min(on) \in on
  <2>. HIDE DEF on
  <2>. QED BY <1>1, MinIsLeast
<1>. QED BY <1>1, <1>2 DEF NextWorkingDay

(* The end of the work on a day is a day.                                  *)
LEMMA AdvanceIsNat ==
    ASSUME PlanOK(plan), NEW start \in Nat, NEW count \in Nat
    PROVE  AdvanceWorkingDays(start, count) \in Nat
<1>. DEFINE on == {e \in plan.working :
                     /\ e >= start /\ Cardinality(plan.working \cap (start .. e)) = count}
<1>1. on \in SUBSET Nat
  BY DaysAreNat DEF PlanOK
<1>2. on # {} => Min(on) \in Nat
  <2>. HIDE DEF on
  <2>. QED BY <1>1, MinIsLeast
<1>. HIDE DEF on
<1>3. AdvanceWorkingDays(start, count) = IF on = {} THEN Horizon ELSE Min(on)
  BY DEF AdvanceWorkingDays, on
<1>. QED BY <1>2, <1>3, DaysAssumption

(* The end of an allocation is a day.                                      *)
LEMMA EndIsNat == ASSUME NEW a \in Allocation PROVE EndOf(a) \in Nat
BY DEF EndOf, Allocation

(* A task that is in progress has an allocation.                           *)
LEMMA InProgressIsSaved ==
    ASSUME NEW n, InProgress(n), SavedOK(saved)
    PROVE  n \in DOMAIN saved.tasks /\ saved.tasks[n] \in Allocation
BY DEF InProgress, StatusOf, SavedOK, AllocsOK, AllocationsOK

(* What a dependency allows is a number.                                   *)
LEMMA AllowsIsInt ==
    ASSUME ReadsOK, NEW s, AllocsOK(s), NEW n \in Nodes, NEW d \in DOMAIN plan.deps[n]
    PROVE  Allows(s, n, d) \in Int
<1>1. plan.deps[n][d] \in Int /\ plan.start \in Nat /\ today \in Nat
  BY DaysAreNat DEF ReadsOK, PlanOK
<1>2. Max({today, plan.start}) \in Int
  <2>1. IsFiniteSet({today, plan.start})
    BY SmallSets
  <2>. QED BY <1>1, <2>1, MaxIsGreatest
<1>3. d \in DOMAIN s.milestones => s.milestones[d].date \in Nat
  BY DEF AllocsOK, AllocationsOK, Marker
<1>4. d \in DOMAIN s.tasks => EndOf(s.tasks[d]) \in Nat /\ s.tasks[d].start \in Nat
  BY EndIsNat DEF AllocsOK, AllocationsOK, Allocation
<1>. QED BY <1>1, <1>2, <1>3, <1>4 DEF Allows

(* Dependencies are finite in number.                                      *)
LEMMA FiniteDeps ==
    ASSUME PlanOK(plan), NEW n \in Nodes
    PROVE  IsFiniteSet(DOMAIN plan.deps[n])
<1>1. IsFiniteSet(Nodes \cup {PlanStart})
  BY NodesAssumption, FS_AddElement
<1>. QED BY <1>1, FS_Subset DEF PlanOK

(* A node starts when all it depends on allow it, unless it has started.   *)
LEMMA EarliestStartIsLater ==
    ASSUME ReadsOK, NEW s, AllocsOK(s), NEW n \in Nodes
    PROVE  /\ EarliestStart(s, n) \in Nat
           /\ ~ InProgress(n) => \A d \in DOMAIN plan.deps[n] : EarliestStart(s, n) >= Allows(s, n, d)
<1>1. CASE InProgress(n)
  <2>1. saved.tasks[n].start \in Nat /\ today \in Nat
    BY <1>1, InProgressIsSaved, DaysAreNat DEF ReadsOK, Allocation
  <2>2. started[n] # NoDay => started[n] \in Nat
    BY <1>1 DEF ReadsOK, InProgress
  <2>. QED BY <1>1, <2>1, <2>2 DEF EarliestStart
<1>2. CASE ~ InProgress(n)
  <2>. DEFINE D == {plan.start, IF n \in Tasks THEN today + 1 ELSE 0,
                    IF plan.constraint[n].kind = "Earliest" THEN plan.constraint[n].date ELSE 0}
              S == DOMAIN plan.deps[n]
              f == [d \in S |-> Allows(s, n, d)]
  <2>1. D \in SUBSET Int /\ plan.start \in D /\ plan.start \in Nat
    <3>1. plan.constraint[n].date \in Nat /\ plan.start \in Nat /\ today \in Nat
      BY DaysAreNat DEF ReadsOK, PlanOK, Constraint
    <3>. QED BY <3>1
  <2>2. IsFiniteSet(D)
    BY SmallSets
  <2>3. f \in [S -> Int]
    BY AllowsIsInt
  <2>4. IsFiniteSet(S)
    BY FiniteDeps DEF ReadsOK
  <2>5. EarliestStart(s, n) = Max(D \cup {f[d] : d \in S})
    <3>1. {f[d] : d \in S} = {Allows(s, n, d) : d \in S}
      OBVIOUS
    <3>. HIDE DEF f
    <3>. QED BY <1>2, <3>1 DEF EarliestStart
  <2>. HIDE DEF D
  <2>6. /\ EarliestStart(s, n) \in Int /\ \A d \in D : d <= EarliestStart(s, n)
        /\ \A d \in S : f[d] <= EarliestStart(s, n)
    <3>. HIDE DEF f, S
    <3>. QED BY <2>1, <2>2, <2>3, <2>4, <2>5, MaxOf
  <2>7. ASSUME NEW d \in DOMAIN plan.deps[n] PROVE EarliestStart(s, n) >= Allows(s, n, d)
    BY <2>3, <2>6
  <2>. QED BY <1>2, <2>1, <2>6, <2>7
<1>. QED BY <1>1, <1>2

(* The day the run puts a node on.                                         *)
LEMMA WantedIsLater ==
    ASSUME ReadsOK, NEW s, AllocsOK(s), NEW n \in Nodes
    PROVE  Wanted(s, n) \in Nat /\ Wanted(s, n) >= EarliestStart(s, n)
<1>. DEFINE c == plan.constraint[n]
            e == EarliestStart(s, n)
<1>1. e \in Nat /\ c.date \in Nat /\ PlanOK(plan)
  BY EarliestStartIsLater, DaysAreNat DEF ReadsOK, PlanOK, Constraint
<1>2. Max({e, c.date}) \in Nat /\ Max({e, c.date}) >= e
  <2>. HIDE DEF e, c
  <2>1. IsFiniteSet({e, c.date})
    BY SmallSets
  <2>. QED BY <1>1, <2>1, MaxIsGreatest
<1>. HIDE DEF e
<1>3. Wanted(s, n) = NextWorkingDay(IF c.kind = "Fixed" THEN Max({e, c.date}) ELSE e)
  BY DEF Wanted, e
<1>. QED BY <1>1, <1>2, <1>3, NextWorkingDayIsLater DEF e

-----------------------------------------------------------------------------
(* Filling days with work.                                                 *)

(* What is left of a task and of the hours, and work from start on.        *)
Fillings(t, start) ==
    [left : [DOMAIN plan.slots[t] -> Nat], cap : [Users -> [Days -> Nat]],
     work : {W \in SUBSET Segment : IsFiniteSet(W) /\ \A g \in W : g.date >= start}]

(* The slots of a task.                                                    *)
LEMMA SlotsAre ==
    ASSUME PlanOK(plan), NEW t \in Tasks
    PROVE  /\ Len(plan.slots[t]) \in Nat /\ DOMAIN plan.slots[t] = 1 .. Len(plan.slots[t])
           /\ \A i \in DOMAIN plan.slots[t] :
                 /\ plan.slots[t][i] \in Slot /\ plan.slots[t][i].who \in (SUBSET Users) \ {{}}
                 /\ plan.slots[t][i].days \in Nat /\ TotalHours(t, i) \in Nat
<1>1. plan.slots[t] \in Seq(Slot)
  BY DEF PlanOK
<1>2. /\ Len(plan.slots[t]) \in Nat /\ DOMAIN plan.slots[t] = 1 .. Len(plan.slots[t])
      /\ \A i \in DOMAIN plan.slots[t] : plan.slots[t][i] \in Slot
  BY <1>1
<1>3. ASSUME NEW i \in DOMAIN plan.slots[t]
      PROVE  /\ plan.slots[t][i].who \in (SUBSET Users) \ {{}}
             /\ plan.slots[t][i].days \in Nat /\ TotalHours(t, i) \in Nat
  <2>1. plan.slots[t][i].who \in (SUBSET Users) \ {{}} /\ plan.slots[t][i].days \in Nat
    BY <1>2, DaysAssumption DEF Slot
  <2>. QED BY <2>1, HoursAssumption DEF TotalHours
<1>. QED BY <1>2, <1>3

(* The longest slot of a task, and the duration in days.                   *)
LEMMA SpanIsNat == ASSUME PlanOK(plan), NEW t \in Tasks PROVE Span(t) \in Nat
<1>. DEFINE S == DOMAIN plan.slots[t]
            f == [i \in S |-> plan.slots[t][i].days]
            longest == Max({1} \cup {plan.slots[t][i].days : i \in S})
<1>1. IsFiniteSet(S) /\ f \in [S -> Int]
  <2>1. IsFiniteSet(1 .. Len(plan.slots[t])) /\ S = 1 .. Len(plan.slots[t])
    BY SlotsAre, FS_Interval
  <2>2. \A i \in S : plan.slots[t][i].days \in Int
    BY SlotsAre
  <2>. QED BY <2>1, <2>2
<1>2. longest \in Int /\ 1 <= longest
  <2>1. {f[i] : i \in S} = {plan.slots[t][i].days : i \in S}
    OBVIOUS
  <2>2. IsFiniteSet({1}) /\ {1} \in SUBSET Int /\ {1} # {}
    BY FS_Singleton
  <2>. HIDE DEF f, S
  <2>3. Max({1} \cup {f[i] : i \in S}) \in Int /\ \A d \in {1} : d <= Max({1} \cup {f[i] : i \in S})
    BY <1>1, <2>2, MaxOf
  <2>. QED BY <2>1, <2>3
<1>3. plan.duration[t] \in Nat
  BY DEF PlanOK
<1>4. Max({plan.duration[t], longest}) \in Nat
  <2>. HIDE DEF longest
  <2>. QED BY <1>2, <1>3, MaxOfTwo
<1>. HIDE DEF longest
<1>5. Span(t) = CASE plan.duration[t] > 0 -> Max({plan.duration[t], longest})
                  [] ~ plan.relaxed[t] /\ Len(plan.slots[t]) > 1 -> longest
                  [] OTHER -> 0
  BY DEF Span, longest
<1>6. longest \in Nat
  BY <1>2
<1>. HIDE DEF Span
<1>. QED BY <1>3, <1>4, <1>5, <1>6

(* A cap is a number of hours.                                             *)
LEMMA CapIsNat ==
    ASSUME PlanOK(plan), NEW t \in Tasks, NEW i \in DOMAIN plan.slots[t], NEW u \in Users,
           NEW d \in Days
    PROVE  Cap(t, i, u, d) \in Nat
<1>1. plan.hours[u][d] \in Nat
  BY DEF PlanOK
<1>2. Span(t) # 0 => TotalHours(t, i) \div Span(t) \in Nat
  BY SpanIsNat, SlotsAre, SMTT(30)
<1>. QED BY <1>1, <1>2 DEF Cap

(* The least of three numbers.                                             *)
LEMMA LeastOfThree ==
    ASSUME NEW x \in Nat, NEW y \in Nat, NEW z \in Nat
    PROVE  /\ Min({x, y, z}) \in Nat /\ Min({x, y, z}) <= x
           /\ Min({x, y, z}) <= y /\ Min({x, y, z}) <= z
BY MinIsLeast

(* No more is taken than there is and than is left to do.                  *)
LEMMA TakeIsLess ==
    ASSUME PlanOK(plan), NEW t \in Tasks, NEW i \in DOMAIN plan.slots[t], NEW u \in Users,
           NEW d \in Days, NEW avail \in Nat, NEW left \in Nat
    PROVE  /\ Take(t, i, u, d, avail, left) \in Nat
           /\ Take(t, i, u, d, avail, left) <= avail /\ Take(t, i, u, d, avail, left) <= left
<1>1. Cap(t, i, u, d) \in Nat
  BY CapIsNat
<1>2. LET m == Min({Cap(t, i, u, d), avail, left})
      IN  m \in Nat /\ m <= avail /\ m <= left
  BY <1>1, LeastOfThree
<1>. QED BY <1>2 DEF Take

(* To begin with nothing has been done.                                    *)
LEMMA NoneDoneIsFilling ==
    ASSUME PlanOK(plan), NEW s, CapOK(s.cap), NEW t \in Tasks, NEW start
    PROVE  NoneDone(s, t) \in Fillings(t, start)
BY SlotsAre, FS_EmptySet DEF NoneDone, Fillings, CapOK

(* Hours that are there are used.                                          *)
LEMMA UseIsFilling ==
    ASSUME NEW t \in Tasks, NEW start \in Nat, PlanOK(plan), NEW a \in Fillings(t, start),
           NEW i \in DOMAIN plan.slots[t], NEW u \in Users, NEW d \in Days, d >= start,
           NEW hours \in Nat, hours <= a.left[i], hours <= a.cap[u][d]
    PROVE  Use(a, i, u, d, hours) \in Fillings(t, start)
<1>. DEFINE g == [slot |-> i, user |-> u, date |-> d, hours |-> hours]
            left == [a.left EXCEPT ![i] = @ - hours]
            cap == [a.cap EXCEPT ![u][d] = @ - hours]
            work == a.work \cup {g}
<1>1. /\ a.left \in [DOMAIN plan.slots[t] -> Nat] /\ a.cap \in [Users -> [Days -> Nat]]
      /\ a.work \in SUBSET Segment /\ IsFiniteSet(a.work) /\ \A h \in a.work : h.date >= start
  BY DEF Fillings
<1>2. left \in [DOMAIN plan.slots[t] -> Nat]
  BY <1>1
<1>3. cap \in [Users -> [Days -> Nat]]
  <2>1. a.cap[u] \in [Days -> Nat] /\ a.cap[u][d] - hours \in Nat
    BY <1>1
  <2>. QED BY <1>1, <2>1
<1>4. g \in Segment /\ g.date >= start
  BY SlotsAre DEF Segment
<1>5. work \in SUBSET Segment /\ IsFiniteSet(work) /\ \A h \in work : h.date >= start
  <2>. HIDE DEF g
  <2>. QED BY <1>1, <1>4, FS_AddElement
<1>6. hours # 0 => Use(a, i, u, d, hours) = [left |-> left, cap |-> cap, work |-> work]
  BY DEF Use
<1>7. [left |-> left, cap |-> cap, work |-> work] \in Fillings(t, start)
  <2>. HIDE DEF left, cap, work
  <2>. QED BY <1>2, <1>3, <1>5 DEF Fillings
<1>. QED BY <1>6, <1>7 DEF Use

(* What is used is not left: on every day the hours left and the hours     *)
(* planned are those there were.                                           *)
Kept(a, cap) == \A u \in Users, d \in Days : a.cap[u][d] + Spent(a.work, u, d) = cap[u][d]
LEMMA UseKeeps ==
    ASSUME NEW t \in Tasks, NEW start \in Nat, PlanOK(plan), NEW a \in Fillings(t, start),
           NEW i \in DOMAIN plan.slots[t], NEW u \in Users, NEW d \in Days,
           NEW hours \in Nat, hours <= a.left[i], hours <= a.cap[u][d],
           NEW cap, Kept(a, cap), \A h \in a.work : ~ (h.slot = i /\ h.date = d)
    PROVE  LET r == Use(a, i, u, d, hours)
           IN  /\ Kept(r, cap)
               /\ \A h \in r.work : h \in a.work \/ (h.slot = i /\ h.date = d)
<1>. DEFINE g == [slot |-> i, user |-> u, date |-> d, hours |-> hours]
            left == [a.left EXCEPT ![i] = @ - hours]
            more == [a.cap EXCEPT ![u][d] = @ - hours]
            work == a.work \cup {g}
            r == Use(a, i, u, d, hours)
<1>1. CASE hours = 0
  <2>1. r = a
    BY <1>1 DEF Use
  <2>. QED BY <2>1
<1>2. CASE hours # 0
  <2>1. r = [left |-> left, cap |-> more, work |-> work]
    BY <1>2 DEF Use
  <2>2. r.cap = more /\ r.work = work
    BY <2>1
  <2>3. /\ a.cap \in [Users -> [Days -> Nat]] /\ a.work \in SUBSET Segment /\ IsFiniteSet(a.work)
    BY DEF Fillings
  <2>4. g \in Segment /\ g \notin a.work /\ g.slot = i /\ g.user = u /\ g.date = d /\ g.hours = hours
    BY SlotsAre DEF Segment
  <2>5. ASSUME NEW v \in Users, NEW e \in Days
        PROVE  more[v][e] = IF v = u /\ e = d THEN a.cap[v][e] - hours ELSE a.cap[v][e]
    BY <2>3
  <2>. HIDE DEF more, g, r
  <2>6. ASSUME NEW v \in Users, NEW e \in Days
        PROVE  more[v][e] + Spent(work, v, e) = cap[v][e]
    <3>1. Spent(work, v, e) = Spent(a.work, v, e) + (IF u = v /\ d = e THEN hours ELSE 0)
      <4>1. Spent(work, v, e) = Spent(a.work, v, e)
                                   + (IF g.user = v /\ g.date = e THEN g.hours ELSE 0)
        <5>1. a.work \in SUBSET Segment /\ IsFiniteSet(a.work) /\ g \in Segment /\ g \notin a.work
          BY <2>3, <2>4
        <5>. DEFINE w == a.work
        <5>. HIDE DEF w, work
        <5>2. Spent(w \cup {g}, v, e) = Spent(w, v, e)
                                   + (IF g.user = v /\ g.date = e THEN g.hours ELSE 0)
          BY <5>1, SpentOneMore DEF w
        <5>. QED BY <5>2 DEF work, w
      <4>. QED BY <2>4, <4>1
    <3>2. Spent(a.work, v, e) \in Nat /\ a.cap[v][e] \in Nat
      BY <2>3, SpentIsNat
    <3>3. a.cap[v][e] + Spent(a.work, v, e) = cap[v][e]
      BY DEF Kept
    <3>. HIDE DEF work
    <3>. QED BY <2>5, <3>1, <3>2, <3>3
  <2>7. Kept(r, cap)
    BY <2>2, <2>6 DEF Kept
  <2>. QED BY <2>2, <2>4, <2>7 DEF r
<1>. QED BY <1>1, <1>2

(* Hours a user has and a slot needs are used.                             *)
Uses(r, a, i, u, d) ==
    \E hours \in Nat : /\ hours <= a.left[i] /\ hours <= a.cap[u][d]
                       /\ r = Use(a, i, u, d, hours)
(* Everyone's share of a day is used.                                      *)
SharedRun(f, t, who, a, d, start) ==
    /\ \A k \in 0 .. Len(plan.slots[t]) : f[k] \in Fillings(t, start)
    /\ f[0] = a /\ f[Len(plan.slots[t])] = Shared(t, who, a, d)
    /\ \A k \in 1 .. Len(plan.slots[t]) : Uses(f[k], f[k - 1], k, who[k], d)
LEMMA SharedRuns ==
    ASSUME NEW t \in Tasks, NEW start \in Nat, PlanOK(plan),
           NEW who \in [DOMAIN plan.slots[t] -> Users],
           NEW a \in Fillings(t, start), NEW d \in Days, d >= start
    PROVE  \E f : SharedRun(f, t, who, a, d, start)
<1>. DEFINE A == Fillings(t, start)
            L == Len(plan.slots[t])
            m == Max({L, 1 - 1})
            Step(b, i) == Use(b, i, who[i], d, Min({Cap(t, i, who[i], d), b.left[i],
                                                   b.cap[who[i]][d]}))
            Round(f) == [k \in 1 - 1 .. m |-> IF k < 1 THEN a ELSE Step(f[k - 1], k)]
            sol == CHOOSE f : f = Round(f)
            G == [x \in A \X (1 .. L) |-> Step(x[1], x[2])]
<1>1. L \in Nat /\ DOMAIN plan.slots[t] = 1 .. L /\ m = L
  <2>1. L \in Nat /\ DOMAIN plan.slots[t] = 1 .. L
    BY SlotsAre
  <2>. HIDE DEF L
  <2>2. m = L
    BY <2>1, MaxOfTwo
  <2>. QED BY <2>1, <2>2
<1>2. Shared(t, who, a, d) = sol[m]
  BY DEF Shared, Through
<1>3. ASSUME NEW b \in A, NEW i \in 1 .. L
      PROVE  Step(b, i) \in A /\ Uses(Step(b, i), b, i, who[i], d)
  <2>1. i \in DOMAIN plan.slots[t] /\ who[i] \in Users
    BY <1>1
  <2>2. b.left[i] \in Nat /\ b.cap[who[i]][d] \in Nat
    BY <2>1 DEF Fillings
  <2>3. Cap(t, i, who[i], d) \in Nat
    BY <2>1, CapIsNat
  <2>. DEFINE hours == Min({Cap(t, i, who[i], d), b.left[i], b.cap[who[i]][d]})
  <2>4. hours \in Nat /\ hours <= b.left[i] /\ hours <= b.cap[who[i]][d]
    BY <2>2, <2>3, LeastOfThree
  <2>. HIDE DEF hours
  <2>5. Use(b, i, who[i], d, hours) \in A
    BY <2>1, <2>4, UseIsFilling
  <2>6. Uses(Use(b, i, who[i], d, hours), b, i, who[i], d)
    BY <2>4 DEF Uses
  <2>. QED BY <2>5, <2>6 DEF hours
<1>. HIDE DEF A, L, m, Step
<1>4. G \in [A \X (1 .. L) -> A]
  BY <1>3
<1>5. PICK f : Repeats(f, A, a, 1, L, G)
  <2>1. a \in A /\ 1 \in Int /\ L \in Int /\ L >= 1 - 1
    BY <1>1 DEF A
  <2>. HIDE DEF G
  <2>. QED BY <1>4, <2>1, Recursion, Zenon
<1>6. f = Round(f)
  <2>1. ASSUME NEW k \in 1 - 1 .. m
        PROVE  f[k] = IF k < 1 THEN a ELSE Step(f[k - 1], k)
    <3>1. k >= 1 => f[k - 1] \in A /\ k \in 1 .. L
      BY <1>1, <1>5 DEF Repeats
    <3>2. f[k] = IF k < 1 THEN a ELSE G[<<f[k - 1], k>>]
      BY <1>1, <1>5 DEF Repeats
    <3>. QED BY <1>1, <3>1, <3>2
  <2>2. f = [k \in 1 - 1 .. m |-> f[k]]
    BY <1>1, <1>5 DEF Repeats
  <2>. QED BY <2>1, <2>2
<1>7. sol = Round(sol)
  <2>. HIDE DEF Round
  <2>. QED BY <1>6
<1>. HIDE DEF sol
<1>8. \A k \in 1 - 1 .. L : sol[k] \in A
  <2>1. sol[1 - 1] \in A
    BY <1>1, <1>7 DEF A
  <2>2. \A k \in 1 .. L : sol[k - 1] \in A => sol[k] \in A
    BY <1>1, <1>3, <1>7
  <2>3. 1 \in Int /\ L \in Int /\ L >= 1 - 1
    BY <1>1
  <2>. QED BY <2>1, <2>2, <2>3, AllAlong, Zenon
<1>9. \A k \in 1 .. L : Uses(sol[k], sol[k - 1], k, who[k], d)
  BY <1>1, <1>3, <1>7, <1>8
<1>10. SharedRun(sol, t, who, a, d, start)
  <2>1. sol[0] = a /\ \A k \in 0 .. L : sol[k] \in A
    BY <1>1, <1>7, <1>8
  <2>. QED BY <1>1, <1>2, <1>9, <2>1 DEF SharedRun, A, L
<1>. QED BY <1>10

LEMMA SharedIsFilling ==
    ASSUME NEW t \in Tasks, NEW start \in Nat, PlanOK(plan),
           NEW who \in [DOMAIN plan.slots[t] -> Users],
           NEW a \in Fillings(t, start), NEW d \in Days, d >= start
    PROVE  Shared(t, who, a, d) \in Fillings(t, start)
<1>1. PICK f : SharedRun(f, t, who, a, d, start)
  BY SharedRuns, Zenon
<1>2. Len(plan.slots[t]) \in Nat
  BY SlotsAre
<1>. QED BY <1>1, <1>2 DEF SharedRun

(* Each slot uses hours of its own on the day.                             *)
LEMMA SharedKeeps ==
    ASSUME NEW t \in Tasks, NEW start \in Nat, PlanOK(plan),
           NEW who \in [DOMAIN plan.slots[t] -> Users],
           NEW a \in Fillings(t, start), NEW d \in Days, d >= start,
           NEW cap, Kept(a, cap), \A h \in a.work : h.date < d
    PROVE  /\ Kept(Shared(t, who, a, d), cap)
           /\ \A h \in Shared(t, who, a, d).work : h.date <= d
<1>. DEFINE L == Len(plan.slots[t])
<1>1. L \in Nat /\ DOMAIN plan.slots[t] = 1 .. L /\ d \in Nat
  BY SlotsAre, DaysAreNat
<1>2. PICK f : SharedRun(f, t, who, a, d, start)
  BY SharedRuns, Zenon
<1>. DEFINE A == {k \in 0 .. L : /\ Kept(f[k], cap)
                               /\ \A h \in f[k].work : h.date < d \/ (h.date = d /\ h.slot <= k)}
<1>3. 1 - 1 \in A
  BY <1>1, <1>2 DEF SharedRun
<1>4. ASSUME NEW k \in 1 .. L, k - 1 \in A PROVE k \in A
  <2>1. /\ f[k - 1] \in Fillings(t, start) /\ k \in DOMAIN plan.slots[t] /\ who[k] \in Users
        /\ k \in 0 .. L
    <3>1. k - 1 \in 0 .. L /\ k \in 0 .. L
      BY <1>1
    <3>. QED BY <1>1, <1>2, <3>1 DEF SharedRun
  <2>2. PICK hours \in Nat : /\ hours <= f[k - 1].left[k] /\ hours <= f[k - 1].cap[who[k]][d]
                             /\ f[k] = Use(f[k - 1], k, who[k], d, hours)
    BY <1>2 DEF SharedRun, Uses
  <2>3. /\ Kept(f[k - 1], cap)
        /\ \A h \in f[k - 1].work : h.date < d \/ (h.date = d /\ h.slot <= k - 1)
    BY <1>4
  <2>4. f[k - 1].work \in SUBSET Segment
    BY <2>1 DEF Fillings
  <2>5. \A h \in f[k - 1].work : h.date \in Nat /\ h.slot \in Nat
    BY <2>4, DaysAreNat DEF Segment
  <2>6. \A h \in f[k - 1].work : ~ (h.slot = k /\ h.date = d)
    BY <1>1, <2>1, <2>3, <2>5
  <2>7. /\ Kept(f[k], cap)
        /\ \A h \in f[k].work : h \in f[k - 1].work \/ (h.slot = k /\ h.date = d)
    BY <2>1, <2>2, <2>3, <2>6, UseKeeps
  <2>8. \A h \in f[k].work : h.date < d \/ (h.date = d /\ h.slot <= k)
    BY <1>1, <2>1, <2>3, <2>5, <2>7
  <2>. QED BY <2>1, <2>7, <2>8
<1>5. L \in A
  <2>1. 1 \in Int /\ L \in Int /\ L >= 1 - 1 /\ L \in 1 - 1 .. L
    BY <1>1
  <2>. HIDE DEF A, L
  <2>2. \A k \in 1 - 1 .. L : k \in A
    BY <1>3, <1>4, <2>1, StepByStep, Zenon
  <2>. QED BY <2>1, <2>2
<1>6. f[L] = Shared(t, who, a, d)
  BY <1>2 DEF SharedRun
<1>7. f[L].work \in SUBSET Segment
  <2>1. L \in 0 .. L
    BY <1>1
  <2>2. f[L] \in Fillings(t, start)
    BY <1>2, <2>1 DEF SharedRun
  <2>. QED BY <2>2 DEF Fillings
<1>8. \A h \in f[L].work : h.date \in Nat
  BY <1>7, DaysAreNat DEF Segment
<1>9. /\ Kept(f[L], cap)
      /\ \A h \in f[L].work : h.date < d \/ (h.date = d /\ h.slot <= L)
  BY <1>5
<1>10. \A h \in f[L].work : h.date <= d
  BY <1>1, <1>8, <1>9
<1>. QED BY <1>6, <1>9, <1>10

(* The last place is that before the first or the last day there is.       *)
LEMMA LastPlace ==
    ASSUME NEW start \in Nat
    PROVE  LET m == Max({Horizon, start - 1})
           IN  /\ m \in Int /\ m >= start - 1
               /\ \A d \in start .. m : d \in Days /\ d >= start
<1>1. Max({Horizon, start - 1}) = IF Horizon >= start - 1 THEN Horizon ELSE start - 1
  BY DaysAssumption, MaxOfTwo
<1>. QED BY <1>1, DaysAssumption DEF Days

(* To begin with all hours are left.                                       *)
LEMMA NoneDoneKeeps ==
    ASSUME NEW s, CapOK(s.cap), NEW t \in Tasks
    PROVE  Kept(NoneDone(s, t), s.cap) /\ NoneDone(s, t).work = {}
<1>1. NoneDone(s, t).cap = s.cap /\ NoneDone(s, t).work = {}
  BY DEF NoneDone
<1>2. ASSUME NEW u \in Users, NEW d \in Days
      PROVE  s.cap[u][d] + Spent({}, u, d) = s.cap[u][d]
  BY SpentNone DEF CapOK
<1>. QED BY <1>1, <1>2 DEF Kept

(* Days on which all have their share are filled.                          *)
StrictRun(f, s, t, who, start, m) ==
    /\ \A k \in start - 1 .. m : f[k] \in Fillings(t, start)
    /\ f[start - 1] = NoneDone(s, t) /\ f[m] = FillStrict(s, t, who, start)
    /\ \A k \in start .. m : f[k] \in {Shared(t, who, f[k - 1], k), NoneDone(s, t), f[k - 1]}
LEMMA FillStrictRuns ==
    ASSUME NEW s, CapOK(s.cap), NEW t \in Tasks, NEW start \in Nat, PlanOK(plan),
           NEW who \in [DOMAIN plan.slots[t] -> Users]
    PROVE  \E f : StrictRun(f, s, t, who, start, Max({Horizon, start - 1}))
<1>. DEFINE A == Fillings(t, start)
            none == NoneDone(s, t)
            m == Max({Horizon, start - 1})
            Step(a, d) ==
              IF Short(t, who, a, d) = {} THEN Shared(t, who, a, d)
              ELSE IF \E i \in Short(t, who, a, d) : plan.hours[who[i]][d] > 0 THEN none
              ELSE a
            Round(f) == [k \in start - 1 .. m |-> IF k < start THEN none ELSE Step(f[k - 1], k)]
            sol == CHOOSE f : f = Round(f)
            G == [x \in A \X (start .. m) |-> Step(x[1], x[2])]
<1>1. FillStrict(s, t, who, start) = sol[m]
  BY DEF FillStrict, Through
<1>2. m \in Int /\ m >= start - 1 /\ \A d \in start .. m : d \in Days /\ d >= start
  BY LastPlace
<1>3. none \in A
  BY NoneDoneIsFilling
<1>4. ASSUME NEW a \in A, NEW d \in start .. m
      PROVE  Step(a, d) \in A /\ Step(a, d) \in {Shared(t, who, a, d), none, a}
  <2>1. Shared(t, who, a, d) \in A
    <3>1. d \in Days /\ d >= start
      BY <1>2
    <3>. HIDE DEF m
    <3>. QED BY <3>1, SharedIsFilling
  <2>. HIDE DEF A, none
  <2>. QED BY <1>3, <2>1
<1>. HIDE DEF A, m, Step, none
<1>5. G \in [A \X (start .. m) -> A]
  BY <1>4
<1>6. PICK f : Repeats(f, A, none, start, m, G)
  <2>1. start \in Int
    OBVIOUS
  <2>. HIDE DEF G
  <2>. QED BY <1>2, <1>3, <1>5, <2>1, Recursion, Zenon
<1>7. f = Round(f)
  <2>1. ASSUME NEW k \in start - 1 .. m
        PROVE  f[k] = IF k < start THEN none ELSE Step(f[k - 1], k)
    <3>1. k >= start => f[k - 1] \in A /\ k \in start .. m
      BY <1>2, <1>6 DEF Repeats
    <3>2. f[k] = IF k < start THEN none ELSE G[<<f[k - 1], k>>]
      BY <1>6 DEF Repeats
    <3>. QED BY <1>2, <3>1, <3>2
  <2>2. f = [k \in start - 1 .. m |-> f[k]]
    BY <1>6 DEF Repeats
  <2>. QED BY <2>1, <2>2
<1>8. sol = Round(sol)
  <2>. HIDE DEF Round
  <2>. QED BY <1>7
<1>. HIDE DEF sol
<1>9. \A k \in start - 1 .. m : sol[k] \in A
  <2>1. sol[start - 1] \in A
    BY <1>2, <1>3, <1>8
  <2>2. \A k \in start .. m : sol[k - 1] \in A => sol[k] \in A
    BY <1>2, <1>4, <1>8
  <2>3. start \in Int
    OBVIOUS
  <2>. QED BY <1>2, <2>1, <2>2, <2>3, AllAlong, Zenon
<1>10. \A k \in start .. m : sol[k] \in {Shared(t, who, sol[k - 1], k), none, sol[k - 1]}
  BY <1>2, <1>4, <1>8, <1>9
<1>11. sol[start - 1] = none
  BY <1>2, <1>8
<1>12. StrictRun(sol, s, t, who, start, m)
  BY <1>1, <1>9, <1>10, <1>11 DEF StrictRun, A, none
<1>. QED BY <1>12 DEF m

LEMMA FillStrictIsFilling ==
    ASSUME NEW s, CapOK(s.cap), NEW t \in Tasks, NEW start \in Nat, PlanOK(plan),
           NEW who \in [DOMAIN plan.slots[t] -> Users]
    PROVE  FillStrict(s, t, who, start) \in Fillings(t, start)
<1>. DEFINE m == Max({Horizon, start - 1})
<1>1. PICK f : StrictRun(f, s, t, who, start, m)
  BY FillStrictRuns, Zenon
<1>2. m \in start - 1 .. m
  <2>1. m \in Int /\ m >= start - 1
    BY LastPlace
  <2>. HIDE DEF m
  <2>. QED BY <2>1
<1>. HIDE DEF m
<1>. QED BY <1>1, <1>2 DEF StrictRun

(* A run that is begun anew has given back what it took.                   *)
LEMMA FillStrictKeeps ==
    ASSUME NEW s, CapOK(s.cap), NEW t \in Tasks, NEW start \in Nat, PlanOK(plan),
           NEW who \in [DOMAIN plan.slots[t] -> Users]
    PROVE  Kept(FillStrict(s, t, who, start), s.cap)
<1>. DEFINE m == Max({Horizon, start - 1})
<1>1. PICK f : StrictRun(f, s, t, who, start, m)
  BY FillStrictRuns, Zenon
<1>2. m \in Int /\ m >= start - 1 /\ \A d \in start .. m : d \in Days /\ d >= start
  BY LastPlace
<1>. HIDE DEF m
<1>. DEFINE A == {k \in start - 1 .. m : Kept(f[k], s.cap) /\ \A h \in f[k].work : h.date <= k}
<1>3. Kept(NoneDone(s, t), s.cap) /\ \A h \in NoneDone(s, t).work : FALSE
  BY NoneDoneKeeps
<1>4. start - 1 \in A
  BY <1>1, <1>2, <1>3 DEF StrictRun
<1>5. ASSUME NEW k \in start .. m, k - 1 \in A PROVE k \in A
  <2>1. k \in Days /\ k >= start /\ k \in start - 1 .. m /\ k - 1 \in start - 1 .. m
    BY <1>2
  <2>2. /\ f[k - 1] \in Fillings(t, start)
        /\ f[k] \in {Shared(t, who, f[k - 1], k), NoneDone(s, t), f[k - 1]}
    BY <1>1, <2>1 DEF StrictRun
  <2>3. Kept(f[k - 1], s.cap) /\ \A h \in f[k - 1].work : h.date <= k - 1
    BY <1>5
  <2>4. \A h \in f[k - 1].work : h.date \in Nat
    BY <2>2, DaysAreNat DEF Fillings, Segment
  <2>5. \A h \in f[k - 1].work : h.date < k /\ h.date <= k
    BY <2>3, <2>4
  <2>6. CASE f[k] = Shared(t, who, f[k - 1], k)
    <3>1. /\ Kept(Shared(t, who, f[k - 1], k), s.cap)
          /\ \A h \in Shared(t, who, f[k - 1], k).work : h.date <= k
      BY <2>1, <2>2, <2>3, <2>5, SharedKeeps
    <3>. QED BY <2>1, <2>6, <3>1
  <2>7. CASE f[k] = NoneDone(s, t)
    BY <1>3, <2>1, <2>7
  <2>8. CASE f[k] = f[k - 1]
    BY <2>1, <2>3, <2>5, <2>8
  <2>. QED BY <2>2, <2>6, <2>7, <2>8
<1>6. m \in A
  <2>1. start \in Int /\ m \in start - 1 .. m
    BY <1>2
  <2>. HIDE DEF A
  <2>2. \A k \in start - 1 .. m : k \in A
    BY <1>2, <1>4, <1>5, <2>1, StepByStep, Zenon
  <2>. QED BY <2>1, <2>2
<1>. QED BY <1>1, <1>6 DEF StrictRun

(* A day is filled with whatever is there, one slot after the other.       *)
SlotRun(f, t, i, u, none, start, m) ==
    /\ \A k \in start - 1 .. m : f[k] \in Fillings(t, start)
    /\ f[start - 1] = none /\ f[m] = FillSlot(t, i, u, none, start)
    /\ \A k \in start .. m : Uses(f[k], f[k - 1], i, u, k)
LEMMA FillSlotRuns ==
    ASSUME NEW t \in Tasks, NEW start \in Nat, PlanOK(plan),
           NEW i \in DOMAIN plan.slots[t], NEW u \in Users,
           NEW none \in Fillings(t, start)
    PROVE  \E f : SlotRun(f, t, i, u, none, start, Max({Horizon, start - 1}))
<1>. DEFINE A == Fillings(t, start)
            m == Max({Horizon, start - 1})
            Step(a, d) == Use(a, i, u, d, Take(t, i, u, d, a.cap[u][d], a.left[i]))
            Round(f) == [k \in start - 1 .. m |-> IF k < start THEN none ELSE Step(f[k - 1], k)]
            sol == CHOOSE f : f = Round(f)
            G == [x \in A \X (start .. m) |-> Step(x[1], x[2])]
<1>1. FillSlot(t, i, u, none, start) = sol[m]
  BY DEF FillSlot, Through
<1>2. m \in Int /\ m >= start - 1 /\ \A d \in start .. m : d \in Days /\ d >= start
  BY LastPlace
<1>3. none \in A
  OBVIOUS
<1>4. ASSUME NEW a \in A, NEW d \in start .. m
      PROVE  Step(a, d) \in A /\ Uses(Step(a, d), a, i, u, d)
  <2>1. d \in Days /\ d >= start
    BY <1>2
  <2>2. a.left[i] \in Nat /\ a.cap[u][d] \in Nat
    BY <2>1 DEF Fillings
  <2>. DEFINE hours == Take(t, i, u, d, a.cap[u][d], a.left[i])
  <2>3. hours \in Nat /\ hours <= a.left[i] /\ hours <= a.cap[u][d]
    BY <2>1, <2>2, TakeIsLess
  <2>. HIDE DEF hours, m
  <2>4. Use(a, i, u, d, hours) \in A
    BY <2>1, <2>3, UseIsFilling
  <2>5. Uses(Use(a, i, u, d, hours), a, i, u, d)
    BY <2>3 DEF Uses
  <2>. QED BY <2>4, <2>5 DEF hours
<1>. HIDE DEF A, m, Step
<1>5. G \in [A \X (start .. m) -> A]
  BY <1>4
<1>6. PICK f : Repeats(f, A, none, start, m, G)
  <2>1. start \in Int
    OBVIOUS
  <2>. HIDE DEF G
  <2>. QED BY <1>2, <1>3, <1>5, <2>1, Recursion, Zenon
<1>7. f = Round(f)
  <2>1. ASSUME NEW k \in start - 1 .. m
        PROVE  f[k] = IF k < start THEN none ELSE Step(f[k - 1], k)
    <3>1. k >= start => f[k - 1] \in A /\ k \in start .. m
      BY <1>2, <1>6 DEF Repeats
    <3>2. f[k] = IF k < start THEN none ELSE G[<<f[k - 1], k>>]
      BY <1>6 DEF Repeats
    <3>. QED BY <1>2, <3>1, <3>2
  <2>2. f = [k \in start - 1 .. m |-> f[k]]
    BY <1>6 DEF Repeats
  <2>. QED BY <2>1, <2>2
<1>8. sol = Round(sol)
  <2>. HIDE DEF Round
  <2>. QED BY <1>7
<1>. HIDE DEF sol
<1>9. \A k \in start - 1 .. m : sol[k] \in A
  <2>1. sol[start - 1] \in A
    BY <1>2, <1>3, <1>8
  <2>2. \A k \in start .. m : sol[k - 1] \in A => sol[k] \in A
    BY <1>2, <1>4, <1>8
  <2>3. start \in Int
    OBVIOUS
  <2>. QED BY <1>2, <2>1, <2>2, <2>3, AllAlong, Zenon
<1>10. \A k \in start .. m : Uses(sol[k], sol[k - 1], i, u, k)
  BY <1>2, <1>4, <1>8, <1>9
<1>11. sol[start - 1] = none
  BY <1>2, <1>8
<1>. HIDE DEF Step
<1>12. SlotRun(sol, t, i, u, none, start, m)
  BY <1>1, <1>9, <1>10, <1>11 DEF SlotRun, A
<1>. QED BY <1>12 DEF m

LEMMA FillSlotIsFilling ==
    ASSUME NEW t \in Tasks, NEW start \in Nat, PlanOK(plan),
           NEW i \in DOMAIN plan.slots[t], NEW u \in Users,
           NEW none \in Fillings(t, start)
    PROVE  FillSlot(t, i, u, none, start) \in Fillings(t, start)
<1>. DEFINE m == Max({Horizon, start - 1})
<1>1. PICK f : SlotRun(f, t, i, u, none, start, m)
  BY FillSlotRuns, Zenon
<1>2. m \in start - 1 .. m
  <2>1. m \in Int /\ m >= start - 1
    BY LastPlace
  <2>. HIDE DEF m
  <2>. QED BY <2>1
<1>. HIDE DEF m
<1>. QED BY <1>1, <1>2 DEF SlotRun

(* The days of a slot are filled after those of the slots before it.       *)
LEMMA FillSlotKeeps ==
    ASSUME NEW t \in Tasks, NEW start \in Nat, PlanOK(plan),
           NEW i \in DOMAIN plan.slots[t], NEW u \in Users,
           NEW none \in Fillings(t, start),
           NEW cap, Kept(none, cap), \A h \in none.work : h.slot <= i - 1
    PROVE  /\ Kept(FillSlot(t, i, u, none, start), cap)
           /\ \A h \in FillSlot(t, i, u, none, start).work : h.slot <= i
<1>. DEFINE m == Max({Horizon, start - 1})
<1>1. PICK f : SlotRun(f, t, i, u, none, start, m)
  BY FillSlotRuns, Zenon
<1>2. m \in Int /\ m >= start - 1 /\ \A d \in start .. m : d \in Days /\ d >= start
  BY LastPlace
<1>3. i \in Nat
  BY SlotsAre
<1>. HIDE DEF m
<1>. DEFINE A == {k \in start - 1 .. m :
                    /\ Kept(f[k], cap)
                    /\ \A h \in f[k].work : h.slot <= i - 1 \/ (h.slot = i /\ h.date <= k)}
<1>4. start - 1 \in A
  BY <1>1, <1>2 DEF SlotRun
<1>5. ASSUME NEW k \in start .. m, k - 1 \in A PROVE k \in A
  <2>1. k \in Days /\ k >= start /\ k \in start - 1 .. m /\ k - 1 \in start - 1 .. m
    BY <1>2
  <2>2. f[k - 1] \in Fillings(t, start) /\ Uses(f[k], f[k - 1], i, u, k)
    BY <1>1, <2>1 DEF SlotRun
  <2>3. PICK hours \in Nat : /\ hours <= f[k - 1].left[i] /\ hours <= f[k - 1].cap[u][k]
                             /\ f[k] = Use(f[k - 1], i, u, k, hours)
    BY <2>2 DEF Uses
  <2>4. /\ Kept(f[k - 1], cap)
        /\ \A h \in f[k - 1].work : h.slot <= i - 1 \/ (h.slot = i /\ h.date <= k - 1)
    BY <1>5
  <2>5. f[k - 1].work \in SUBSET Segment
    BY <2>2 DEF Fillings
  <2>6. \A h \in f[k - 1].work : h.date \in Nat /\ h.slot \in Nat
    BY <2>5, DaysAreNat DEF Segment
  <2>7. \A h \in f[k - 1].work : ~ (h.slot = i /\ h.date = k)
    BY <1>3, <2>1, <2>4, <2>6
  <2>8. /\ Kept(f[k], cap)
        /\ \A h \in f[k].work : h \in f[k - 1].work \/ (h.slot = i /\ h.date = k)
    BY <2>1, <2>2, <2>3, <2>4, <2>7, UseKeeps
  <2>9. \A h \in f[k].work : h.slot <= i - 1 \/ (h.slot = i /\ h.date <= k)
    BY <2>1, <2>4, <2>6, <2>8
  <2>. QED BY <2>1, <2>8, <2>9
<1>6. m \in A
  <2>1. start \in Int /\ m \in start - 1 .. m
    BY <1>2
  <2>. HIDE DEF A
  <2>2. \A k \in start - 1 .. m : k \in A
    BY <1>2, <1>4, <1>5, <2>1, StepByStep, Zenon
  <2>. QED BY <2>1, <2>2
<1>7. f[m] = FillSlot(t, i, u, none, start) /\ f[m] \in Fillings(t, start)
  BY <1>1, <1>2 DEF SlotRun
<1>8. \A h \in f[m].work : h.slot \in Nat
  BY <1>7 DEF Fillings, Segment
<1>9. Kept(f[m], cap) /\ \A h \in f[m].work : h.slot <= i - 1 \/ (h.slot = i /\ h.date <= m)
  BY <1>6
<1>10. \A h \in f[m].work : h.slot <= i
  BY <1>3, <1>8, <1>9
<1>. QED BY <1>7, <1>9, <1>10

(* Slot by slot the days are filled with whatever is there.                *)
RelaxedRun(f, s, t, who, start) ==
    /\ \A k \in 0 .. Len(plan.slots[t]) : f[k] \in Fillings(t, start)
    /\ f[0] = NoneDone(s, t) /\ f[Len(plan.slots[t])] = FillRelaxed(s, t, who, start)
    /\ \A k \in 1 .. Len(plan.slots[t]) : f[k] = FillSlot(t, k, who[k], f[k - 1], start)
LEMMA FillRelaxedRuns ==
    ASSUME NEW s, CapOK(s.cap), NEW t \in Tasks, NEW start \in Nat, PlanOK(plan),
           NEW who \in [DOMAIN plan.slots[t] -> Users]
    PROVE  \E f : RelaxedRun(f, s, t, who, start)
<1>. DEFINE A == Fillings(t, start)
            none == NoneDone(s, t)
            L == Len(plan.slots[t])
            m == Max({L, 1 - 1})
            Step(a, i) == FillSlot(t, i, who[i], a, start)
            Round(f) == [k \in 1 - 1 .. m |-> IF k < 1 THEN none ELSE Step(f[k - 1], k)]
            sol == CHOOSE f : f = Round(f)
            G == [x \in A \X (1 .. m) |-> Step(x[1], x[2])]
<1>1. FillRelaxed(s, t, who, start) = sol[m]
  BY DEF FillRelaxed, Through
<1>2. m \in Int /\ m >= 1 - 1 /\ 1 .. m = DOMAIN plan.slots[t]
  <2>1. L \in Nat /\ DOMAIN plan.slots[t] = 1 .. L
    BY SlotsAre
  <2>. HIDE DEF L
  <2>2. m = L
    BY <2>1, MaxOfTwo
  <2>. QED BY <2>1, <2>2
<1>3. none \in A
  BY NoneDoneIsFilling
<1>4. ASSUME NEW a \in A, NEW i \in 1 .. m PROVE Step(a, i) \in A
  BY <1>2, FillSlotIsFilling
<1>. HIDE DEF A, m, Step, none
<1>5. G \in [A \X (1 .. m) -> A]
  BY <1>4
<1>6. PICK f : Repeats(f, A, none, 1, m, G)
  <2>1. 1 \in Int
    OBVIOUS
  <2>. HIDE DEF G
  <2>. QED BY <1>2, <1>3, <1>5, <2>1, Recursion, Zenon
<1>7. f = Round(f)
  <2>1. ASSUME NEW k \in 1 - 1 .. m
        PROVE  f[k] = IF k < 1 THEN none ELSE Step(f[k - 1], k)
    <3>1. k >= 1 => f[k - 1] \in A /\ k \in 1 .. m
      BY <1>2, <1>6 DEF Repeats
    <3>2. f[k] = IF k < 1 THEN none ELSE G[<<f[k - 1], k>>]
      BY <1>6 DEF Repeats
    <3>. QED BY <1>2, <3>1, <3>2
  <2>2. f = [k \in 1 - 1 .. m |-> f[k]]
    BY <1>6 DEF Repeats
  <2>. QED BY <2>1, <2>2
<1>8. sol = Round(sol)
  <2>. HIDE DEF Round
  <2>. QED BY <1>7
<1>. HIDE DEF sol
<1>9. \A k \in 1 - 1 .. m : sol[k] \in A
  <2>1. sol[1 - 1] \in A
    BY <1>2, <1>3, <1>8
  <2>2. \A k \in 1 .. m : sol[k - 1] \in A => sol[k] \in A
    BY <1>2, <1>4, <1>8
  <2>3. 1 \in Int
    OBVIOUS
  <2>. QED BY <1>2, <2>1, <2>2, <2>3, AllAlong, Zenon
<1>10. \A k \in 1 .. m : sol[k] = FillSlot(t, k, who[k], sol[k - 1], start)
  BY <1>2, <1>8 DEF Step
<1>11. sol[0] = none /\ \A k \in 0 .. m : sol[k] \in A
  BY <1>2, <1>8, <1>9
<1>12. m = L
  <2>1. L \in Nat
    BY SlotsAre
  <2>. HIDE DEF L
  <2>. QED BY <2>1, MaxOfTwo DEF m
<1>13. RelaxedRun(sol, s, t, who, start)
  BY <1>1, <1>10, <1>11, <1>12 DEF RelaxedRun, A, none
<1>. QED BY <1>13

LEMMA FillRelaxedIsFilling ==
    ASSUME NEW s, CapOK(s.cap), NEW t \in Tasks, NEW start \in Nat, PlanOK(plan),
           NEW who \in [DOMAIN plan.slots[t] -> Users]
    PROVE  FillRelaxed(s, t, who, start) \in Fillings(t, start)
<1>1. PICK f : RelaxedRun(f, s, t, who, start)
  BY FillRelaxedRuns, Zenon
<1>2. Len(plan.slots[t]) \in 0 .. Len(plan.slots[t])
  BY SlotsAre
<1>. QED BY <1>1, <1>2 DEF RelaxedRun

LEMMA FillRelaxedKeeps ==
    ASSUME NEW s, CapOK(s.cap), NEW t \in Tasks, NEW start \in Nat, PlanOK(plan),
           NEW who \in [DOMAIN plan.slots[t] -> Users]
    PROVE  Kept(FillRelaxed(s, t, who, start), s.cap)
<1>. DEFINE L == Len(plan.slots[t])
<1>1. PICK f : RelaxedRun(f, s, t, who, start)
  BY FillRelaxedRuns, Zenon
<1>2. L \in Nat /\ DOMAIN plan.slots[t] = 1 .. L
  BY SlotsAre
<1>. DEFINE A == {k \in 0 .. L : Kept(f[k], s.cap) /\ \A h \in f[k].work : h.slot <= k}
<1>3. 1 - 1 \in A
  <2>1. f[0] = NoneDone(s, t)
    BY <1>1 DEF RelaxedRun
  <2>2. Kept(f[0], s.cap) /\ f[0].work = {}
    BY <2>1, NoneDoneKeeps
  <2>. QED BY <1>2, <2>2
<1>4. ASSUME NEW k \in 1 .. L, k - 1 \in A PROVE k \in A
  <2>1. k \in DOMAIN plan.slots[t] /\ who[k] \in Users /\ k \in 0 .. L /\ k - 1 \in 0 .. L
    BY <1>2
  <2>2. f[k - 1] \in Fillings(t, start) /\ f[k] = FillSlot(t, k, who[k], f[k - 1], start)
    BY <1>1, <2>1 DEF RelaxedRun
  <2>3. Kept(f[k - 1], s.cap) /\ \A h \in f[k - 1].work : h.slot <= k - 1
    BY <1>4
  <2>4. Kept(f[k], s.cap) /\ \A h \in f[k].work : h.slot <= k
    BY <2>1, <2>2, <2>3, FillSlotKeeps
  <2>. QED BY <2>1, <2>4
<1>5. L \in A
  <2>1. 1 \in Int /\ L \in Int /\ L >= 1 - 1 /\ L \in 1 - 1 .. L
    BY <1>2
  <2>. HIDE DEF A, L
  <2>2. \A k \in 1 - 1 .. L : k \in A
    BY <1>3, <1>4, <2>1, StepByStep, Zenon
  <2>. QED BY <2>1, <2>2
<1>. QED BY <1>1, <1>5 DEF RelaxedRun

(* When the work would be done is a day.                                   *)
LEMMA SimulatedEndIsNat ==
    ASSUME NEW s, CapOK(s.cap), NEW t \in Tasks, NEW start \in Nat, PlanOK(plan),
           NEW i \in DOMAIN plan.slots[t], NEW u \in Users
    PROVE  SimulatedEnd(s, t, i, u, start) \in Nat
<1>. DEFINE A == [left : Nat, last : Nat]
            none == [left |-> TotalHours(t, i), last |-> start]
            m == Max({Horizon, start - 1})
            Step(a, d) == LET got == Take(t, i, u, d, s.cap[u][d], a.left)
                          IN IF got > 0 THEN [left |-> a.left - got, last |-> d] ELSE a
            Round(f) == [k \in start - 1 .. m |-> IF k < start THEN none ELSE Step(f[k - 1], k)]
            sol == CHOOSE f : f = Round(f)
            G == [x \in A \X (start .. m) |-> Step(x[1], x[2])]
<1>1. SimulatedEnd(s, t, i, u, start) = sol[m].last
  BY DEF SimulatedEnd, Through
<1>2. m \in Int /\ m >= start - 1 /\ \A d \in start .. m : d \in Days /\ d >= start
  BY LastPlace
<1>3. none \in A
  BY SlotsAre
<1>4. ASSUME NEW a \in A, NEW d \in start .. m PROVE Step(a, d) \in A
  <2>1. d \in Days /\ d \in Nat
    BY <1>2, DaysAreNat
  <2>2. a.left \in Nat /\ s.cap[u][d] \in Nat
    BY <2>1 DEF CapOK
  <2>. DEFINE got == Take(t, i, u, d, s.cap[u][d], a.left)
  <2>3. got \in Nat /\ got <= a.left
    BY <2>1, <2>2, TakeIsLess
  <2>. HIDE DEF got, m
  <2>4. (IF got > 0 THEN [left |-> a.left - got, last |-> d] ELSE a) \in A
    BY <2>1, <2>2, <2>3
  <2>. QED BY <2>4 DEF got
<1>. HIDE DEF A, m, Step, none
<1>5. G \in [A \X (start .. m) -> A]
  BY <1>4
<1>6. PICK f : Repeats(f, A, none, start, m, G)
  <2>1. start \in Int
    OBVIOUS
  <2>. HIDE DEF G
  <2>. QED BY <1>2, <1>3, <1>5, <2>1, Recursion, Zenon
<1>7. f = Round(f)
  <2>1. ASSUME NEW k \in start - 1 .. m
        PROVE  f[k] = IF k < start THEN none ELSE Step(f[k - 1], k)
    <3>1. k >= start => f[k - 1] \in A /\ k \in start .. m
      BY <1>2, <1>6 DEF Repeats
    <3>2. f[k] = IF k < start THEN none ELSE G[<<f[k - 1], k>>]
      BY <1>6 DEF Repeats
    <3>. QED BY <1>2, <3>1, <3>2
  <2>2. f = [k \in start - 1 .. m |-> f[k]]
    BY <1>6 DEF Repeats
  <2>. QED BY <2>1, <2>2
<1>8. sol = Round(sol)
  <2>. HIDE DEF Round
  <2>. QED BY <1>7
<1>. HIDE DEF sol
<1>9. \A k \in start - 1 .. m : sol[k] \in A
  <2>1. sol[start - 1] \in A
    BY <1>2, <1>3, <1>8
  <2>2. \A k \in start .. m : sol[k - 1] \in A => sol[k] \in A
    BY <1>2, <1>4, <1>8
  <2>3. start \in Int
    OBVIOUS
  <2>. QED BY <1>2, <2>1, <2>2, <2>3, AllAlong, Zenon
<1>. QED BY <1>1, <1>2, <1>9 DEF A

(* For each slot there is who does it.                                     *)
LEMMA SelectUserIsUser ==
    ASSUME NEW s, CapOK(s.cap), NEW t \in Tasks, NEW start \in Nat, PlanOK(plan),
           NEW i \in DOMAIN plan.slots[t]
    PROVE  SelectUser(s, t, i, start) \in Users
<1>. DEFINE who == plan.slots[t][i].who
            ends == {SimulatedEnd(s, t, i, u, start) : u \in who}
            best == {u \in who : \A v \in who : SimulatedEnd(s, t, i, u, start)
                                               <= SimulatedEnd(s, t, i, v, start)}
<1>1. who \in SUBSET Users /\ who # {}
  BY SlotsAre
<1>2. ends \in SUBSET Nat /\ ends # {}
  BY <1>1, SimulatedEndIsNat
<1>3. PICK e \in ends : \A k \in ends : e <= k
  <2>. HIDE DEF ends
  <2>. QED BY <1>2, LeastNumber
<1>4. best # {}
  BY <1>3
<1>5. best \in SUBSET Users /\ best \in SUBSET Nat
  BY <1>1, HoursAssumption
<1>6. Min(best) \in best
  <2>. HIDE DEF best
  <2>. QED BY <1>4, <1>5, MinIsLeast
<1>7. SelectUser(s, t, i, start) = Min(best)
  BY DEF SelectUser
<1>. QED BY <1>5, <1>6, <1>7

(* What is filled in for a task.                                           *)
LEMMA FillIsFilling ==
    ASSUME NEW s, CapOK(s.cap), NEW t \in Tasks, NEW start \in Nat, PlanOK(plan)
    PROVE  /\ Fill(s, t, [i \in DOMAIN plan.slots[t] |-> SelectUser(s, t, i, start)], start)
                 \in Fillings(t, start)
           /\ Kept(Fill(s, t, [i \in DOMAIN plan.slots[t] |-> SelectUser(s, t, i, start)], start),
                   s.cap)
<1>. DEFINE who == [i \in DOMAIN plan.slots[t] |-> SelectUser(s, t, i, start)]
<1>1. who \in [DOMAIN plan.slots[t] -> Users]
  BY SelectUserIsUser
<1>. HIDE DEF who
<1>2. Fill(s, t, who, start) \in Fillings(t, start)
  BY <1>1, FillRelaxedIsFilling, FillStrictIsFilling DEF Fill
<1>3. Kept(Fill(s, t, who, start), s.cap)
  BY <1>1, FillRelaxedKeeps, FillStrictKeeps DEF Fill
<1>. QED BY <1>2, <1>3 DEF who

(* One more entry.                                                         *)
LEMMA WithIs ==
    ASSUME NEW f, NEW x, NEW v
    PROVE  /\ DOMAIN With(f, x, v) = DOMAIN f \cup {x} /\ With(f, x, v)[x] = v
           /\ \A y \in DOMAIN f \ {x} : With(f, x, v)[y] = f[y]
BY DEF With

(* A node that comes late is noted with a day.                             *)
LEMMA LateIsOK ==
    ASSUME NEW s, AllocsOK(s), NEW n \in Nodes, NEW day \in Nat
    PROVE  DOMAIN Late(s, n, day) \subseteq Nodes
           /\ \A m \in DOMAIN Late(s, n, day) : Late(s, n, day)[m] \in Nat
<1>1. DOMAIN s.late \subseteq Nodes /\ \A m \in DOMAIN s.late : s.late[m] \in Nat
  BY DEF AllocsOK, AllocationsOK
<1>2. DOMAIN With(s.late, n, day) \subseteq Nodes
      /\ \A m \in DOMAIN With(s.late, n, day) : With(s.late, n, day)[m] \in Nat
  BY <1>1 DEF With
<1>. QED BY <1>1, <1>2 DEF Late

(* The allocation a task gets.                                             *)
LEMMA PlacedKeeps ==
    ASSUME ReadsOK, NEW s, StateOK(s), NEW t \in Tasks, NEW start \in Nat,
           NEW filled \in Fillings(t, start)
    PROVE  LET r == Placed(s, t, start, filled)
           IN  /\ StateOK(r) /\ r.milestones = s.milestones /\ r.cap = filled.cap
               /\ DOMAIN r.tasks = DOMAIN s.tasks \cup {t}
               /\ \A x \in DOMAIN s.tasks \ {t} : r.tasks[x] = s.tasks[x]
               /\ r.tasks[t].status = IF InProgress(t) THEN "InProgress" ELSE "NotStarted"
               /\ r.tasks[t].kind = "Dynamic" /\ r.tasks[t].work = filled.work
               /\ r.tasks[t].start >= start
<1>. DEFINE work == filled.work
            on == {g.date : g \in work}
            first == IF on = {} THEN start ELSE Min(on)
            last == IF plan.duration[t] > 0 THEN AdvanceWorkingDays(start, plan.duration[t])
                                            ELSE start
            ends == {last} \cup on \cup (IF InProgress(t) THEN {today} ELSE {})
            a == [status |-> IF InProgress(t) THEN "InProgress" ELSE "NotStarted",
                  kind |-> "Dynamic", start |-> first, end |-> Max(ends),
                  corrected |-> NoDay, work |-> work]
            r == Placed(s, t, start, filled)
<1>1. /\ work \in SUBSET Segment /\ IsFiniteSet(work) /\ \A g \in work : g.date >= start
      /\ filled.cap \in [Users -> [Days -> Nat]]
  BY DEF Fillings
<1>2. /\ on \in SUBSET Days /\ \A d \in on : d >= start
  BY <1>1 DEF Segment
<1>3. on \in SUBSET Nat /\ IsFiniteSet(on)
  <2>. HIDE DEF on
  <2>. QED BY <1>2, DaysAreNat, FS_Subset
<1>4. first \in Nat /\ first >= start
  <2>. HIDE DEF on
  <2>1. on # {} => Min(on) \in on
    BY <1>3, MinIsLeast
  <2>2. CASE on = {}
    BY <2>2
  <2>3. CASE on # {}
    <3>1. Min(on) \in Nat /\ Min(on) >= start
      BY <1>2, <1>3, <2>1, <2>3
    <3>2. first = Min(on)
      BY <2>3
    <3>. QED BY <3>1, <3>2
  <2>. QED BY <2>2, <2>3
<1>5. last \in Nat /\ today \in Nat
  BY AdvanceIsNat, DaysAreNat DEF ReadsOK, PlanOK
<1>6. Max(ends) \in Nat
  <2>. HIDE DEF on, last
  <2>1. IsFiniteSet({last} \cup on) /\ IsFiniteSet(IF InProgress(t) THEN {today} ELSE {})
    BY <1>3, FS_Singleton, FS_Union, FS_EmptySet
  <2>2. IsFiniteSet(ends)
    BY <2>1, FS_Union
  <2>3. ends \in SUBSET Nat /\ ends # {}
    BY <1>3, <1>5
  <2>. HIDE DEF ends
  <2>4. ends \in SUBSET Int
    BY <2>3
  <2>5. Max(ends) \in ends
    BY <2>2, <2>3, <2>4, MaxIsGreatest
  <2>. QED BY <2>3, <2>5
<1>7. r = [s EXCEPT !.cap = filled.cap, !.late = Late(s, t, first), !.tasks = With(@, t, a)]
  BY DEF Placed
<1>. HIDE DEF first, ends, on
<1>8. a \in Allocation
  BY <1>1, <1>4, <1>6 DEF Allocation, Status
<1>9. a.status = (IF InProgress(t) THEN "InProgress" ELSE "NotStarted")
      /\ a.kind = "Dynamic" /\ a.start = first /\ a.work = work
  OBVIOUS
<1>. HIDE DEF a, r, work
<1>10. r = [tasks |-> With(s.tasks, t, a), milestones |-> s.milestones,
            late |-> Late(s, t, first), cap |-> filled.cap]
  BY <1>7 DEF StateOK
<1>11. AllocsOK(r)
  <2>1. AllocsOK(s) /\ t \in Nodes
    BY DEF StateOK, Nodes
  <2>2. DOMAIN Late(s, t, first) \subseteq Nodes
        /\ \A m \in DOMAIN Late(s, t, first) : Late(s, t, first)[m] \in Nat
    BY <1>4, <2>1, LateIsOK
  <2>3. DOMAIN With(s.tasks, t, a) \subseteq Tasks
        /\ \A x \in DOMAIN With(s.tasks, t, a) :
              With(s.tasks, t, a)[x] \in Allocation /\ IsFiniteSet(With(s.tasks, t, a)[x].work)
    <3>1. /\ DOMAIN s.tasks \subseteq Tasks
          /\ \A x \in DOMAIN s.tasks : s.tasks[x] \in Allocation /\ IsFiniteSet(s.tasks[x].work)
      BY <2>1 DEF AllocsOK, AllocationsOK
    <3>2. a \in Allocation /\ IsFiniteSet(a.work)
      BY <1>1, <1>8, <1>9 DEF work
    <3>. QED BY <3>1, <3>2 DEF With
  <2>. QED BY <1>10, <2>1, <2>2, <2>3 DEF AllocsOK, AllocationsOK
<1>12. StateOK(r)
  BY <1>1, <1>10, <1>11 DEF StateOK, CapOK
<1>13. /\ DOMAIN r.tasks = DOMAIN s.tasks \cup {t} /\ r.tasks[t] = a
       /\ \A x \in DOMAIN s.tasks \ {t} : r.tasks[x] = s.tasks[x]
       /\ r.milestones = s.milestones /\ r.cap = filled.cap
  BY <1>10 DEF With
<1>. QED BY <1>4, <1>9, <1>12, <1>13 DEF r, work

-----------------------------------------------------------------------------
(* What may be inserted next.                                              *)

(* All nodes that a node depends on directly.                              *)
DepsOf(n) == DOMAIN plan.deps[n] \ {PlanStart}
(* A set of nodes with all they depend on.                                 *)
Closed(C) == C \subseteq Nodes /\ \A n \in C : DepsOf(n) \subseteq C

(* Where nothing depends on itself, there is a node in every set nothing   *)
(* in the set depends on.                                                  *)
LEMMA Outermost ==
    ASSUME Acyclic(plan), NEW U \in SUBSET Nodes, U # {}
    PROVE  \E n \in U : \A m \in U : n \notin DOMAIN plan.deps[m]
<1>. DEFINE W == {R \in SUBSET Nodes : R # {} /\ \A n \in R : \E m \in R : n \in DOMAIN plan.deps[m]}
<1>. SUFFICES ASSUME W # {} PROVE FALSE
  OBVIOUS
<1>1. PICK R \in W : \A x \in R : R \ {x} \notin W
  <2>1. W \in SUBSET (SUBSET Nodes)
    OBVIOUS
  <2>. HIDE DEF W
  <2>. QED BY <2>1, NodesAssumption, SmallestSet
<1>2. PICK x \in R : DOMAIN plan.deps[x] \cap R = {}
  BY DEF Acyclic
<1>3. PICK y \in R : x \in DOMAIN plan.deps[y]
  OBVIOUS
<1>4. R \ {x} # {} /\ R \ {x} \in SUBSET Nodes /\ R \ {x} \notin W
  BY <1>1, <1>2, <1>3
<1>5. PICK z \in R \ {x} : \A m \in R \ {x} : z \notin DOMAIN plan.deps[m]
  BY <1>4
<1>6. \A m \in R : z \notin DOMAIN plan.deps[m]
  BY <1>2, <1>5
<1>. QED BY <1>6

(* The duration of a task.                                                 *)
LEMMA DurationIsNat == ASSUME PlanOK(plan), NEW t \in Tasks PROVE Duration(t) \in Nat
<1>. DEFINE S == DOMAIN plan.slots[t]
            f == [i \in S |-> plan.slots[t][i].days]
            longest == Max({0} \cup {plan.slots[t][i].days : i \in S})
<1>1. IsFiniteSet(S) /\ f \in [S -> Int]
  <2>1. IsFiniteSet(1 .. Len(plan.slots[t])) /\ S = 1 .. Len(plan.slots[t])
    BY SlotsAre, FS_Interval
  <2>2. \A i \in S : plan.slots[t][i].days \in Int
    BY SlotsAre
  <2>. QED BY <2>1, <2>2
<1>2. longest \in Nat
  <2>1. {f[i] : i \in S} = {plan.slots[t][i].days : i \in S}
    OBVIOUS
  <2>2. IsFiniteSet({0}) /\ {0} \in SUBSET Int /\ {0} # {}
    BY FS_Singleton, SMTT(30)
  <2>. HIDE DEF f, S
  <2>3. Max({0} \cup {f[i] : i \in S}) \in Int /\ \A d \in {0} : d <= Max({0} \cup {f[i] : i \in S})
    BY <1>1, <2>2, MaxOf
  <2>4. longest \in Int /\ 0 <= longest
    BY <2>1, <2>3
  <2>. HIDE DEF longest
  <2>. QED BY <2>4
<1>3. plan.duration[t] \in Nat
  BY DEF PlanOK
<1>. HIDE DEF longest
<1>4. Duration(t) = IF plan.duration[t] > 0 THEN plan.duration[t] ELSE 2 * longest
  BY DEF Duration, longest
<1>. QED BY <1>2, <1>3, <1>4

(* The length of the way from a node through those that depend on it.      *)
Way(over, crit, n) ==
    (IF n \in Tasks THEN Duration(n) ELSE 0)
    + Max({0} \cup {Max({0, plan.deps[m][n]}) + crit[m] :
                      m \in {m \in over : n \in DOMAIN plan.deps[m]}})

(* It is a number and not less than that from any of them.                 *)
LEMMA WayIsLonger ==
    ASSUME PlanOK(plan), NEW over \in SUBSET Nodes, NEW n \in Nodes, NEW crit,
           \A m \in over : n \in DOMAIN plan.deps[m] => crit[m] \in Nat
    PROVE  /\ Way(over, crit, n) \in Nat
           /\ \A m \in over : n \in DOMAIN plan.deps[m] => Way(over, crit, n) >= crit[m]
<1>. DEFINE S == {m \in over : n \in DOMAIN plan.deps[m]}
            f == [m \in S |-> Max({0, plan.deps[m][n]}) + crit[m]]
            longest == Max({0} \cup {f[m] : m \in S})
            own == IF n \in Tasks THEN Duration(n) ELSE 0
<1>1. ASSUME NEW m \in S PROVE f[m] \in Int /\ f[m] >= crit[m] /\ crit[m] \in Nat
  <2>1. plan.deps[m][n] \in Int /\ crit[m] \in Nat
    BY DEF PlanOK
  <2>2. Max({0, plan.deps[m][n]}) \in Int /\ Max({0, plan.deps[m][n]}) >= 0
    BY <2>1, MaxOfTwo
  <2>. QED BY <2>1, <2>2
<1>2. IsFiniteSet(S) /\ f \in [S -> Int]
  <2>1. IsFiniteSet(S)
    BY NodesAssumption, FS_Subset
  <2>. QED BY <1>1, <2>1
<1>3. own \in Nat
  BY DurationIsNat
<1>4. Way(over, crit, n) = own + longest
  <2>1. {f[m] : m \in S} = {Max({0, plan.deps[m][n]}) + crit[m] : m \in S}
    OBVIOUS
  <2>. HIDE DEF f, own
  <2>. QED BY <2>1 DEF Way, own
<1>5. longest \in Int /\ longest >= 0 /\ \A m \in S : f[m] <= longest
  <2>. HIDE DEF f, S
  <2>1. IsFiniteSet({0}) /\ {0} \in SUBSET Int /\ {0} # {}
    <3>1. IsFiniteSet({0})
      BY FS_Singleton, Zenon
    <3>. QED BY <3>1
  <2>2. /\ longest \in Int /\ \A d \in {0} : d <= longest
        /\ \A m \in S : f[m] <= longest
    BY <1>2, <2>1, MaxOf
  <2>. QED BY <2>2
<1>6. ASSUME NEW m \in S PROVE own + longest >= crit[m]
  <2>. HIDE DEF own, longest, f, S
  <2>. QED BY <1>1, <1>3, <1>5
<1>7. own + longest \in Nat
  <2>. HIDE DEF own, longest, f, S
  <2>. QED BY <1>3, <1>5
<1>. QED BY <1>4, <1>6, <1>7

(* So it grows from a node to what it depends on.                          *)
LEMMA CritGrows ==
    ASSUME PlanOK(plan), Acyclic(plan), NEW over \in SUBSET Nodes
    PROVE  LET crit == CritRemaining(over)
           IN  /\ \A n \in over : crit[n] \in Nat
               /\ \A n, m \in over : n \in DOMAIN plan.deps[m] => crit[n] >= crit[m]
<1>. DEFINE Round(c) == [n \in over |-> Way(over, c, n)]
            crit == CHOOSE c : c = Round(c)
            Upper(U) == U \subseteq over /\ \A n \in U, m \in over :
                            n \in DOMAIN plan.deps[m] => m \in U
            Sol(c, U) == DOMAIN c = U /\ \A n \in U : c[n] = Way(over, c, n)
            W == {R \in SUBSET over : Upper(over \ R) /\ \E c : Sol(c, over \ R)}
<1>1. CritRemaining(over) = crit
  BY DEF CritRemaining, Way
<1>2. over \in W
  <2>1. Sol([n \in {} |-> 0], {}) /\ over \ over = {}
    OBVIOUS
  <2>2. Upper(over \ over)
    OBVIOUS
  <2>. HIDE DEF Sol, Upper
  <2>. QED BY <2>1, <2>2
<1>3. PICK R \in W : \A x \in R : R \ {x} \notin W
  <2>1. W \in SUBSET (SUBSET over) /\ IsFiniteSet(over) /\ W # {}
    BY <1>2, NodesAssumption, FS_Subset
  <2>. HIDE DEF W
  <2>. QED BY <2>1, SmallestSet
<1>4. R = {}
  <2>. SUFFICES ASSUME R # {} PROVE FALSE
    OBVIOUS
  <2>. DEFINE U == over \ R
  <2>1. PICK c : Sol(c, U)
    <3>. HIDE DEF Sol, Upper
    <3>. QED OBVIOUS
  <2>2. PICK x \in R : \A m \in R : x \notin DOMAIN plan.deps[m]
    BY Outermost
  <2>. DEFINE e == [n \in U \cup {x} |-> IF n = x THEN Way(over, c, x) ELSE c[n]]
  <2>3. Upper(U)
    <3>. HIDE DEF Sol, Upper
    <3>. QED OBVIOUS
  <2>4. Upper(U \cup {x})
    BY <2>2, <2>3
  <2>5. ASSUME NEW n \in U \cup {x}
        PROVE  Way(over, e, n) = Way(over, c, n)
    <3>1. ASSUME NEW m \in over, n \in DOMAIN plan.deps[m] PROVE e[m] = c[m]
      BY <2>2, <2>3, <3>1
    <3>2. {Max({0, plan.deps[m][n]}) + e[m] : m \in {m \in over : n \in DOMAIN plan.deps[m]}}
          = {Max({0, plan.deps[m][n]}) + c[m] : m \in {m \in over : n \in DOMAIN plan.deps[m]}}
      <4>. HIDE DEF e
      <4>. QED BY <3>1
    <3>. HIDE DEF e
    <3>. QED BY <3>2 DEF Way
  <2>6. Sol(e, U \cup {x})
    <3>1. ASSUME NEW n \in U \cup {x} PROVE e[n] = Way(over, e, n)
      <4>1. n # x => c[n] = Way(over, c, n)
        BY <2>1
      <4>. QED BY <2>5, <4>1
    <3>2. DOMAIN e = U \cup {x}
      OBVIOUS
    <3>. HIDE DEF e
    <3>. QED BY <3>1, <3>2
  <2>7. over \ (R \ {x}) = U \cup {x} /\ R \ {x} \in SUBSET over
    OBVIOUS
  <2>8. R \ {x} \in W
    <3>. HIDE DEF Sol, Upper, U, e
    <3>. QED BY <2>4, <2>6, <2>7
  <2>. QED BY <1>3, <2>8
<1>5. PICK c : Sol(c, over)
  <2>1. over \ {} = over /\ {} \in W
    BY <1>3, <1>4
  <2>. HIDE DEF Sol, Upper
  <2>. QED BY <2>1
<1>6. Round(c) = Round([n \in over |-> c[n]])
  <2>1. ASSUME NEW n \in over
        PROVE  Way(over, c, n) = Way(over, [k \in over |-> c[k]], n)
    <3>. DEFINE e == [k \in over |-> c[k]]
    <3>1. \A m \in over : e[m] = c[m]
      OBVIOUS
    <3>. HIDE DEF e
    <3>2. {Max({0, plan.deps[m][n]}) + e[m] : m \in {m \in over : n \in DOMAIN plan.deps[m]}}
          = {Max({0, plan.deps[m][n]}) + c[m] : m \in {m \in over : n \in DOMAIN plan.deps[m]}}
      BY <3>1
    <3>3. Way(over, c, n) = Way(over, e, n)
      BY <3>2 DEF Way
    <3>. QED BY <3>3 DEF e
  <2>. QED BY <2>1
<1>7. crit = Round(crit)
  <2>. DEFINE e == [n \in over |-> c[n]]
  <2>1. e = Round(c)
    BY <1>5
  <2>2. e = Round(e)
    <3>. HIDE DEF Round
    <3>. QED BY <1>6, <2>1
  <2>. HIDE DEF Round, e
  <2>. QED BY <2>2
<1>. HIDE DEF crit
<1>8. \A n \in over : crit[n] = Way(over, crit, n)
  BY <1>7
<1>9. \A n \in over : crit[n] \in Nat
  <2>. DEFINE B == {n \in over : crit[n] \notin Nat}
  <2>. SUFFICES ASSUME B # {} PROVE FALSE
    OBVIOUS
  <2>1. PICK n \in B : \A m \in B : n \notin DOMAIN plan.deps[m]
    <3>1. B \in SUBSET Nodes
      OBVIOUS
    <3>. HIDE DEF B
    <3>. QED BY <3>1, Outermost
  <2>2. n \in over /\ n \in Nodes /\ \A m \in over : n \in DOMAIN plan.deps[m] => crit[m] \in Nat
    BY <2>1
  <2>3. Way(over, crit, n) \in Nat
    BY <2>2, WayIsLonger
  <2>. QED BY <1>8, <2>2, <2>3
<1>10. ASSUME NEW n \in over, NEW m \in over, n \in DOMAIN plan.deps[m]
       PROVE  crit[n] >= crit[m]
  <2>1. Way(over, crit, n) >= crit[m]
    BY <1>9, <1>10, WayIsLonger
  <2>. QED BY <1>8, <2>1
<1>. QED BY <1>1, <1>9, <1>10

(* The node and all it leads to are closed.                                *)
LEMMA UpToIsClosed ==
    ASSUME PlanOK(plan), NEW n \in Nodes
    PROVE  Closed(UpTo(n)) /\ n \in UpTo(n)
<1>1. \A m \in Nodes : DepsOf(m) \subseteq Nodes
  BY DEF PlanOK, DepsOf
<1>2. n \in UpTo(n) /\ UpTo(n) \subseteq Nodes
  BY DEF UpTo
<1>3. ASSUME NEW m \in UpTo(n), NEW d \in DepsOf(m) PROVE d \in UpTo(n)
  <2>1. d \in Nodes
    BY <1>1, <1>2
  <2>2. ASSUME NEW S \in SUBSET Nodes, n \in S,
               \A x \in S : DOMAIN plan.deps[x] \ {PlanStart} \subseteq S
        PROVE  d \in S
    BY <1>3, <2>2 DEF UpTo, DepsOf
  <2>. QED BY <2>1, <2>2 DEF UpTo
<1>. QED BY <1>2, <1>3 DEF Closed

(* Among nodes that are closed, the next one has all it depends on before  *)
(* it.                                                                     *)
LEMMA NextHasItsDeps ==
    ASSUME PlanOK(plan), Acyclic(plan), NEW list, list.nodes = list.over, Closed(list.over),
           NEW s, NEW n \in NextOf(list, s)
    PROVE  DepsOf(n) \subseteq Inserted(s)
<1>. DEFINE crit == CritRemaining(list.over)
            left == list.nodes \ Inserted(s)
<1>1. n \in left /\ \A m \in left \cap (UpTo(n) \ {n}) : crit[m] < crit[n]
  BY DEF NextOf
<1>2. list.over \in SUBSET Nodes
  BY DEF Closed
<1>3. /\ \A k \in list.over : crit[k] \in Nat
      /\ \A k, m \in list.over : k \in DOMAIN plan.deps[m] => crit[k] >= crit[m]
  BY <1>2, CritGrows
<1>. HIDE DEF crit
<1>4. ASSUME NEW d \in DepsOf(n), d \notin Inserted(s) PROVE FALSE
  <2>1. d \in list.over /\ n \in list.over /\ d \in left
    BY <1>1, <1>4 DEF Closed
  <2>2. d \in UpTo(n)
    BY <1>2, <2>1, UpToIsClosed DEF Closed
  <2>3. d # n
    <3>1. \E x \in {n} : DOMAIN plan.deps[x] \cap {n} = {}
      BY <1>2, <2>1 DEF Acyclic
    <3>. QED BY <3>1 DEF DepsOf
  <2>4. d \in DOMAIN plan.deps[n]
    BY DEF DepsOf
  <2>5. crit[d] < crit[n]
    BY <1>1, <2>1, <2>2, <2>3
  <2>. QED BY <1>3, <2>1, <2>4, <2>5
<1>. QED BY <1>4

-----------------------------------------------------------------------------
(* Inserting a node.                                                       *)

(* The allocation of x is the same in two states.                          *)
SameAt(s, r, x) ==
    /\ x \in DOMAIN s.tasks <=> x \in DOMAIN r.tasks
    /\ x \in DOMAIN s.milestones <=> x \in DOMAIN r.milestones
    /\ x \in DOMAIN s.tasks => r.tasks[x] = s.tasks[x]
    /\ x \in DOMAIN s.milestones => r.milestones[x] = s.milestones[x]

(* Then it allows the same.                                                *)
LEMMA SameAllowed ==
    ASSUME NEW s, NEW r, NEW n, NEW d, d # PlanStart, SameAt(s, r, d)
    PROVE  Allows(r, n, d) = Allows(s, n, d)
BY DEF Allows, SameAt

(* A task is inserted where its dependencies allow, or where it started;   *)
(* everything else stays where it is.                                      *)
LEMMA InsertTaskKeeps ==
    ASSUME ReadsOK, NEW s, StateOK(s), NEW t \in Tasks
    PROVE  LET r == InsertTask(s, t)
           IN  /\ StateOK(r) /\ r.milestones = s.milestones
               /\ DOMAIN r.tasks = DOMAIN s.tasks \cup {t}
               /\ \A x \in DOMAIN s.tasks \ {t} : r.tasks[x] = s.tasks[x]
               /\ r.tasks[t].status = IF InProgress(t) THEN "InProgress" ELSE "NotStarted"
               /\ r.tasks[t].start >= EarliestStart(s, t)
               /\ \A u \in Users, d \in Days :
                     r.cap[u][d] + Spent(r.tasks[t].work, u, d) = s.cap[u][d]
<1>. DEFINE start == Wanted(s, t)
            filled == Fill(s, t, [i \in DOMAIN plan.slots[t] |-> SelectUser(s, t, i, start)], start)
            r == InsertTask(s, t)
<1>1. r = Placed(s, t, start, filled)
  BY DEF InsertTask, InsertFrom
<1>2. /\ start \in Nat /\ start >= EarliestStart(s, t) /\ EarliestStart(s, t) \in Nat
  BY WantedIsLater, EarliestStartIsLater DEF StateOK, Nodes
<1>3. filled \in Fillings(t, start) /\ Kept(filled, s.cap)
  <2>. HIDE DEF start
  <2>. QED BY <1>2, FillIsFilling DEF StateOK, ReadsOK
<1>. HIDE DEF start, filled, r
<1>4. /\ StateOK(r) /\ r.milestones = s.milestones
      /\ DOMAIN r.tasks = DOMAIN s.tasks \cup {t}
      /\ \A x \in DOMAIN s.tasks \ {t} : r.tasks[x] = s.tasks[x]
      /\ r.tasks[t].status = IF InProgress(t) THEN "InProgress" ELSE "NotStarted"
      /\ r.tasks[t].start >= start /\ r.cap = filled.cap /\ r.tasks[t].work = filled.work
  BY <1>1, <1>2, <1>3, PlacedKeeps
<1>5. r.tasks[t].start \in Nat
  BY <1>4 DEF StateOK, AllocsOK, AllocationsOK, Allocation
<1>6. r.tasks[t].start >= EarliestStart(s, t)
  BY <1>2, <1>4, <1>5
<1>7. \A u \in Users, d \in Days : r.cap[u][d] + Spent(r.tasks[t].work, u, d) = s.cap[u][d]
  BY <1>3, <1>4 DEF Kept
<1>. QED BY <1>4, <1>6, <1>7 DEF r

(* So is a milestone.                                                      *)
LEMMA InsertMilestoneKeeps ==
    ASSUME ReadsOK, NEW s, StateOK(s), NEW m \in Milestones
    PROVE  LET r == InsertMilestone(s, m)
           IN  /\ StateOK(r) /\ r.tasks = s.tasks
               /\ DOMAIN r.milestones = DOMAIN s.milestones \cup {m}
               /\ \A x \in DOMAIN s.milestones \ {m} : r.milestones[x] = s.milestones[x]
               /\ r.milestones[m].date >= EarliestStart(s, m) /\ r.cap = s.cap
<1>. DEFINE day == Wanted(s, m)
            v == [date |-> day, status |-> DerivedStatus(s, m)]
            r == InsertMilestone(s, m)
<1>1. /\ day \in Nat /\ day >= EarliestStart(s, m) /\ m \in Nodes
  BY WantedIsLater DEF StateOK, Nodes
<1>2. r = [s EXCEPT !.late = Late(s, m, day), !.milestones = With(@, m, v)]
  BY DEF InsertMilestone
<1>. HIDE DEF day
<1>3. v \in Marker /\ v.date = day
  BY <1>1 DEF Marker, DerivedStatus, Status
<1>. HIDE DEF v, r
<1>4. r = [tasks |-> s.tasks, milestones |-> With(s.milestones, m, v),
           late |-> Late(s, m, day), cap |-> s.cap]
  BY <1>2 DEF StateOK
<1>5. AllocsOK(s)
  BY DEF StateOK
<1>6. DOMAIN Late(s, m, day) \subseteq Nodes
      /\ \A x \in DOMAIN Late(s, m, day) : Late(s, m, day)[x] \in Nat
  BY <1>1, <1>5, LateIsOK
<1>7. DOMAIN With(s.milestones, m, v) \subseteq Milestones
      /\ \A x \in DOMAIN With(s.milestones, m, v) : With(s.milestones, m, v)[x] \in Marker
  <2>1. DOMAIN s.milestones \subseteq Milestones
        /\ \A x \in DOMAIN s.milestones : s.milestones[x] \in Marker
    BY <1>5 DEF AllocsOK, AllocationsOK
  <2>. QED BY <1>3, <2>1 DEF With
<1>8. StateOK(r)
  BY <1>4, <1>5, <1>6, <1>7 DEF StateOK, AllocsOK, AllocationsOK
<1>9. /\ DOMAIN r.milestones = DOMAIN s.milestones \cup {m} /\ r.milestones[m] = v
      /\ \A x \in DOMAIN s.milestones \ {m} : r.milestones[x] = s.milestones[x]
      /\ r.tasks = s.tasks /\ r.cap = s.cap
  BY <1>4 DEF With
<1>. QED BY <1>1, <1>3, <1>8, <1>9 DEF r

(* Tasks and milestones are told apart.                                    *)
LEMMA Apart ==
    ASSUME NEW s, AllocsOK(s)
    PROVE  /\ \A t \in Tasks : t \notin DOMAIN s.milestones /\ t # PlanStart
           /\ \A m \in Milestones : m \notin DOMAIN s.tasks /\ m # PlanStart
BY NodesAssumption DEF AllocsOK, AllocationsOK, Nodes

(* Inserting a node that is not in progress.                               *)
LEMMA InsertKeeps ==
    ASSUME ReadsOK, NEW s, StateOK(s), NEW n \in Nodes
    PROVE  LET r == Insert(s, n)
           IN  /\ StateOK(r) /\ Inserted(r) = Inserted(s) \cup {n}
               /\ \A x : x # n => SameAt(s, r, x)
               /\ n \in Tasks => r.tasks[n].status = IF InProgress(n) THEN "InProgress"
                                                     ELSE "NotStarted"
               /\ n \in Tasks => n \in DOMAIN r.tasks
               /\ n \in Milestones => n \in DOMAIN r.milestones
               /\ ~ InProgress(n) => \A d \in DOMAIN plan.deps[n] : StartOf(r, n) >= Allows(s, n, d)
               /\ n \in Milestones => r.tasks = s.tasks /\ r.cap = s.cap
               /\ n \in Tasks => \A u \in Users, d \in Days :
                                   r.cap[u][d] + Spent(r.tasks[n].work, u, d) = s.cap[u][d]
<1>. DEFINE r == Insert(s, n)
<1>1. AllocsOK(s)
  BY DEF StateOK
<1>2. /\ EarliestStart(s, n) \in Nat
      /\ ~ InProgress(n) => \A d \in DOMAIN plan.deps[n] : EarliestStart(s, n) >= Allows(s, n, d)
  BY <1>1, EarliestStartIsLater
<1>3. CASE n \in Tasks
  <2>1. r = InsertTask(s, n)
    BY <1>3 DEF Insert
  <2>. HIDE DEF r
  <2>2. /\ StateOK(r) /\ r.milestones = s.milestones
        /\ DOMAIN r.tasks = DOMAIN s.tasks \cup {n}
        /\ \A x \in DOMAIN s.tasks \ {n} : r.tasks[x] = s.tasks[x]
        /\ r.tasks[n].status = IF InProgress(n) THEN "InProgress" ELSE "NotStarted"
        /\ r.tasks[n].start >= EarliestStart(s, n)
        /\ \A u \in Users, d \in Days : r.cap[u][d] + Spent(r.tasks[n].work, u, d) = s.cap[u][d]
    BY <1>3, <2>1, InsertTaskKeeps
  <2>3. r.tasks[n].start \in Nat
    BY <2>2 DEF StateOK, AllocsOK, AllocationsOK, Allocation
  <2>4. ~ InProgress(n) => \A d \in DOMAIN plan.deps[n] : StartOf(r, n) >= Allows(s, n, d)
    BY <1>1, <1>2, <1>3, <2>2, <2>3, AllowsIsInt DEF StartOf
  <2>5. \A x : x # n => SameAt(s, r, x)
    BY <2>2 DEF SameAt
  <2>6. n \notin Milestones
    BY <1>3, NodesAssumption
  <2>. QED BY <1>3, <2>2, <2>4, <2>5, <2>6 DEF r, Inserted
<1>4. CASE n \notin Tasks
  <2>1. r = InsertMilestone(s, n) /\ n \in Milestones
    BY <1>4 DEF Insert, Nodes
  <2>. HIDE DEF r
  <2>2. /\ StateOK(r) /\ r.tasks = s.tasks
        /\ DOMAIN r.milestones = DOMAIN s.milestones \cup {n}
        /\ \A x \in DOMAIN s.milestones \ {n} : r.milestones[x] = s.milestones[x]
        /\ r.milestones[n].date >= EarliestStart(s, n) /\ r.cap = s.cap
    BY <2>1, InsertMilestoneKeeps
  <2>3. r.milestones[n].date \in Nat
    BY <2>2 DEF StateOK, AllocsOK, AllocationsOK, Marker
  <2>4. ~ InProgress(n) => \A d \in DOMAIN plan.deps[n] : StartOf(r, n) >= Allows(s, n, d)
    BY <1>1, <1>2, <1>4, <2>2, <2>3, AllowsIsInt DEF StartOf
  <2>5. \A x : x # n => SameAt(s, r, x)
    BY <2>2 DEF SameAt
  <2>. QED BY <1>4, <2>1, <2>2, <2>4, <2>5 DEF r, Inserted
<1>. QED BY <1>3, <1>4

-----------------------------------------------------------------------------
(* The account of the hours.                                               *)

(* What is over or on hold.                                                *)
Held(s) == [t \in DOMAIN s.tasks \ Scheduled(s) |-> s.tasks[t]]
(* What is left and what is booked are what the calendar has, or what is   *)
(* held already if that is more.                                           *)
Budget(s) ==
    \A u \in Users, d \in today .. Horizon :
        s.cap[u][d] + Booked(s.tasks, u, d) = Max({plan.hours[u][d], Booked(Held(s), u, d)})
WithinHours(s) ==
    \A u \in Users, d \in today .. Horizon :
        (\E t \in Scheduled(s) : Spent(s.tasks[t].work, u, d) > 0)
            => Booked(s.tasks, u, d) <= plan.hours[u][d]

LEMMA DaysToCome == ASSUME today \in FirstDay .. LastDay PROVE today .. Horizon \subseteq Days
BY DaysAssumption DEF Days

LEMMA StateTasks == ASSUME NEW s, StateOK(s) PROVE TasksOK(s.tasks) /\ TasksOK(Held(s))
BY DEF StateOK, AllocsOK, AllocationsOK, TasksOK, Held

(* Only hours and tasks count.                                             *)
LEMMA SameBudget ==
    ASSUME NEW s, NEW r, Budget(s), r.cap = s.cap, r.tasks = s.tasks PROVE Budget(r)
BY DEF Budget, Held, Scheduled

(* The hours of a task that is put in are no longer left.                  *)
LEMMA InsertKeepsBudget ==
    ASSUME ReadsOK, NEW s, StateOK(s), Budget(s), NEW r, StateOK(r),
           NEW t, t \notin DOMAIN s.tasks, DOMAIN r.tasks = DOMAIN s.tasks \cup {t},
           \A x \in DOMAIN s.tasks : r.tasks[x] = s.tasks[x],
           r.tasks[t].status \in {"NotStarted", "InProgress"},
           \A u \in Users, d \in Days : r.cap[u][d] + Spent(r.tasks[t].work, u, d) = s.cap[u][d]
    PROVE  Budget(r)
<1>1. Held(r) = Held(s)
  <2>1. DOMAIN r.tasks \ Scheduled(r) = DOMAIN s.tasks \ Scheduled(s)
    BY DEF Scheduled, IsAnchored
  <2>. QED BY <2>1 DEF Held
<1>2. TasksOK(s.tasks) /\ TasksOK(r.tasks)
  BY StateTasks
<1>3. ASSUME NEW u \in Users, NEW d \in today .. Horizon
      PROVE  r.cap[u][d] + Booked(r.tasks, u, d) = s.cap[u][d] + Booked(s.tasks, u, d)
  <2>1. d \in Days
    BY DaysToCome DEF ReadsOK
  <2>2. Booked(r.tasks, u, d) = Booked(s.tasks, u, d) + Spent(r.tasks[t].work, u, d)
    BY <1>2, BookedOneMore
  <2>3. r.cap[u][d] \in Nat /\ Booked(s.tasks, u, d) \in Nat
    BY <1>2, <2>1, BookedIsNat DEF StateOK, CapOK
  <2>4. Spent(r.tasks[t].work, u, d) \in Nat
    BY <1>2, SpentIsNat DEF TasksOK, Allocation
  <2>5. r.cap[u][d] + Spent(r.tasks[t].work, u, d) = s.cap[u][d]
    BY <2>1
  <2>. QED BY <2>2, <2>3, <2>4, <2>5
<1>. QED BY <1>1, <1>3 DEF Budget

(* Those of a task that is taken out are left again.                       *)
LEMMA RemovalKeepsBudget ==
    ASSUME ReadsOK, NEW s, StateOK(s), Budget(s), NEW r, StateOK(r),
           NEW t, t \notin DOMAIN r.tasks, DOMAIN s.tasks = DOMAIN r.tasks \cup {t},
           \A x \in DOMAIN r.tasks : s.tasks[x] = r.tasks[x],
           s.tasks[t].status \in {"NotStarted", "InProgress"},
           r.cap = Free(s.cap, s.tasks[t].work)
    PROVE  Budget(r)
<1>1. Held(r) = Held(s)
  <2>1. DOMAIN r.tasks \ Scheduled(r) = DOMAIN s.tasks \ Scheduled(s)
    BY DEF Scheduled, IsAnchored
  <2>. QED BY <2>1 DEF Held
<1>2. TasksOK(s.tasks) /\ TasksOK(r.tasks)
  BY StateTasks
<1>3. ASSUME NEW u \in Users, NEW d \in today .. Horizon
      PROVE  r.cap[u][d] + Booked(r.tasks, u, d) = s.cap[u][d] + Booked(s.tasks, u, d)
  <2>1. d \in Days
    BY DaysToCome DEF ReadsOK
  <2>2. Booked(s.tasks, u, d) = Booked(r.tasks, u, d) + Spent(s.tasks[t].work, u, d)
    BY <1>2, BookedOneMore
  <2>3. s.cap[u][d] \in Nat /\ Booked(r.tasks, u, d) \in Nat
    BY <1>2, <2>1, BookedIsNat DEF StateOK, CapOK
  <2>4. Spent(s.tasks[t].work, u, d) \in Nat
    BY <1>2, SpentIsNat DEF TasksOK, Allocation
  <2>5. r.cap[u][d] = s.cap[u][d] + Spent(s.tasks[t].work, u, d)
    BY <2>1 DEF Free
  <2>. QED BY <2>2, <2>3, <2>4, <2>5
<1>. QED BY <1>1, <1>3 DEF Budget

(* With that account nothing is planned beyond the calendar.               *)
LEMMA BudgetIsWithinHours == ASSUME ReadsOK, NEW s, StateOK(s), Budget(s) PROVE WithinHours(s)
<1>. SUFFICES ASSUME NEW u \in Users, NEW d \in today .. Horizon, NEW t \in Scheduled(s),
                     Spent(s.tasks[t].work, u, d) > 0
              PROVE  Booked(s.tasks, u, d) <= plan.hours[u][d]
  BY DEF WithinHours
<1>. DEFINE held == Booked(Held(s), u, d)
            all == Booked(s.tasks, u, d)
            hours == plan.hours[u][d]
            spent == Spent(s.tasks[t].work, u, d)
<1>1. TasksOK(s.tasks) /\ TasksOK(Held(s)) /\ d \in Days
  BY StateTasks, DaysToCome DEF ReadsOK
<1>2. held \in Nat /\ all \in Nat
  BY <1>1, BookedIsNat
<1>3. hours \in Nat /\ s.cap[u][d] \in Nat
  BY <1>1 DEF ReadsOK, PlanOK, StateOK, CapOK
<1>4. held + spent <= all
  <2>1. /\ t \in DOMAIN s.tasks /\ t \notin DOMAIN Held(s)
        /\ DOMAIN Held(s) \subseteq DOMAIN s.tasks
        /\ \A x \in DOMAIN Held(s) : s.tasks[x] = Held(s)[x]
        /\ s.tasks[t].status # "Dropped"
    BY DEF Held, Scheduled, IsAnchored
  <2>. QED BY <1>1, <2>1, BookedMore
<1>5. spent \in Nat /\ spent > 0
  <2>1. t \in DOMAIN s.tasks
    BY DEF Scheduled
  <2>. QED BY <1>1, <2>1, SpentIsNat DEF TasksOK, Allocation
<1>6. s.cap[u][d] + all = Max({hours, held})
  BY DEF Budget
<1>. HIDE DEF held, all, hours, spent
<1>7. Max({hours, held}) = IF hours >= held THEN hours ELSE held
  BY <1>2, <1>3, MaxOfTwo
<1>8. all <= hours
  BY <1>2, <1>3, <1>4, <1>5, <1>6, <1>7
<1>. QED BY <1>8 DEF all, hours

-----------------------------------------------------------------------------
(* The beginning of a run.                                                 *)

(* An allocation that is refreshed keeps its status.                       *)
LEMMA RefreshedIs ==
    ASSUME today \in Nat, NEW a \in Allocation, IsFiniteSet(a.work)
    PROVE  /\ Refreshed(a) \in Allocation /\ Refreshed(a).status = a.status
           /\ IsFiniteSet(Refreshed(a).work)
<1>. DEFINE b == IF a.status \in {"Complete", "Dropped"} THEN a
                 ELSE [a EXCEPT !.corrected = NoDay]
<1>1. b \in Allocation /\ b.status = a.status /\ IsFiniteSet(b.work)
  BY DEF Allocation
<1>2. [b EXCEPT !.corrected = today] \in Allocation
      /\ [b EXCEPT !.corrected = today].status = b.status
      /\ [b EXCEPT !.corrected = today].work = b.work
  <2>. HIDE DEF b
  <2>. QED BY <1>1 DEF Allocation
<1>3. b.status = "InProgress" =>
         /\ Fixed("InProgress", b.start, today, {}) \in Allocation
         /\ Fixed("InProgress", b.start, today, {}).status = b.status
         /\ Fixed("InProgress", b.start, today, {}).work = {}
  <2>. HIDE DEF b
  <2>. QED BY <1>1 DEF Allocation, Fixed
<1>. HIDE DEF b
<1>4. Refreshed(a) = IF b.status = "InProgress" /\ EndOf(b) < today
                     THEN IF b.kind = "Fixed" THEN [b EXCEPT !.corrected = today]
                                              ELSE Fixed("InProgress", b.start, today, {})
                     ELSE b
  BY DEF Refreshed, b
<1>. QED BY <1>1, <1>2, <1>3, <1>4, FS_EmptySet

(* A run begins with what is over or on hold.                              *)
LEMMA AnchorIs ==
    ASSUME NEW tasks, TasksOK(tasks), NEW hours \in [Users -> [Days -> Nat]]
    PROVE  LET s == Anchor(tasks, hours)
           IN  /\ StateOK(s) /\ DOMAIN s.milestones = {}
               /\ DOMAIN s.tasks = {t \in DOMAIN tasks : IsAnchored(tasks[t])}
               /\ \A t \in DOMAIN s.tasks : s.tasks[t].status = tasks[t].status
               /\ today \in FirstDay .. LastDay =>
                     \A u \in Users, d \in today .. Horizon :
                        s.cap[u][d] + Booked(s.tasks, u, d)
                           = Max({hours[u][d], Booked(s.tasks, u, d)})
<1>. DEFINE on == {t \in DOMAIN tasks : IsAnchored(tasks[t])}
            kept == [t \in on |-> Fixed(tasks[t].status, tasks[t].start,
                                       EndOf(tasks[t]), tasks[t].work)]
            cap == [u \in Users |-> [d \in Days |->
                      IF d < today THEN hours[u][d]
                      ELSE Max({0, hours[u][d] - Booked(kept, u, d)})]]
            s == Anchor(tasks, hours)
<1>1. ASSUME NEW t \in on
      PROVE  /\ kept[t] \in Allocation /\ IsFiniteSet(kept[t].work)
             /\ kept[t].status = tasks[t].status
  <2>1. tasks[t] \in Allocation /\ IsFiniteSet(tasks[t].work) /\ EndOf(tasks[t]) \in Nat
    BY EndIsNat DEF TasksOK
  <2>. QED BY <2>1 DEF Fixed, Allocation
<1>2. DOMAIN kept = on /\ on \subseteq Tasks
  BY DEF TasksOK
<1>3. TasksOK(kept)
  BY <1>1, <1>2 DEF TasksOK
<1>4. CapOK(cap)
  <2>1. ASSUME NEW u \in Users, NEW d \in Days
        PROVE  Max({0, hours[u][d] - Booked(kept, u, d)}) \in Nat
    <3>1. Booked(kept, u, d) \in Nat
      <4>. HIDE DEF kept
      <4>. QED BY <1>3, BookedIsNat
    <3>2. hours[u][d] - Booked(kept, u, d) \in Int
      <4>. HIDE DEF kept
      <4>. QED BY <3>1
    <3>. HIDE DEF kept
    <3>. QED BY <3>2, MaxOfTwo
  <2>. HIDE DEF kept
  <2>. QED BY <2>1 DEF CapOK
<1>5. s = [tasks |-> kept, milestones |-> <<>>, late |-> <<>>, cap |-> cap]
  <2>1. s = [Nothing EXCEPT !.tasks = kept, !.cap = cap]
    BY DEF Anchor
  <2>. HIDE DEF s, kept, cap
  <2>. QED BY <2>1 DEF Nothing
<1>6. ASSUME today \in FirstDay .. LastDay, NEW u \in Users, NEW d \in today .. Horizon
      PROVE  cap[u][d] + Booked(kept, u, d) = Max({hours[u][d], Booked(kept, u, d)})
  <2>. HIDE DEF kept
  <2>. DEFINE h == hours[u][d]
              b == Booked(kept, u, d)
  <2>1. d \in Days /\ d >= today /\ today \in Int
    BY <1>6, DaysToCome, DaysAssumption DEF Days
  <2>2. h \in Nat /\ b \in Nat
    BY <1>3, <2>1, BookedIsNat
  <2>3. cap[u][d] = Max({0, h - b})
    BY <2>1
  <2>. HIDE DEF h, b
  <2>4. Max({0, h - b}) = (IF 0 >= h - b THEN 0 ELSE h - b)
        /\ Max({h, b}) = (IF h >= b THEN h ELSE b)
    BY <2>2, MaxOfTwo
  <2>5. Max({0, h - b}) + b = Max({h, b})
    BY <2>2, <2>4
  <2>. QED BY <2>3, <2>5 DEF h, b
<1>. HIDE DEF kept, cap, s
<1>7. StateOK(s)
  BY <1>3, <1>4, <1>5 DEF StateOK, AllocsOK, AllocationsOK, TasksOK
<1>. QED BY <1>1, <1>2, <1>5, <1>6, <1>7 DEF s

(* Of each day to come, what is left is what the tasks do not take.        *)
LeavesTheRest(s, hours) ==
    \A u \in Users, d \in today .. Horizon :
        s.cap[u][d] + Booked(s.tasks, u, d) = Max({hours[u][d], Booked(s.tasks, u, d)})
(* A run begins with that.                                                 *)
LEMMA AnchorLeaves ==
    ASSUME today \in FirstDay .. LastDay, NEW tasks, TasksOK(tasks),
           NEW hours \in [Users -> [Days -> Nat]]
    PROVE  LeavesTheRest(Anchor(tasks, hours), hours)
BY AnchorIs DEF LeavesTheRest

(* Where all is over or on hold, what is held is all there is.             *)
LEMMA HeldIsAll ==
    ASSUME NEW s, \A t \in DOMAIN s.tasks : IsAnchored(s.tasks[t]), NEW u, NEW d
    PROVE  Booked(Held(s), u, d) = Booked(s.tasks, u, d)
<1>1. Scheduled(s) = {}
  BY DEF Scheduled
<1>2. DOMAIN Held(s) = DOMAIN s.tasks /\ \A t \in DOMAIN s.tasks : Held(s)[t] = s.tasks[t]
  BY <1>1 DEF Held
<1>. DEFINE S == {x \in DOMAIN s.tasks : s.tasks[x].status # "Dropped"}
            H == {x \in DOMAIN Held(s) : Held(s)[x].status # "Dropped"}
<1>3. H = S
  BY <1>2
<1>4. [t \in H |-> Spent(Held(s)[t].work, u, d)] = [t \in S |-> Spent(s.tasks[t].work, u, d)]
  BY <1>2, <1>3
<1>. QED BY <1>4 DEF Booked

(* The list of a step of the run: tasks in progress, or nodes with all     *)
(* they depend on.                                                         *)
ListOK(list, underway) ==
    /\ list \in [over : SUBSET Nodes, nodes : SUBSET Nodes]
    /\ \/ list.nodes \subseteq underway
       \/ list.nodes = list.over /\ Closed(list.over)
(* Lists end with one of everything.                                       *)
ListsOK(lists, underway) ==
    /\ Len(lists) \in Nat /\ DOMAIN lists = 1 .. Len(lists)
    /\ \A i \in DOMAIN lists : ListOK(lists[i], underway)
    /\ Len(lists) > 0 /\ lists[Len(lists)].nodes = Nodes
AgendaOK(lists, s, underway) ==
    IF lists = <<>> THEN Nodes \subseteq Inserted(s) ELSE ListsOK(lists, underway)

(* The lists from the first that is not inserted.                          *)
LEMMA PendingIsOK ==
    ASSUME NEW lists, NEW s, NEW underway, ListsOK(lists, underway)
    PROVE  AgendaOK(Pending(lists, s), s, underway)
<1>. DEFINE open == {i \in DOMAIN lists : ~ lists[i].nodes \subseteq Inserted(s)}
            L == Len(lists)
<1>1. L \in Nat /\ L > 0 /\ DOMAIN lists = 1 .. L
  BY DEF ListsOK
<1>2. CASE open = {}
  <2>1. L \in DOMAIN lists
    BY <1>1
  <2>2. Nodes \subseteq Inserted(s)
    BY <1>2, <2>1 DEF ListsOK
  <2>. QED BY <1>2, <2>2 DEF Pending, AgendaOK
<1>3. CASE open # {}
  <2>. DEFINE m == Min(open)
              rest == SubSeq(lists, m, L)
  <2>1. m \in open
    <3>1. open \in SUBSET Nat
      BY <1>1
    <3>. HIDE DEF open
    <3>. QED BY <1>3, <3>1, MinIsLeast
  <2>2. m \in 1 .. L
    BY <1>1, <2>1
  <2>3. Pending(lists, s) = rest
    BY <1>3 DEF Pending
  <2>. HIDE DEF m, open
  <2>4. rest = [i \in 1 .. (L - m + 1) |-> lists[i + m - 1]]
    BY <1>1, <2>2
  <2>5. Len(rest) = L - m + 1 /\ DOMAIN rest = 1 .. (L - m + 1) /\ L - m + 1 \in Nat
        /\ L - m + 1 > 0
    BY <1>1, <2>2, <2>4
  <2>6. ASSUME NEW i \in DOMAIN rest PROVE ListOK(rest[i], underway)
    <3>1. rest[i] = lists[i + m - 1] /\ i + m - 1 \in DOMAIN lists
      BY <1>1, <2>2, <2>4, <2>5
    <3>. QED BY <3>1 DEF ListsOK
  <2>7. rest[L - m + 1] = lists[L]
    BY <1>1, <2>2, <2>4
  <2>. HIDE DEF rest
  <2>8. ListsOK(rest, underway)
    BY <2>5, <2>6, <2>7 DEF ListsOK
  <2>9. rest # <<>>
    BY <2>5
  <2>. QED BY <2>3, <2>8, <2>9 DEF AgendaOK
<1>. QED BY <1>2, <1>3

(* The lists a run begins with.                                            *)
LEMMA ListsAreOK ==
    ASSUME PlanOK(plan), NEW alloc, NEW order \in ByDate
    PROVE  ListsOK(Lists(alloc, order), {t \in Tasks : StatusOf(alloc, t) = "InProgress"})
<1>. DEFINE underway == {t \in Tasks : StatusOf(alloc, t) = "InProgress"}
            list(over, nodes) == [over |-> over, nodes |-> nodes]
            X == {l \in [over : SUBSET Nodes, nodes : SUBSET Nodes] : ListOK(l, underway)}
            a == <<list(Nodes, underway)>>
            b == [i \in DOMAIN order |-> list(UpTo(order[i]), UpTo(order[i]))]
            c == IF plan.target = PlanStart THEN <<>>
                 ELSE <<list(UpTo(plan.target), UpTo(plan.target))>>
            z == list(Nodes, Nodes)
<1>1. Lists(alloc, order) = a \o b \o c \o <<z>>
  BY DEF Lists
<1>2. a \in Seq(X)
  BY DEF ListOK, Nodes
<1>3. b \in Seq(X)
  <2>1. order \in [1 .. Cardinality(Dated) -> Dated]
    BY DEF ByDate, SetToSeqs
  <2>2. Dated \subseteq Nodes /\ Cardinality(Dated) \in Nat
    BY NodesAssumption, FS_Subset, FS_CardinalityType DEF Dated
  <2>3. DOMAIN order = 1 .. Cardinality(Dated) /\ DOMAIN b = DOMAIN order
    BY <2>1
  <2>4. ASSUME NEW i \in DOMAIN order PROVE b[i] \in X
    <3>1. order[i] \in Nodes
      BY <2>1, <2>2, <2>3
    <3>2. Closed(UpTo(order[i])) /\ UpTo(order[i]) \subseteq Nodes
      BY <3>1, UpToIsClosed DEF UpTo
    <3>. QED BY <3>2 DEF ListOK
  <2>. HIDE DEF X
  <2>5. b \in [1 .. Cardinality(Dated) -> X]
    <3>. DEFINE e(i) == list(UpTo(order[i]), UpTo(order[i]))
    <3>1. \A i \in 1 .. Cardinality(Dated) : e(i) \in X
      BY <2>3, <2>4
    <3>2. b = [i \in 1 .. Cardinality(Dated) |-> e(i)]
      BY <2>3
    <3>. HIDE DEF e, b
    <3>. QED BY <3>1, <3>2
  <2>. HIDE DEF b
  <2>. QED BY <2>2, <2>5
<1>4. c \in Seq(X)
  <2>1. CASE plan.target = PlanStart
    BY <2>1
  <2>2. CASE plan.target # PlanStart
    <3>1. Closed(UpTo(plan.target)) /\ UpTo(plan.target) \subseteq Nodes
      BY <2>2, UpToIsClosed DEF PlanOK, UpTo
    <3>2. list(UpTo(plan.target), UpTo(plan.target)) \in X
      BY <3>1 DEF ListOK
    <3>. HIDE DEF X
    <3>. QED BY <2>2, <3>2
  <2>. QED BY <2>1, <2>2
<1>5. z \in X /\ z.nodes = Nodes
  BY DEF ListOK, Closed, DepsOf, PlanOK
<1>. HIDE DEF a, b, c, z, X
<1>6. a \o b \o c \in Seq(X)
  BY <1>2, <1>3, <1>4
<1>. DEFINE q == a \o b \o c
            lists == q \o <<z>>
<1>7. /\ Len(lists) = Len(q) + 1 /\ Len(q) \in Nat /\ lists[Len(q) + 1] = z
      /\ DOMAIN lists = 1 .. Len(lists) /\ \A i \in DOMAIN lists : lists[i] \in X
  <2>. HIDE DEF q
  <2>. QED BY <1>5, <1>6 DEF q
<1>8. ListsOK(lists, underway)
  <2>. HIDE DEF lists, q
  <2>. QED BY <1>5, <1>7 DEF ListsOK, X
<1>. QED BY <1>1, <1>8

-----------------------------------------------------------------------------
(* The inductive invariant.                                                *)

Underway == {t \in Tasks : InProgress(t)}
(* What the run has put in has the status it had, and nothing that is over *)
(* or on hold is missing.                                                  *)
StatusKept(s) ==
    /\ \A t \in DOMAIN s.tasks : s.tasks[t].status = StatusOf(saved, t)
    /\ \A t \in DOMAIN saved.tasks : IsAnchored(saved.tasks[t]) => t \in DOMAIN s.tasks
(* What is not started has all it depends on before it,                    *)
Ahead(s) == \A n \in Movable(s) : DepsOf(n) \subseteq Inserted(s)
(* and begins when that allows it.                                         *)
Ordered(s) == \A n \in Movable(s) : \A d \in DepsOf(n) : StartOf(s, n) >= Allows(s, n, d)
RunInv ==
    /\ StatusKept(now) /\ Ahead(now) /\ Ordered(now) /\ Budget(now)
    /\ AgendaOK(agenda, now, Underway)
    /\ stage = "compacting" => agenda = <<>> /\ DOMAIN pass.todo \subseteq Movable(now)
IInv ==
    /\ ReadsOK /\ Acyclic(plan) /\ StateOK(now) /\ asked \in 0 .. MaxRequests
    /\ \/ stage = "idle" /\ Ordered(saved) /\ Movable(now) = {} /\ WithinHours(saved)
       \/ stage \in {"inserting", "compacting"} /\ RunInv

(* What the theorems below say of every state.                             *)
LEMMA IInvMeans == IInv => TypeOK /\ NothingOvertaken /\ InOrder /\ NoOverbooking
<1>. SUFFICES ASSUME IInv PROVE TypeOK /\ NothingOvertaken /\ InOrder /\ NoOverbooking
  OBVIOUS
<1>1. TypeOK
  BY DEF IInv, TypeOK, ReadsOK, SavedOK, StateOK, CapOK, AllocsOK
<1>2. NothingOvertaken
  BY DEF IInv, RunInv, Ahead, DepsOf, NothingOvertaken
<1>3. InOrder
  BY DEF IInv, Ordered, DepsOf, InOrder
<1>4. IF stage = "idle" THEN WithinHours(saved) ELSE WithinHours(now)
  BY BudgetIsWithinHours DEF IInv, RunInv
<1>5. NoOverbooking
  BY <1>4 DEF NoOverbooking, WithinHours
<1>. QED BY <1>1, <1>2, <1>3, <1>5

-----------------------------------------------------------------------------
(* The steps.                                                              *)

LEMMA RefreshedAre ==
    ASSUME today \in Nat, NEW alloc, SavedOK(alloc)
    PROVE  LET tasks == [t \in DOMAIN alloc.tasks |-> Refreshed(alloc.tasks[t])]
           IN  /\ TasksOK(tasks) /\ SavedOK([alloc EXCEPT !.tasks = tasks])
               /\ [alloc EXCEPT !.tasks = tasks].tasks = tasks
               /\ \A t \in DOMAIN tasks : tasks[t].status = alloc.tasks[t].status
<1>. DEFINE tasks == [t \in DOMAIN alloc.tasks |-> Refreshed(alloc.tasks[t])]
            b == [alloc EXCEPT !.tasks = tasks]
<1>1. DOMAIN tasks \subseteq Tasks
  BY DEF SavedOK, AllocsOK, AllocationsOK
<1>2. ASSUME NEW t \in DOMAIN tasks
      PROVE  /\ tasks[t] \in Allocation /\ IsFiniteSet(tasks[t].work)
             /\ tasks[t].status = alloc.tasks[t].status
  <2>1. alloc.tasks[t] \in Allocation /\ IsFiniteSet(alloc.tasks[t].work)
    BY DEF SavedOK, AllocsOK, AllocationsOK
  <2>. QED BY <2>1, RefreshedIs
<1>3. TasksOK(tasks)
  BY <1>1, <1>2 DEF TasksOK
<1>. HIDE DEF tasks
<1>4. b = [tasks |-> tasks, milestones |-> alloc.milestones, late |-> alloc.late]
  BY DEF SavedOK
<1>. HIDE DEF b
<1>5. SavedOK(b)
  BY <1>3, <1>4 DEF SavedOK, AllocsOK, AllocationsOK, TasksOK
<1>. QED BY <1>2, <1>3, <1>4, <1>5 DEF b, tasks

(* The hours of the calendars do not matter to what a plan is.             *)
LEMMA OtherHours ==
    ASSUME PlanOK(plan), Acyclic(plan), NEW hours \in [Users -> [Days -> Nat]],
           NEW p, p = [plan EXCEPT !.hours = hours]
    PROVE  PlanOK(p) /\ Acyclic(p) /\ p.deps = plan.deps
<1>1. /\ DOMAIN p = DOMAIN plan /\ p.hours = hours
      /\ p.start = plan.start /\ p.target = plan.target /\ p.deps = plan.deps
      /\ p.slots = plan.slots /\ p.duration = plan.duration /\ p.relaxed = plan.relaxed
      /\ p.constraint = plan.constraint /\ p.working = plan.working
  BY DEF PlanOK
<1>2. PlanOK(p)
  BY <1>1 DEF PlanOK
<1>3. Acyclic(p)
  BY <1>1 DEF Acyclic
<1>. QED BY <1>1, <1>2, <1>3

(* A run begins soundly, and with the statuses it was given.               *)
LEMMA RunBegins ==
    ASSUME PlanOK(plan), Acyclic(plan), today \in FirstDay .. LastDay,
           NEW alloc, SavedOK(alloc), NEW begun \in [Tasks -> Nat \cup {NoDay}],
           NEW hours \in [Users -> [Days -> Nat]], Run(alloc, begun, hours)
    PROVE  /\ ReadsOK' /\ Acyclic(plan)' /\ StateOK(now)'
           /\ stage' = "inserting" /\ RunInv'
           /\ \A t \in Tasks : StatusOf(saved', t) = StatusOf(alloc, t)
<1>. DEFINE tasks == [t \in DOMAIN alloc.tasks |-> Refreshed(alloc.tasks[t])]
<1>1. /\ plan' = [plan EXCEPT !.hours = hours]
      /\ started' = [t \in Tasks |-> IF StatusOf(alloc, t) = "NotStarted" THEN NoDay
                                     ELSE begun[t]]
      /\ saved' = [alloc EXCEPT !.tasks = tasks]
      /\ now' = Anchor(tasks, hours)
      /\ \E order \in ByDate : agenda' = Pending(Lists(alloc, order), now')
      /\ stage' = "inserting" /\ pass' = NoPass /\ today' = today
  BY Zenon DEF Run
<1>2. today \in Nat
  BY DaysAreNat
<1>3. /\ TasksOK(tasks) /\ SavedOK(saved') /\ saved'.tasks = tasks
      /\ DOMAIN tasks = DOMAIN alloc.tasks
      /\ \A t \in DOMAIN tasks : tasks[t].status = alloc.tasks[t].status
  BY <1>1, <1>2, RefreshedAre
<1>. HIDE DEF tasks
<1>4. PlanOK(plan') /\ Acyclic(plan') /\ plan'.deps = plan.deps
  BY <1>1, OtherHours
<1>5. \A t \in Tasks : StatusOf(saved', t) = StatusOf(alloc, t)
  BY <1>3 DEF StatusOf
<1>6. started' \in [Tasks -> Nat \cup {NoDay}]
  BY <1>1
<1>7. ReadsOK'
  BY <1>1, <1>3, <1>4, <1>6 DEF ReadsOK, SavedOK, AllocsOK, AllocationsOK
<1>8. /\ StateOK(now') /\ DOMAIN now'.milestones = {}
      /\ DOMAIN now'.tasks = {t \in DOMAIN tasks : IsAnchored(tasks[t])}
      /\ \A t \in DOMAIN now'.tasks : now'.tasks[t].status = tasks[t].status
  BY <1>1, <1>3, AnchorIs
<1>9. Movable(now') = {} /\ \A t \in DOMAIN now'.tasks : IsAnchored(now'.tasks[t])
  BY <1>8 DEF Movable, IsAnchored
<1>10. StatusKept(now)'
  BY <1>3, <1>8 DEF StatusKept, StatusOf
<1>11. AgendaOK(agenda, now, Underway)'
  <2>. DEFINE busy == {t \in Tasks : StatusOf(alloc, t) = "InProgress"}
  <2>1. PICK order \in ByDate : agenda' = Pending(Lists(alloc, order), now')
    BY <1>1
  <2>2. AgendaOK(Pending(Lists(alloc, order), now'), now', busy)
    <3>1. ListsOK(Lists(alloc, order), busy)
      BY ListsAreOK
    <3>. HIDE DEF busy
    <3>. QED BY <3>1, PendingIsOK
  <2>3. Underway' = busy
    BY <1>5 DEF Underway, InProgress
  <2>. HIDE DEF busy
  <2>4. AgendaOK(agenda', now', Underway')
    BY <2>1, <2>2, <2>3
  <2>. QED BY <1>4, <2>4 DEF AgendaOK, ListsOK, ListOK, Closed, DepsOf
<1>12. Ahead(now)' /\ Ordered(now)'
  BY <1>9 DEF Ahead, Ordered
<1>13. Budget(now)'
  <2>1. plan'.hours = hours
    BY <1>1 DEF PlanOK
  <2>2. LeavesTheRest(now', hours)
    <3>1. LeavesTheRest(Anchor(tasks, hours), hours)
      BY <1>3, AnchorLeaves, Zenon
    <3>. QED BY <1>1, <3>1, Zenon
  <2>3. ASSUME NEW u, NEW d PROVE Booked(Held(now'), u, d) = Booked(now'.tasks, u, d)
    BY <1>9, HeldIsAll
  <2>. QED BY <1>1, <2>1, <2>2, <2>3 DEF Budget, LeavesTheRest
<1>14. RunInv'
  BY <1>1, <1>10, <1>11, <1>12, <1>13 DEF RunInv
<1>. QED BY <1>1, <1>4, <1>5, <1>7, <1>8, <1>14

(* The state in which the plan was made.                                   *)
LEMMA InitIsSound == Init => IInv
<1>. SUFFICES ASSUME Init PROVE IInv
  OBVIOUS
<1>1. /\ PlanOK(plan) /\ Acyclic(plan) /\ today \in FirstDay .. LastDay
  BY PlansAssumption, DaysAssumption DEF Init, Days
<1>2. started \in [Tasks -> Nat \cup {NoDay}] /\ stage = "inserting" /\ asked = 0
  BY DEF Init
<1>3. DOMAIN saved.tasks = {} /\ DOMAIN saved.milestones = {} /\ DOMAIN saved.late = {}
  BY DEF Init
<1>4. SavedOK(saved)
  BY <1>3 DEF Init, SavedOK, AllocsOK, AllocationsOK
<1>5. plan.hours \in [Users -> [Days -> Nat]] /\ TasksOK(<<>>)
  BY <1>1 DEF PlanOK, TasksOK
<1>6. /\ StateOK(now) /\ DOMAIN now.milestones = {} /\ DOMAIN now.tasks = {}
      /\ \A u \in Users, d \in today .. Horizon :
            now.cap[u][d] + Booked(now.tasks, u, d)
               = Max({plan.hours[u][d], Booked(now.tasks, u, d)})
  <2>1. now = Anchor(<<>>, plan.hours)
    BY DEF Init
  <2>2. LeavesTheRest(now, plan.hours)
    BY <1>1, <1>5, <2>1, AnchorLeaves, Zenon
  <2>. DEFINE none == <<>>
  <2>3. now = Anchor(none, plan.hours) /\ TasksOK(none) /\ DOMAIN none = {}
    BY <1>5, <2>1
  <2>. HIDE DEF none
  <2>4. /\ StateOK(now) /\ DOMAIN now.milestones = {}
        /\ DOMAIN now.tasks = {x \in DOMAIN none : IsAnchored(none[x])}
    BY <1>5, <2>3, AnchorIs
  <2>5. DOMAIN now.tasks = {}
    BY <2>3, <2>4
  <2>. QED BY <2>2, <2>4, <2>5, Zenon DEF LeavesTheRest
<1>7. Movable(now) = {}
  BY <1>6 DEF Movable
<1>8. AgendaOK(agenda, now, Underway)
  <2>1. PICK order \in ByDate : agenda = Pending(Lists(saved, order), now)
    BY DEF Init
  <2>2. ListsOK(Lists(saved, order), Underway)
    BY <1>1, ListsAreOK DEF Underway, InProgress
  <2>. QED BY <2>1, <2>2, PendingIsOK
<1>9. Budget(now)
  <2>1. ASSUME NEW u, NEW d PROVE Booked(Held(now), u, d) = Booked(now.tasks, u, d)
    BY <1>6, HeldIsAll
  <2>. QED BY <1>6, <2>1 DEF Budget
<1>10. RunInv
  BY <1>2, <1>3, <1>6, <1>7, <1>8, <1>9 DEF RunInv, StatusKept, Ahead, Ordered
<1>. QED BY <1>1, <1>2, <1>4, <1>6, <1>10, BoundsAssumption DEF IInv, ReadsOK

(* Putting in the next node of a list.                                     *)
LEMMA InsertNodeKeeps == ASSUME IInv, NEW n \in Nodes, InsertNode(n) PROVE IInv'
<1>. DEFINE list == Head(agenda)
<1>1. /\ stage = "inserting" /\ agenda # <<>> /\ n \in NextOf(list, now)
      /\ now' = Insert(now, n) /\ agenda' = Pending(agenda, now')
      /\ UNCHANGED <<plan, today, started, saved, pass, stage, asked>>
  BY DEF InsertNode
<1>2. /\ ReadsOK /\ Acyclic(plan) /\ StateOK(now) /\ asked \in 0 .. MaxRequests
      /\ StatusKept(now) /\ Ahead(now) /\ Ordered(now) /\ Budget(now)
      /\ AgendaOK(agenda, now, Underway)
  BY <1>1 DEF IInv, RunInv
<1>3. ListsOK(agenda, Underway)
  BY <1>1, <1>2 DEF AgendaOK
<1>4. ListOK(list, Underway)
  <2>1. Len(agenda) > 0 /\ 1 \in DOMAIN agenda /\ list = agenda[1]
    BY <1>3 DEF ListsOK
  <2>. QED BY <1>3, <2>1 DEF ListsOK
<1>5. n \in list.nodes /\ n \notin Inserted(now)
  BY <1>1 DEF NextOf
<1>6. ~ InProgress(n) => DepsOf(n) \subseteq Inserted(now)
  <2>. SUFFICES ASSUME ~ InProgress(n) PROVE DepsOf(n) \subseteq Inserted(now)
    OBVIOUS
  <2>1. list.nodes = list.over /\ Closed(list.over)
    BY <1>4, <1>5 DEF ListOK, Underway
  <2>. HIDE DEF list
  <2>. QED BY <1>1, <1>2, <2>1, NextHasItsDeps DEF ReadsOK
<1>7. /\ StateOK(now') /\ Inserted(now') = Inserted(now) \cup {n}
      /\ \A x : x # n => SameAt(now, now', x)
      /\ n \in Tasks => now'.tasks[n].status = IF InProgress(n) THEN "InProgress"
                                               ELSE "NotStarted"
      /\ n \in Tasks => n \in DOMAIN now'.tasks
      /\ n \in Milestones => n \in DOMAIN now'.milestones
      /\ ~ InProgress(n) => \A d \in DOMAIN plan.deps[n] : StartOf(now', n) >= Allows(now, n, d)
      /\ n \in Milestones => now'.tasks = now.tasks /\ now'.cap = now.cap
      /\ n \in Tasks => \A u \in Users, d \in Days :
                          now'.cap[u][d] + Spent(now'.tasks[n].work, u, d) = now.cap[u][d]
  BY <1>1, <1>2, InsertKeeps
<1>8. AllocsOK(now) /\ AllocsOK(now')
  BY <1>2, <1>7 DEF StateOK
<1>9. \A t \in DOMAIN now'.tasks : t \in Tasks
  BY <1>8 DEF AllocsOK, AllocationsOK
<1>10. StatusKept(now')
  <2>1. ASSUME NEW t \in DOMAIN now'.tasks PROVE now'.tasks[t].status = StatusOf(saved, t)
    <3>1. CASE t # n
      BY <1>2, <1>7, <3>1 DEF StatusKept, SameAt
    <3>2. CASE t = n
      <4>1. n \in Tasks /\ n \notin DOMAIN now.tasks
        BY <1>5, <1>9, <3>2 DEF Inserted
      <4>2. n \in DOMAIN saved.tasks => ~ IsAnchored(saved.tasks[n])
        BY <1>2, <4>1 DEF StatusKept
      <4>. QED BY <1>7, <3>2, <4>1, <4>2 DEF StatusOf, InProgress, IsAnchored
    <3>. QED BY <3>1, <3>2
  <2>2. ASSUME NEW t \in DOMAIN saved.tasks, IsAnchored(saved.tasks[t])
        PROVE  t \in DOMAIN now'.tasks
    <3>1. t \in DOMAIN now.tasks
      BY <1>2, <2>2 DEF StatusKept
    <3>2. t # n
      BY <1>5, <3>1 DEF Inserted
    <3>. QED BY <1>7, <3>1, <3>2 DEF SameAt
  <2>. QED BY <2>1, <2>2 DEF StatusKept
<1>11. ASSUME NEW x \in Movable(now')
       PROVE  /\ DepsOf(x) \subseteq Inserted(now)
              /\ \A d \in DepsOf(x) : StartOf(now', x) >= Allows(now, x, d)
  <2>1. CASE x = n
    <3>1. ~ InProgress(n)
      <4>. SUFFICES ASSUME InProgress(n) PROVE FALSE
        OBVIOUS
      <4>1. n \in Tasks
        BY DEF InProgress
      <4>2. n \notin DOMAIN now'.milestones
        BY <1>8, <4>1, Apart
      <4>. QED BY <1>7, <1>11, <2>1, <4>1, <4>2 DEF Movable
    <3>. QED BY <1>6, <1>7, <2>1, <3>1 DEF DepsOf
  <2>2. CASE x # n
    <3>1. SameAt(now, now', x)
      BY <1>7, <2>2
    <3>2. x \in Movable(now)
      BY <1>11, <3>1 DEF Movable, SameAt
    <3>3. StartOf(now', x) = StartOf(now, x)
      BY <1>8, <1>11, <3>1, Apart DEF Movable, StartOf, SameAt, AllocsOK, AllocationsOK
    <3>. QED BY <1>2, <3>2, <3>3 DEF Ahead, Ordered
  <2>. QED BY <2>1, <2>2
<1>12. ASSUME NEW x \in Movable(now'), NEW d \in DepsOf(x)
       PROVE  d # n /\ Allows(now', x, d) = Allows(now, x, d)
  <2>1. d # n /\ d # PlanStart
    BY <1>5, <1>11 DEF DepsOf
  <2>. QED BY <1>7, <2>1, SameAllowed
<1>13. Ahead(now') /\ Ordered(now')
  BY <1>7, <1>11, <1>12 DEF Ahead, Ordered
<1>14. AgendaOK(agenda', now', Underway)
  BY <1>1, <1>3, PendingIsOK
<1>15. ReadsOK' /\ Acyclic(plan)'
  BY <1>1, <1>2 DEF ReadsOK
<1>16. Budget(now')
  <2>1. CASE n \in Tasks
    <3>1. n \notin DOMAIN now.tasks
      BY <1>5 DEF Inserted
    <3>2. DOMAIN now'.tasks = DOMAIN now.tasks \cup {n}
      BY <1>7, <2>1 DEF SameAt
    <3>3. \A x \in DOMAIN now.tasks : now'.tasks[x] = now.tasks[x]
      BY <1>7, <3>1 DEF SameAt
    <3>4. now'.tasks[n].status \in {"NotStarted", "InProgress"}
      BY <1>7, <2>1
    <3>5. \A u \in Users, d \in Days :
             now'.cap[u][d] + Spent(now'.tasks[n].work, u, d) = now.cap[u][d]
      BY <1>7, <2>1
    <3>. QED BY <1>2, <1>7, <3>1, <3>2, <3>3, <3>4, <3>5, InsertKeepsBudget
  <2>2. CASE n \in Milestones
    BY <1>2, <1>7, <2>2, SameBudget
  <2>. QED BY <2>1, <2>2 DEF Nodes
<1>17. RunInv'
  <2>1. StatusKept(now)' /\ Ahead(now)' /\ Ordered(now)' /\ Budget(now)'
    BY <1>1, <1>10, <1>13, <1>16 DEF StatusKept, Ahead, Ordered, StatusOf, DepsOf, Allows, Budget
  <2>2. AgendaOK(agenda, now, Underway)'
    BY <1>1, <1>14 DEF AgendaOK, ListsOK, ListOK, Closed, DepsOf, Underway, InProgress, StatusOf
  <2>. QED BY <1>1, <2>1, <2>2 DEF RunInv
<1>. QED BY <1>1, <1>2, <1>7, <1>15, <1>17 DEF IInv

(* Beginning a pass of compaction.                                         *)
LEMMA StartPassKeeps == ASSUME IInv, StartPass PROVE IInv'
<1>1. /\ agenda = <<>> /\ stage \in {"inserting", "compacting"} /\ stage' = "compacting"
      /\ pass'.todo = [n \in Movable(now) |-> StartOf(now, n)]
      /\ UNCHANGED <<plan, today, started, saved, now, agenda, asked>>
  BY DEF StartPass
<1>2. IInv /\ RunInv
  BY <1>1 DEF IInv
<1>3. RunInv'
  <2>1. StatusKept(now)' /\ Ahead(now)' /\ Ordered(now)' /\ Budget(now)'
    BY <1>1, <1>2 DEF RunInv, StatusKept, Ahead, Ordered, StatusOf, DepsOf, Allows, Budget
  <2>2. AgendaOK(agenda, now, Underway)'
    BY <1>1, <1>2 DEF RunInv, AgendaOK, ListsOK, ListOK, Closed, DepsOf, Underway, InProgress, StatusOf
  <2>. QED BY <1>1, <2>1, <2>2 DEF RunInv
<1>. QED BY <1>1, <1>2, <1>3 DEF IInv, ReadsOK

(* A milestone allows the same day and the lag, or the day after.          *)
LEMMA MilestoneAllows ==
    ASSUME NEW s, NEW n, NEW d, d # PlanStart, d \in DOMAIN s.milestones,
           d \notin DOMAIN s.tasks
    PROVE  Allows(s, n, d) = s.milestones[d].date + plan.deps[n][d]
                             + (IF n \in Milestones THEN 0 ELSE 1)
BY DEF Allows

(* What is moved to a day that its dependencies allow, and ends no later   *)
(* than before, disturbs nothing else.                                     *)
LEMMA EarlierKeepsOrder ==
    ASSUME Acyclic(plan), NEW s, StateOK(s), NEW r, StateOK(r),
           NEW n \in Movable(s), n \in Nodes,
           DOMAIN r.tasks = DOMAIN s.tasks, DOMAIN r.milestones = DOMAIN s.milestones,
           \A x : x # n => SameAt(s, r, x),
           n \in Tasks => r.tasks[n].status = "NotStarted",
           FinishOf(r, n) <= FinishOf(s, n),
           \A d \in DepsOf(n) : StartOf(r, n) >= Allows(s, n, d),
           ReadsOK, StatusKept(s), Ahead(s), Ordered(s)
    PROVE  /\ Movable(r) = Movable(s) /\ Inserted(r) = Inserted(s)
           /\ StatusKept(r) /\ Ahead(r) /\ Ordered(r)
<1>1. AllocsOK(s) /\ AllocsOK(r)
  BY DEF StateOK
<1>2. n \in Tasks => n \in DOMAIN s.tasks /\ s.tasks[n].status = "NotStarted"
  BY <1>1, Apart DEF Movable
<1>3. n \in Milestones => n \in DOMAIN s.milestones
  BY <1>1, Apart DEF Movable
<1>4. ASSUME NEW x \in DOMAIN s.tasks
      PROVE  r.tasks[x].status = s.tasks[x].status /\ x \in Tasks
  <2>1. x \in Tasks
    BY <1>1 DEF AllocsOK, AllocationsOK
  <2>. QED BY <1>2, <2>1 DEF SameAt
<1>5. Movable(r) = Movable(s) /\ Inserted(r) = Inserted(s)
  BY <1>4 DEF Movable, Inserted
<1>6. StatusKept(r)
  BY <1>4 DEF StatusKept
<1>7. Ahead(r)
  BY <1>5 DEF Ahead
<1>8. ASSUME NEW x \in Movable(s), NEW d \in DepsOf(x)
      PROVE  StartOf(r, x) >= Allows(r, x, d)
  <2>1. x \in Nodes /\ d \in DOMAIN plan.deps[x] /\ d # PlanStart
    BY <1>1 DEF Movable, AllocsOK, AllocationsOK, Nodes, DepsOf
  <2>2. Allows(s, x, d) \in Int /\ Allows(r, x, d) \in Int
    BY <1>1, <2>1, AllowsIsInt
  <2>3. StartOf(s, x) \in Int /\ StartOf(r, x) \in Int
    <3>1. x \in Tasks => x \in DOMAIN s.tasks /\ x \in DOMAIN r.tasks
      BY <1>1, Apart DEF Movable
    <3>2. x \in Milestones => x \in DOMAIN s.milestones /\ x \in DOMAIN r.milestones
      BY <1>1, Apart DEF Movable
    <3>. QED BY <1>1, <2>1, <3>1, <3>2
             DEF StartOf, Nodes, AllocsOK, AllocationsOK, Allocation, Marker
  <2>4. StartOf(r, x) >= Allows(s, x, d)
    <3>1. CASE x = n
      BY <3>1
    <3>2. CASE x # n
      <4>1. StartOf(r, x) = StartOf(s, x)
        BY <1>1, <2>1, <3>2, Apart DEF StartOf, SameAt, Movable, Nodes
      <4>. QED BY <4>1 DEF Ordered
    <3>. QED BY <3>1, <3>2
  <2>5. Allows(r, x, d) <= Allows(s, x, d)
    <3>1. CASE d # n
      BY <2>1, <2>2, <3>1, SameAllowed
    <3>2. CASE d = n
      <4>1. plan.deps[x][d] \in Int
        BY <2>1 DEF ReadsOK, PlanOK
      <4>2. CASE n \in Tasks
        <5>1. EndOf(s.tasks[n]) \in Nat /\ EndOf(r.tasks[n]) \in Nat
          BY <1>1, <1>2, <4>2, EndIsNat DEF AllocsOK, AllocationsOK
        <5>2. n \notin DOMAIN s.milestones /\ EndOf(r.tasks[n]) <= EndOf(s.tasks[n])
          BY <1>1, <4>2, Apart DEF FinishOf
        <5>. HIDE DEF EndOf
        <5>. QED BY <1>2, <2>1, <3>2, <4>1, <4>2, <5>1, <5>2 DEF Allows
      <4>3. CASE n \notin Tasks
        <5>1. n \in Milestones /\ n \in DOMAIN s.milestones
              /\ r.milestones[n].date <= s.milestones[n].date
          BY <1>3, <4>3 DEF Nodes, FinishOf
        <5>2. s.milestones[n].date \in Nat /\ r.milestones[n].date \in Nat
          BY <1>1, <5>1 DEF AllocsOK, AllocationsOK, Marker
        <5>. DEFINE next == IF x \in Milestones THEN 0 ELSE 1
        <5>3. /\ n \in DOMAIN r.milestones /\ d # PlanStart /\ next \in Int
              /\ n \notin DOMAIN s.tasks /\ n \notin DOMAIN r.tasks
          BY <1>1, <2>1, <5>1, Apart
        <5>4. /\ Allows(s, x, d) = s.milestones[n].date + plan.deps[x][d] + next
              /\ Allows(r, x, d) = r.milestones[n].date + plan.deps[x][d] + next
          BY <3>2, <5>1, <5>3, MilestoneAllows
        <5>. HIDE DEF next
        <5>. QED BY <4>1, <5>1, <5>2, <5>3, <5>4
      <4>. QED BY <4>2, <4>3
    <3>. QED BY <3>1, <3>2
  <2>. QED BY <2>2, <2>3, <2>4, <2>5
<1>9. Ordered(r)
  BY <1>5, <1>8 DEF Ordered
<1>. QED BY <1>5, <1>6, <1>7, <1>9

(* Hours that are given back are hours.                                    *)
LEMMA FreeIsCap ==
    ASSUME NEW cap, CapOK(cap), NEW segs \in SUBSET Segment, IsFiniteSet(segs)
    PROVE  CapOK(Free(cap, segs))
<1>1. ASSUME NEW u \in Users, NEW d \in Days PROVE cap[u][d] + Spent(segs, u, d) \in Nat
  <2>1. Spent(segs, u, d) \in Nat
    BY SpentIsNat
  <2>. QED BY <2>1 DEF CapOK
<1>. QED BY <1>1 DEF CapOK, Free

(* A task that is tried again: where its dependencies allow, if it ends    *)
(* earlier there, else where it was.                                       *)
LEMMA RetriedIs ==
    ASSUME ReadsOK, Acyclic(plan), NEW s, StateOK(s), NEW t \in Tasks, t \in DOMAIN s.tasks,
           s.tasks[t].status = "NotStarted", ~ InProgress(t),
           \A d \in DepsOf(t) : s.tasks[t].start >= Allows(s, t, d)
    PROVE  LET r == Retried(s, Again(s, t), t)
           IN  /\ StateOK(r) /\ r.milestones = s.milestones
               /\ DOMAIN r.tasks = DOMAIN s.tasks /\ r.tasks[t].status = "NotStarted"
               /\ \A x \in DOMAIN s.tasks \ {t} : r.tasks[x] = s.tasks[x]
               /\ EndOf(r.tasks[t]) <= EndOf(s.tasks[t])
               /\ \A d \in DepsOf(t) : r.tasks[t].start >= Allows(s, t, d)
               /\ Budget(s) => Budget(r)
<1>. DEFINE s0 == [s EXCEPT !.cap = Free(@, s.tasks[t].work), !.tasks = Without(@, t)]
            tried == Again(s, t)
            r == Retried(s, tried, t)
<1>1. /\ AllocsOK(s) /\ CapOK(s.cap) /\ s.tasks[t] \in Allocation
      /\ s.tasks[t].work \in SUBSET Segment /\ IsFiniteSet(s.tasks[t].work)
  BY DEF StateOK, AllocsOK, AllocationsOK, Allocation
<1>2. s0 = [tasks |-> Without(s.tasks, t), milestones |-> s.milestones, late |-> s.late,
            cap |-> Free(s.cap, s.tasks[t].work)]
  <2>. DEFINE f == Free(s.cap, s.tasks[t].work)
              w == Without(s.tasks, t)
  <2>1. s0 = [s EXCEPT !.cap = f, !.tasks = w]
    OBVIOUS
  <2>. HIDE DEF s0, f, w
  <2>2. s0 = [tasks |-> w, milestones |-> s.milestones, late |-> s.late, cap |-> f]
    BY <2>1 DEF StateOK
  <2>. QED BY <2>2 DEF f, w
<1>3. tried = InsertTask(s0, t)
  BY DEF Again
<1>. HIDE DEF s0
<1>4. CapOK(s0.cap)
  BY <1>1, <1>2, FreeIsCap
<1>5. /\ DOMAIN s0.tasks = DOMAIN s.tasks \ {t}
      /\ \A x \in DOMAIN s0.tasks : s0.tasks[x] = s.tasks[x]
  BY <1>2 DEF Without
<1>6. StateOK(s0)
  BY <1>1, <1>2, <1>4, <1>5 DEF StateOK, AllocsOK, AllocationsOK
<1>. HIDE DEF tried
<1>7. /\ StateOK(tried) /\ tried.milestones = s0.milestones
      /\ DOMAIN tried.tasks = DOMAIN s0.tasks \cup {t}
      /\ \A x \in DOMAIN s0.tasks \ {t} : tried.tasks[x] = s0.tasks[x]
      /\ tried.tasks[t].status = IF InProgress(t) THEN "InProgress" ELSE "NotStarted"
      /\ tried.tasks[t].start >= EarliestStart(s0, t)
      /\ \A u \in Users, d \in Days :
            tried.cap[u][d] + Spent(tried.tasks[t].work, u, d) = s0.cap[u][d]
  BY <1>3, <1>6, InsertTaskKeeps
<1>8. /\ DOMAIN tried.tasks = DOMAIN s.tasks /\ tried.milestones = s.milestones
      /\ tried.tasks[t].status = "NotStarted" /\ tried.tasks[t] \in Allocation
      /\ \A x \in DOMAIN s.tasks \ {t} : tried.tasks[x] = s.tasks[x]
  BY <1>2, <1>5, <1>7 DEF StateOK, AllocsOK, AllocationsOK
<1>9. ASSUME NEW d \in DepsOf(t) PROVE tried.tasks[t].start >= Allows(s, t, d)
  <2>1. t \in Nodes /\ d \in DOMAIN plan.deps[t] /\ d # PlanStart
    BY DEF Nodes, DepsOf
  <2>2. d # t
    <3>1. \E x \in {t} : DOMAIN plan.deps[x] \cap {t} = {}
      BY <2>1 DEF Acyclic
    <3>. QED BY <2>1, <3>1
  <2>3. SameAt(s, s0, d)
    BY <1>2, <1>5, <2>2 DEF SameAt
  <2>4. Allows(s0, t, d) = Allows(s, t, d)
    BY <2>1, <2>3, SameAllowed
  <2>5. AllocsOK(s0)
    BY <1>6 DEF StateOK
  <2>6. EarliestStart(s0, t) \in Nat /\ EarliestStart(s0, t) >= Allows(s0, t, d)
        /\ Allows(s0, t, d) \in Int
    BY <2>1, <2>5, EarliestStartIsLater, AllowsIsInt
  <2>7. tried.tasks[t].start \in Nat
    BY <1>8 DEF Allocation
  <2>. QED BY <1>7, <2>4, <2>6, <2>7
<1>10. EndOf(tried.tasks[t]) \in Nat /\ EndOf(s.tasks[t]) \in Nat
  BY <1>1, <1>8, EndIsNat
<1>11. Budget(s) => Budget(tried)
  <2>. SUFFICES ASSUME Budget(s) PROVE Budget(tried)
    OBVIOUS
  <2>1. t \notin DOMAIN s0.tasks /\ DOMAIN s.tasks = DOMAIN s0.tasks \cup {t}
    BY <1>5
  <2>2. \A x \in DOMAIN s0.tasks : s.tasks[x] = s0.tasks[x] /\ tried.tasks[x] = s0.tasks[x]
    BY <1>5, <1>7, <2>1
  <2>3. s0.cap = Free(s.cap, s.tasks[t].work)
    BY <1>2
  <2>4. Budget(s0)
    BY <1>6, <2>1, <2>2, <2>3, RemovalKeepsBudget
  <2>. QED BY <1>6, <1>7, <1>8, <2>1, <2>2, <2>4, InsertKeepsBudget
<1>12. CASE Improves(s, tried, t)
  <2>1. r = tried
    BY <1>12 DEF Retried
  <2>2. EndOf(tried.tasks[t]) <= EndOf(s.tasks[t])
    BY <1>10, <1>12 DEF Improves, FinishOf
  <2>. QED BY <1>7, <1>8, <1>9, <1>11, <2>1, <2>2 DEF tried
<1>13. CASE ~ Improves(s, tried, t)
  <2>1. r = [s EXCEPT !.late = tried.late]
    BY <1>13 DEF Retried
  <2>2. r = [tasks |-> s.tasks, milestones |-> s.milestones, late |-> tried.late, cap |-> s.cap]
    BY <2>1 DEF StateOK
  <2>3. StateOK(r)
    BY <1>1, <1>7, <2>2 DEF StateOK, AllocsOK, AllocationsOK
  <2>4. r.tasks = s.tasks /\ r.milestones = s.milestones /\ r.cap = s.cap
    BY <2>2
  <2>5. Budget(s) => Budget(r)
    BY <2>4, SameBudget
  <2>. QED BY <1>10, <2>3, <2>4, <2>5 DEF tried
<1>. QED BY <1>12, <1>13

(* So is a milestone.                                                      *)
LEMMA MovedMilestoneIs ==
    ASSUME ReadsOK, NEW s, StateOK(s), NEW m \in Milestones, m \in DOMAIN s.milestones,
           \A d \in DepsOf(m) : s.milestones[m].date >= Allows(s, m, d)
    PROVE  LET r == MovedMilestone(s, m)
           IN  /\ StateOK(r) /\ r.tasks = s.tasks /\ r.cap = s.cap
               /\ DOMAIN r.milestones = DOMAIN s.milestones
               /\ \A x \in DOMAIN s.milestones \ {m} : r.milestones[x] = s.milestones[x]
               /\ r.milestones[m].date <= s.milestones[m].date
               /\ \A d \in DepsOf(m) : r.milestones[m].date >= Allows(s, m, d)
<1>. DEFINE day == NextWorkingDay(EarliestStart(s, m))
            v == [date |-> day, status |-> "NotStarted"]
            r == MovedMilestone(s, m)
<1>1. AllocsOK(s) /\ s.milestones[m].date \in Nat /\ m \in Nodes /\ ~ InProgress(m)
  BY NodesAssumption DEF StateOK, AllocsOK, AllocationsOK, Marker, Nodes, InProgress
<1>2. /\ EarliestStart(s, m) \in Nat
      /\ \A d \in DOMAIN plan.deps[m] : EarliestStart(s, m) >= Allows(s, m, d)
  BY <1>1, EarliestStartIsLater
<1>3. day \in Nat /\ day >= EarliestStart(s, m)
  BY <1>2, NextWorkingDayIsLater DEF ReadsOK
<1>. HIDE DEF day
<1>4. ASSUME NEW d \in DepsOf(m) PROVE day >= Allows(s, m, d)
  <2>1. d \in DOMAIN plan.deps[m] /\ Allows(s, m, d) \in Int
    BY <1>1, AllowsIsInt DEF DepsOf
  <2>. QED BY <1>2, <1>3, <2>1
<1>5. v \in Marker /\ v.date = day
  BY <1>3 DEF Marker, Status
<1>. HIDE DEF v
<1>6. CASE plan.constraint[m].kind # "Fixed" /\ day < s.milestones[m].date
  <2>1. r = [s EXCEPT !.milestones[m] = v]
    BY <1>6 DEF MovedMilestone, day, v
  <2>. HIDE DEF r
  <2>. DEFINE ms == [s.milestones EXCEPT ![m] = v]
  <2>2. r = [tasks |-> s.tasks, milestones |-> ms, late |-> s.late, cap |-> s.cap]
    BY <2>1 DEF StateOK
  <2>3. /\ DOMAIN ms = DOMAIN s.milestones /\ ms[m] = v
        /\ \A x \in DOMAIN s.milestones \ {m} : ms[x] = s.milestones[x]
    OBVIOUS
  <2>. HIDE DEF ms
  <2>4. StateOK(r)
    BY <1>1, <1>5, <2>2, <2>3 DEF StateOK, AllocsOK, AllocationsOK
  <2>5. v.date <= s.milestones[m].date
    BY <1>1, <1>3, <1>5, <1>6
  <2>. QED BY <1>4, <1>5, <2>2, <2>3, <2>4, <2>5 DEF r
<1>7. CASE ~ (plan.constraint[m].kind # "Fixed" /\ day < s.milestones[m].date)
  <2>1. r = s
    BY <1>7 DEF MovedMilestone, day
  <2>. QED BY <1>1, <2>1
<1>. QED BY <1>6, <1>7

(* Trying a node once more.                                                *)
LEMMA CompactNodeKeeps == ASSUME IInv, NEW n \in Nodes, CompactNode(n) PROVE IInv'
<1>1. /\ stage = "compacting" /\ n \in DOMAIN pass.todo
      /\ now' = IF EarliestStart(now, n) >= FinishOf(now, n) THEN now
                ELSE IF n \in Tasks THEN Retried(now, Again(now, n), n)
                ELSE MovedMilestone(now, n)
      /\ pass' = [pass EXCEPT !.todo = Without(@, n), !.moved = @ \/ Improves(now, now', n)]
      /\ UNCHANGED <<plan, today, started, saved, agenda, stage, asked>>
  BY Zenon DEF CompactNode
<1>2. /\ ReadsOK /\ Acyclic(plan) /\ StateOK(now) /\ asked \in 0 .. MaxRequests
      /\ StatusKept(now) /\ Ahead(now) /\ Ordered(now) /\ Budget(now)
      /\ AgendaOK(agenda, now, Underway)
      /\ agenda = <<>> /\ DOMAIN pass.todo \subseteq Movable(now)
  BY <1>1 DEF IInv, RunInv
<1>3. AllocsOK(now) /\ n \in Movable(now)
  BY <1>1, <1>2 DEF StateOK
<1>4. /\ StateOK(now')
      /\ Movable(now') = Movable(now) /\ Inserted(now') = Inserted(now)
      /\ StatusKept(now') /\ Ahead(now') /\ Ordered(now') /\ Budget(now')
  <2>1. CASE EarliestStart(now, n) >= FinishOf(now, n)
    BY <1>1, <1>2, <2>1
  <2>2. CASE n \in Tasks /\ ~ (EarliestStart(now, n) >= FinishOf(now, n))
    <3>1. now' = Retried(now, Again(now, n), n)
      BY <1>1, <2>2
    <3>2. n \in DOMAIN now.tasks /\ now.tasks[n].status = "NotStarted"
      BY <1>3, <2>2, Apart DEF Movable
    <3>3. ~ InProgress(n)
      BY <1>2, <3>2 DEF StatusKept, InProgress
    <3>4. \A d \in DepsOf(n) : now.tasks[n].start >= Allows(now, n, d)
      BY <1>2, <1>3, <2>2 DEF Ordered, StartOf
    <3>5. /\ StateOK(now') /\ now'.milestones = now.milestones
          /\ DOMAIN now'.tasks = DOMAIN now.tasks /\ now'.tasks[n].status = "NotStarted"
          /\ \A x \in DOMAIN now.tasks \ {n} : now'.tasks[x] = now.tasks[x]
          /\ EndOf(now'.tasks[n]) <= EndOf(now.tasks[n])
          /\ \A d \in DepsOf(n) : now'.tasks[n].start >= Allows(now, n, d)
          /\ Budget(now) => Budget(now')
      BY <1>2, <2>2, <3>1, <3>2, <3>3, <3>4, RetriedIs
    <3>6. \A x : x # n => SameAt(now, now', x)
      BY <3>5 DEF SameAt
    <3>7. FinishOf(now', n) <= FinishOf(now, n)
      BY <2>2, <3>5 DEF FinishOf
    <3>8. \A d \in DepsOf(n) : StartOf(now', n) >= Allows(now, n, d)
      BY <2>2, <3>5 DEF StartOf
    <3>9. DOMAIN now'.milestones = DOMAIN now.milestones
      BY <3>5
    <3>. QED BY <1>2, <1>3, <3>5, <3>6, <3>7, <3>8, <3>9, EarlierKeepsOrder
  <2>3. CASE n \notin Tasks /\ ~ (EarliestStart(now, n) >= FinishOf(now, n))
    <3>1. now' = MovedMilestone(now, n) /\ n \in Milestones
      BY <1>1, <2>3 DEF Nodes
    <3>2. n \in DOMAIN now.milestones
      BY <1>3, <3>1, Apart DEF Movable
    <3>3. \A d \in DepsOf(n) : now.milestones[n].date >= Allows(now, n, d)
      BY <1>2, <1>3, <2>3 DEF Ordered, StartOf
    <3>4. /\ StateOK(now') /\ now'.tasks = now.tasks /\ now'.cap = now.cap
          /\ DOMAIN now'.milestones = DOMAIN now.milestones
          /\ \A x \in DOMAIN now.milestones \ {n} : now'.milestones[x] = now.milestones[x]
          /\ now'.milestones[n].date <= now.milestones[n].date
          /\ \A d \in DepsOf(n) : now'.milestones[n].date >= Allows(now, n, d)
      BY <1>2, <3>1, <3>2, <3>3, MovedMilestoneIs
    <3>5. \A x : x # n => SameAt(now, now', x)
      BY <3>4 DEF SameAt
    <3>6. FinishOf(now', n) <= FinishOf(now, n)
      BY <2>3, <3>4 DEF FinishOf
    <3>7. \A d \in DepsOf(n) : StartOf(now', n) >= Allows(now, n, d)
      BY <2>3, <3>4 DEF StartOf
    <3>8. DOMAIN now'.tasks = DOMAIN now.tasks
      BY <3>4
    <3>9. Budget(now')
      BY <1>2, <3>4, SameBudget
    <3>. QED BY <1>2, <1>3, <2>3, <3>4, <3>5, <3>6, <3>7, <3>8, <3>9, EarlierKeepsOrder
  <2>. QED BY <2>1, <2>2, <2>3
<1>5. DOMAIN pass'.todo \subseteq Movable(now')
  <2>1. DOMAIN pass'.todo \subseteq DOMAIN pass.todo
    <3>. DEFINE left == Without(pass.todo, n)
                gain == pass.moved \/ Improves(now, now', n)
    <3>1. DOMAIN left \subseteq DOMAIN pass.todo
      BY DEF Without
    <3>2. pass' = [pass EXCEPT !.todo = left, !.moved = gain]
      BY <1>1
    <3>. HIDE DEF left, gain
    <3>3. pass'.todo = left \/ pass'.todo = pass.todo
      BY <3>2
    <3>. QED BY <3>1, <3>3
  <2>. QED BY <1>2, <1>4, <2>1
<1>6. RunInv'
  <2>1. StatusKept(now)' /\ Ahead(now)' /\ Ordered(now)' /\ Budget(now)'
    BY <1>1, <1>4 DEF StatusKept, Ahead, Ordered, StatusOf, DepsOf, Allows, Budget
  <2>2. AgendaOK(agenda, now, Underway)'
    BY <1>1, <1>2, <1>4 DEF AgendaOK
  <2>. QED BY <1>1, <1>2, <1>5, <2>1, <2>2 DEF RunInv
<1>. QED BY <1>1, <1>2, <1>4, <1>6 DEF IInv, ReadsOK

(* The end of a run: every task keeps its status.                          *)
LEMMA CommitKeeps ==
    ASSUME IInv, Commit
    PROVE  IInv' /\ \A t \in Tasks : StatusOf(saved', t) = StatusOf(saved, t)
<1>1. /\ stage = "compacting"
      /\ saved' = [tasks |-> now.tasks, milestones |-> now.milestones, late |-> now.late]
      /\ now' = Nothing /\ stage' = "idle"
      /\ UNCHANGED <<plan, today, started, agenda, asked>>
  BY DEF Commit
<1>2. /\ ReadsOK /\ Acyclic(plan) /\ StateOK(now) /\ asked \in 0 .. MaxRequests
      /\ StatusKept(now) /\ Ordered(now) /\ Budget(now) /\ Nodes \subseteq Inserted(now)
  BY <1>1 DEF IInv, RunInv, AgendaOK
<1>3. AllocsOK(now)
  BY <1>2 DEF StateOK
<1>4. SavedOK(saved') /\ saved'.tasks = now.tasks /\ saved'.milestones = now.milestones
  BY <1>1, <1>3 DEF SavedOK, AllocsOK, AllocationsOK
<1>5. Ordered(saved') /\ Ordered(saved)'
  <2>1. ASSUME NEW x, NEW d \in DepsOf(x) PROVE Allows(saved', x, d) = Allows(now, x, d)
    BY <1>4, SameAllowed DEF SameAt, DepsOf
  <2>2. \A x : StartOf(saved', x) = StartOf(now, x)
    BY <1>4 DEF StartOf
  <2>3. Movable(saved') = Movable(now)
    BY <1>4 DEF Movable
  <2>4. Ordered(saved')
    BY <1>2, <2>1, <2>2, <2>3 DEF Ordered
  <2>. QED BY <1>1, <2>4 DEF Ordered, DepsOf, Allows
<1>6. ASSUME NEW t \in Tasks PROVE StatusOf(saved', t) = StatusOf(saved, t)
  <2>1. t \in DOMAIN now.tasks
    BY <1>2, <1>3, Apart DEF Inserted, Nodes
  <2>. QED BY <1>2, <1>4, <2>1 DEF StatusKept, StatusOf
<1>7. StateOK(now') /\ Movable(now') = {}
  <2>1. DOMAIN Nothing.tasks = {} /\ DOMAIN Nothing.milestones = {} /\ DOMAIN Nothing.late = {}
    BY DEF Nothing
  <2>2. CapOK(Nothing.cap)
    BY DEF CapOK, Nothing, NoHours
  <2>3. Nothing = [tasks |-> Nothing.tasks, milestones |-> Nothing.milestones,
                   late |-> Nothing.late, cap |-> Nothing.cap]
    BY DEF Nothing
  <2>. QED BY <1>1, <2>1, <2>2, <2>3 DEF StateOK, AllocsOK, AllocationsOK, Movable
<1>8. ReadsOK'
  BY <1>1, <1>2, <1>4 DEF ReadsOK, SavedOK, AllocsOK, AllocationsOK
<1>9. WithinHours(saved)'
  <2>1. WithinHours(now)
    BY <1>2, BudgetIsWithinHours
  <2>. QED BY <1>1, <1>4, <2>1 DEF WithinHours, Scheduled
<1>. QED BY <1>1, <1>2, <1>5, <1>6, <1>7, <1>8, <1>9 DEF IInv

(* A day goes by.                                                         *)
LEMMA NextDayKeeps == ASSUME IInv, NextDay PROVE IInv'
<1>1. /\ stage = "idle" /\ today < LastDay /\ today' = today + 1
      /\ UNCHANGED <<plan, started, saved, now, agenda, pass, stage, asked>>
  BY DEF NextDay
<1>2. /\ ReadsOK /\ Acyclic(plan) /\ StateOK(now) /\ asked \in 0 .. MaxRequests
      /\ Ordered(saved) /\ Movable(now) = {} /\ WithinHours(saved)
  BY <1>1 DEF IInv
<1>3. today' \in FirstDay .. LastDay
  BY <1>1, <1>2, DaysAssumption, DaysAreNat DEF ReadsOK
<1>4. ReadsOK'
  BY <1>1, <1>2, <1>3 DEF ReadsOK
<1>5. Ordered(saved)'
  <2>1. ASSUME NEW x, NEW d \in DepsOf(x) PROVE Allows(saved, x, d)' = Allows(saved, x, d)
    BY <1>1 DEF Allows, DepsOf
  <2>. QED BY <1>1, <1>2, <2>1 DEF Ordered, DepsOf
<1>6. WithinHours(saved)'
  <2>1. today' .. Horizon \subseteq today .. Horizon
    BY <1>1, <1>2, DaysAreNat, DaysAssumption DEF ReadsOK
  <2>. QED BY <1>1, <1>2, <2>1 DEF WithinHours, Scheduled
<1>. QED BY <1>1, <1>2, <1>4, <1>5, <1>6 DEF IInv

-----------------------------------------------------------------------------
(* The requests.                                                           *)

EntryOK(a) == a \in Allocation /\ IsFiniteSet(a.work)
(* At most one status changes, and by a request only.                      *)
OneStatus ==
    Cardinality({t \in Tasks : StatusOf(saved', t) # StatusOf(saved, t)})
        <= IF stage = "idle" THEN 1 ELSE 0

LEMMA NoneChanges ==
    ASSUME \A x \in Tasks : StatusOf(saved', x) = StatusOf(saved, x)
    PROVE  OneStatus
<1>1. {t \in Tasks : StatusOf(saved', t) # StatusOf(saved, t)} = {}
  OBVIOUS
<1>. QED BY <1>1, FS_EmptySet DEF OneStatus

LEMMA OneChanges ==
    ASSUME stage = "idle", NEW t \in Tasks,
           \A x \in Tasks \ {t} : StatusOf(saved', x) = StatusOf(saved, x)
    PROVE  OneStatus
<1>. DEFINE S == {x \in Tasks : StatusOf(saved', x) # StatusOf(saved, x)}
<1>1. S \in SUBSET {t}
  OBVIOUS
<1>. HIDE DEF S
<1>2. IsFiniteSet({t}) /\ Cardinality({t}) = 1
  BY FS_Singleton, Zenon
<1>3. Cardinality(S) <= 1
  BY <1>1, <1>2, FS_Subset
<1>. QED BY <1>3 DEF OneStatus, S

(* A run that a request starts.                                            *)
LEMMA RequestKeeps ==
    ASSUME IInv, NEW kind, Request(kind), NEW alloc, SavedOK(alloc),
           NEW begun \in [Tasks -> Nat \cup {NoDay}],
           NEW hours \in [Users -> [Days -> Nat]], Run(alloc, begun, hours)
    PROVE  /\ IInv' /\ stage = "idle"
           /\ \A t \in Tasks : StatusOf(saved', t) = StatusOf(alloc, t)
<1>1. /\ PlanOK(plan) /\ Acyclic(plan) /\ today \in FirstDay .. LastDay
      /\ stage = "idle" /\ asked \in 0 .. MaxRequests /\ asked < MaxRequests
      /\ asked' = asked + 1
  BY DEF IInv, ReadsOK, Request
<1>2. /\ ReadsOK' /\ Acyclic(plan)' /\ StateOK(now)' /\ stage' = "inserting" /\ RunInv'
      /\ \A t \in Tasks : StatusOf(saved', t) = StatusOf(alloc, t)
  BY <1>1, RunBegins
<1>3. asked' \in 0 .. MaxRequests
  BY <1>1, BoundsAssumption
<1>. QED BY <1>1, <1>2, <1>3 DEF IInv

LEMMA HoursAndDays ==
    ASSUME IInv
    PROVE  /\ plan.hours \in [Users -> [Days -> Nat]] /\ SavedOK(saved)
           /\ started \in [Tasks -> Nat \cup {NoDay}] /\ today \in Nat
BY DaysAreNat DEF IInv, ReadsOK, PlanOK

LEMMA EntryIsOK ==
    ASSUME SavedOK(saved), NEW t \in Tasks
    PROVE  EntryOK(Entry(t))
<1>1. EntryOK(NotStarted)
  BY FS_EmptySet DEF EntryOK, NotStarted, Epoch, Allocation, Status
<1>2. t \in DOMAIN saved.tasks => EntryOK(saved.tasks[t])
  BY DEF SavedOK, AllocsOK, AllocationsOK, EntryOK
<1>. QED BY <1>1, <1>2 DEF Entry

LEMMA EndedIsOK ==
    ASSUME NEW a, EntryOK(a), NEW day \in Nat
    PROVE  EntryOK(EndedOn(a, day))
<1>1. [a EXCEPT !.corrected = day] \in Allocation
      /\ [a EXCEPT !.corrected = day].work = a.work
  BY DEF EntryOK, Allocation
<1>2. EntryOK(Fixed(a.status, a.start, day, {}))
  BY FS_EmptySet DEF EntryOK, Fixed, Allocation
<1>. QED BY <1>1, <1>2 DEF EndedOn, EntryOK

LEMMA StatusIsOK ==
    ASSUME NEW a, EntryOK(a), NEW status \in Status
    PROVE  EntryOK([a EXCEPT !.status = status])
BY DEF EntryOK, Allocation

(* A request that gives a task another entry.                              *)
LEMMA RunWithKeeps ==
    ASSUME IInv, NEW kind, Request(kind), NEW t \in Tasks, NEW entry, EntryOK(entry),
           NEW begun \in [Tasks -> Nat \cup {NoDay}], RunWith(t, entry, begun)
    PROVE  IInv' /\ OneStatus
<1>. DEFINE tasks == With(saved.tasks, t, entry)
            alloc == [saved EXCEPT !.tasks = With(@, t, entry)]
<1>1. SavedOK(saved) /\ plan.hours \in [Users -> [Days -> Nat]]
  BY HoursAndDays
<1>2. /\ DOMAIN tasks = DOMAIN saved.tasks \cup {t} /\ tasks[t] = entry
      /\ \A x \in DOMAIN saved.tasks \ {t} : tasks[x] = saved.tasks[x]
  BY DEF With
<1>3. alloc = [saved EXCEPT !.tasks = tasks]
  OBVIOUS
<1>4. Run(alloc, begun, plan.hours)
  BY DEF RunWith
<1>. HIDE DEF tasks, alloc
<1>5. alloc = [tasks |-> tasks, milestones |-> saved.milestones, late |-> saved.late]
  BY <1>1, <1>3 DEF SavedOK
<1>6. SavedOK(alloc)
  BY <1>1, <1>2, <1>5 DEF SavedOK, AllocsOK, AllocationsOK, EntryOK
<1>7. \A x \in Tasks \ {t} : StatusOf(alloc, x) = StatusOf(saved, x)
  BY <1>2, <1>5 DEF StatusOf
<1>8. /\ IInv' /\ stage = "idle"
      /\ \A x \in Tasks : StatusOf(saved', x) = StatusOf(alloc, x)
  BY <1>1, <1>4, <1>6, RequestKeeps
<1>. QED BY <1>7, <1>8, OneChanges

LEMMA StartTaskKeeps ==
    ASSUME IInv, NEW t \in Tasks, StartTask(t) PROVE IInv' /\ OneStatus
<1>. DEFINE day == IF started[t] = NoDay THEN today ELSE started[t]
<1>1. started \in [Tasks -> Nat \cup {NoDay}] /\ today \in Nat
  BY HoursAndDays
<1>2. day \in Nat
  BY <1>1
<1>3. Request("StartTask")
      /\ RunWith(t, Fixed("InProgress", day, day, {}), [started EXCEPT ![t] = day])
  BY DEF StartTask
<1>. HIDE DEF day
<1>4. EntryOK(Fixed("InProgress", day, day, {}))
  BY <1>2, FS_EmptySet DEF EntryOK, Fixed, Allocation, Status
<1>5. [started EXCEPT ![t] = day] \in [Tasks -> Nat \cup {NoDay}]
  BY <1>1, <1>2
<1>. QED BY <1>3, <1>4, <1>5, RunWithKeeps

LEMMA CompleteTaskKeeps ==
    ASSUME IInv, NEW t \in Tasks, CompleteTask(t) PROVE IInv' /\ OneStatus
<1>1. SavedOK(saved) /\ started \in [Tasks -> Nat \cup {NoDay}] /\ today \in Nat
  BY HoursAndDays
<1>2. EntryOK([EndedOn(Entry(t), today) EXCEPT !.status = "Complete"])
  BY <1>1, EntryIsOK, EndedIsOK, StatusIsOK DEF Status
<1>3. Request("CompleteTask")
      /\ RunWith(t, [EndedOn(Entry(t), today) EXCEPT !.status = "Complete"], started)
  BY DEF CompleteTask
<1>. QED BY <1>1, <1>2, <1>3, RunWithKeeps

LEMMA OtherStatusKeeps ==
    ASSUME IInv, NEW t \in Tasks, PauseTask(t) \/ ResumeTask(t) \/ DropTask(t)
    PROVE  IInv' /\ OneStatus
<1>1. SavedOK(saved) /\ started \in [Tasks -> Nat \cup {NoDay}]
  BY HoursAndDays
<1>2. PICK status \in Status, kind \in {"PauseTask", "ResumeTask", "DropTask"} :
          Request(kind) /\ RunWith(t, [Entry(t) EXCEPT !.status = status], started)
  BY DEF PauseTask, ResumeTask, DropTask, Status
<1>3. EntryOK([Entry(t) EXCEPT !.status = status])
  BY <1>1, EntryIsOK, StatusIsOK
<1>. QED BY <1>1, <1>2, <1>3, RunWithKeeps

(* What is thrown away has no status to lose.                              *)
LEMMA InvalidatedIs ==
    ASSUME SavedOK(saved), NEW t \in Tasks, NEW e, EntryOK(e)
    PROVE  LET alloc == Invalidated(With(saved.tasks, t, e))
           IN  /\ SavedOK(alloc)
               /\ \A x \in Tasks \ {t} : StatusOf(alloc, x) = StatusOf(saved, x)
<1>. DEFINE tasks == With(saved.tasks, t, e)
            kept == {x \in DOMAIN tasks : tasks[x].kind = "Fixed" \/ tasks[x].status # "NotStarted"}
            left == [x \in kept |-> tasks[x]]
            alloc == Invalidated(tasks)
<1>1. /\ DOMAIN tasks = DOMAIN saved.tasks \cup {t} /\ tasks[t] = e
      /\ \A x \in DOMAIN saved.tasks \ {t} : tasks[x] = saved.tasks[x]
  BY DEF With
<1>2. \A x \in DOMAIN tasks : x \in Tasks /\ EntryOK(tasks[x])
  BY <1>1 DEF SavedOK, AllocsOK, AllocationsOK, EntryOK
<1>. HIDE DEF tasks
<1>3. alloc = [tasks |-> left, milestones |-> <<>>, late |-> <<>>]
  BY DEF Invalidated
<1>4. DOMAIN left = kept /\ \A x \in kept : left[x] = tasks[x]
  OBVIOUS
<1>5. kept \subseteq Tasks /\ \A x \in kept : EntryOK(left[x])
  BY <1>2, <1>4
<1>6. \A x \in Tasks \ {t} : x \notin kept => StatusOf(saved, x) = "NotStarted"
  BY <1>1 DEF StatusOf
<1>7. \A x \in Tasks \ {t} : x \in kept => StatusOf(saved, x) = left[x].status
  BY <1>1 DEF StatusOf
<1>. HIDE DEF left, kept, alloc
<1>8. SavedOK(alloc)
  BY <1>3, <1>4, <1>5 DEF SavedOK, AllocsOK, AllocationsOK, EntryOK
<1>9. \A x \in Tasks \ {t} : StatusOf(alloc, x) = StatusOf(saved, x)
  BY <1>3, <1>4, <1>6, <1>7 DEF StatusOf
<1>. QED BY <1>8, <1>9 DEF alloc, tasks

LEMMA UpdateTaskKeeps ==
    ASSUME IInv, NEW t \in Tasks, NEW status \in Status,
           NEW start \in (FirstDay .. today) \cup {NoDay},
           NEW end \in (FirstDay .. today) \cup {NoDay}, UpdateTask(t, status, start, end)
    PROVE  IInv' /\ OneStatus
<1>. DEFINE a == [Entry(t) EXCEPT !.status = status]
            day == IF started[t] = NoDay THEN Epoch ELSE started[t]
            b == IF status # "NotStarted" /\ a.kind = "Dynamic"
                 THEN Fixed(status, day, day, {}) ELSE a
            c == IF start # NoDay /\ b.kind = "Fixed" THEN [b EXCEPT !.start = start] ELSE b
            e == IF end # NoDay THEN EndedOn(c, end) ELSE c
            begun == IF start = NoDay THEN started ELSE [started EXCEPT ![t] = start]
<1>1. Request("UpdateTask") /\ Run(Invalidated(With(saved.tasks, t, e)), begun, plan.hours)
  BY DEF UpdateTask
<1>2. /\ SavedOK(saved) /\ started \in [Tasks -> Nat \cup {NoDay}] /\ today \in Nat
      /\ plan.hours \in [Users -> [Days -> Nat]] /\ FirstDay \in Nat
  BY HoursAndDays, DaysAssumption DEF Days
<1>3. (start # NoDay => start \in Nat) /\ (end # NoDay => end \in Nat)
  BY <1>2
<1>4. begun \in [Tasks -> Nat \cup {NoDay}]
  BY <1>2, <1>3
<1>5. EntryOK(a) /\ day \in Nat
  BY <1>2, EntryIsOK, StatusIsOK DEF Epoch
<1>. HIDE DEF a, day, begun
<1>6. EntryOK(b)
  <2>1. EntryOK(Fixed(status, day, day, {}))
    BY <1>5, FS_EmptySet DEF EntryOK, Fixed, Allocation
  <2>. QED BY <1>5, <2>1
<1>. HIDE DEF b
<1>7. EntryOK(c)
  <2>1. start # NoDay => EntryOK([b EXCEPT !.start = start])
    BY <1>3, <1>6 DEF EntryOK, Allocation
  <2>. QED BY <1>6, <2>1
<1>. HIDE DEF c
<1>8. EntryOK(e)
  BY <1>3, <1>7, EndedIsOK
<1>. HIDE DEF e
<1>. DEFINE alloc == Invalidated(With(saved.tasks, t, e))
<1>9. SavedOK(alloc) /\ \A x \in Tasks \ {t} : StatusOf(alloc, x) = StatusOf(saved, x)
  BY <1>2, <1>8, InvalidatedIs
<1>. HIDE DEF alloc
<1>10. /\ IInv' /\ stage = "idle"
       /\ \A x \in Tasks : StatusOf(saved', x) = StatusOf(alloc, x)
  BY <1>1, <1>2, <1>4, <1>9, RequestKeeps DEF alloc
<1>. QED BY <1>9, <1>10, OneChanges

LEMMA CalendarKeeps ==
    ASSUME IInv, NEW u \in Users, NEW day \in today .. LastDay, NEW hours \in {0, PerDay},
           SetUserCalendarOverride(u, day, hours)
    PROVE  IInv' /\ OneStatus
<1>1. /\ SavedOK(saved) /\ started \in [Tasks -> Nat \cup {NoDay}]
      /\ plan.hours \in [Users -> [Days -> Nat]]
  BY HoursAndDays
<1>2. day \in Days /\ hours \in Nat
  <2>1. today \in FirstDay .. LastDay
    BY DEF IInv, ReadsOK
  <2>. QED BY <2>1, DaysAssumption, HoursAssumption DEF Days
<1>3. [plan.hours EXCEPT ![u][day] = hours] \in [Users -> [Days -> Nat]]
  BY <1>1, <1>2
<1>4. Request("SetUserCalendarOverride")
      /\ Run(saved, started, [plan.hours EXCEPT ![u][day] = hours])
  BY DEF SetUserCalendarOverride
<1>5. IInv' /\ \A x \in Tasks : StatusOf(saved', x) = StatusOf(saved, x)
  BY <1>1, <1>3, <1>4, RequestKeeps
<1>. QED BY <1>5, NoneChanges

LEMMA RunSchedulerKeeps == ASSUME IInv, RunScheduler PROVE IInv' /\ OneStatus
<1>1. /\ SavedOK(saved) /\ started \in [Tasks -> Nat \cup {NoDay}]
      /\ plan.hours \in [Users -> [Days -> Nat]]
  BY HoursAndDays
<1>2. Request("RunScheduler") /\ Run(saved, started, plan.hours)
  BY DEF RunScheduler
<1>3. IInv' /\ \A x \in Tasks : StatusOf(saved', x) = StatusOf(saved, x)
  BY <1>1, <1>2, RequestKeeps
<1>. QED BY <1>3, NoneChanges

(* Every step.                                                             *)
LEMMA NextIsSound == IInv /\ [Next]_vars => IInv' /\ OneStatus
<1>. SUFFICES ASSUME IInv, [Next]_vars PROVE IInv' /\ OneStatus
  OBVIOUS
<1>1. ASSUME NEW n \in Nodes, InsertNode(n) PROVE IInv' /\ OneStatus
  <2>1. saved' = saved
    BY <1>1 DEF InsertNode
  <2>. QED BY <1>1, <2>1, InsertNodeKeeps, NoneChanges
<1>2. ASSUME NEW n \in Nodes, CompactNode(n) PROVE IInv' /\ OneStatus
  <2>1. saved' = saved
    BY <1>2 DEF CompactNode
  <2>. QED BY <1>2, <2>1, CompactNodeKeeps, NoneChanges
<1>3. CASE StartPass
  <2>1. saved' = saved
    BY <1>3 DEF StartPass
  <2>. QED BY <1>3, <2>1, StartPassKeeps, NoneChanges
<1>4. CASE Commit
  BY <1>4, CommitKeeps, NoneChanges
<1>5. CASE RunScheduler
  BY <1>5, RunSchedulerKeeps
<1>6. ASSUME NEW t \in Tasks,
             StartTask(t) \/ PauseTask(t) \/ ResumeTask(t) \/ CompleteTask(t) \/ DropTask(t)
      PROVE  IInv' /\ OneStatus
  BY <1>6, StartTaskKeeps, CompleteTaskKeeps, OtherStatusKeeps
<1>7. ASSUME NEW t \in Tasks, NEW status \in Status,
             NEW start \in (FirstDay .. today) \cup {NoDay},
             NEW end \in (FirstDay .. today) \cup {NoDay}, UpdateTask(t, status, start, end)
      PROVE  IInv' /\ OneStatus
  BY <1>7, UpdateTaskKeeps
<1>8. ASSUME NEW u \in Users, NEW day \in today .. LastDay, NEW hours \in {0, PerDay},
             SetUserCalendarOverride(u, day, hours)
      PROVE  IInv' /\ OneStatus
  BY <1>8, CalendarKeeps
<1>9. CASE NextDay
  <2>1. saved' = saved
    BY <1>9 DEF NextDay
  <2>. QED BY <1>9, <2>1, NextDayKeeps, NoneChanges
<1>10. CASE UNCHANGED vars
  <2>1. UNCHANGED <<plan, today, started, saved, now, agenda, pass, stage, asked>>
    BY <1>10 DEF vars
  <2>2. StatusKept(now)' = StatusKept(now) /\ Ahead(now)' = Ahead(now)
    BY <2>1 DEF StatusKept, Ahead, StatusOf, DepsOf
  <2>3. Ordered(now)' = Ordered(now) /\ Ordered(saved)' = Ordered(saved)
    BY <2>1 DEF Ordered, DepsOf, Allows, DerivedComplete, StatusOf
  <2>4. AgendaOK(agenda, now, Underway)' = AgendaOK(agenda, now, Underway)
    BY <2>1 DEF AgendaOK, ListsOK, ListOK, Closed, DepsOf, Underway, InProgress, StatusOf
  <2>5. Budget(now)' = Budget(now) /\ WithinHours(saved)' = WithinHours(saved)
    BY <2>1 DEF Budget, WithinHours
  <2>6. IInv'
    BY <2>1, <2>2, <2>3, <2>4, <2>5 DEF IInv, RunInv, ReadsOK
  <2>7. OneStatus
    BY <2>1, NoneChanges
  <2>. QED BY <2>6, <2>7
<1>. QED BY <1>1, <1>2, <1>3, <1>4, <1>5, <1>6, <1>7, <1>8, <1>9, <1>10 DEF Next, RunStep

-----------------------------------------------------------------------------
(* The theorems.                                                           *)

THEOREM Invariance == Spec => []IInv
<1>1. Init => IInv
  BY InitIsSound
<1>2. IInv /\ [Next]_vars => IInv'
  BY NextIsSound
<1>. QED BY <1>1, <1>2, PTL DEF Spec

(* Whatever the plan, the days and the requests: allocations are           *)
(* allocations, days numbers, and hours left are never less than none.     *)
THEOREM TypeCorrect == Spec => []TypeOK
<1>1. IInv => TypeOK
  BY IInvMeans
<1>. QED BY <1>1, Invariance, PTL

(* topological_critical_path_sort never lets a node in before what it      *)
(* waits for, whatever the durations and lags.                             *)
THEOREM InsertedInOrder == Spec => []NothingOvertaken
<1>1. IInv => NothingOvertaken
  BY IInvMeans
<1>. QED BY <1>1, Invariance, PTL

(* The schedule keeps to the dependencies, however the lists and the       *)
(* passes of compaction move its nodes.                                    *)
THEOREM SchedulesInOrder == Spec => []InOrder
<1>1. IInv => InOrder
  BY IInvMeans
<1>. QED BY <1>1, Invariance, PTL

(* Nobody is booked for more than the calendar has on a day on which the   *)
(* run plans work, whatever is tried, discarded and begun anew.            *)
THEOREM NobodyIsOverbooked == Spec => []NoOverbooking
<1>1. IInv => NoOverbooking
  BY IInvMeans
<1>. QED BY <1>1, Invariance, PTL

(* Runs change no status, and a request that of its task only.             *)
THEOREM StatusesAreKept == Spec => OneStatusAtATime
<1>1. IInv /\ [Next]_vars
        => [Cardinality({t \in Tasks : StatusOf(saved', t) # StatusOf(saved, t)})
              <= IF stage = "idle" THEN 1 ELSE 0]_vars
  BY NextIsSound DEF OneStatus
<1>. QED BY <1>1, Invariance, PTL DEF Spec, OneStatusAtATime
=============================================================================
