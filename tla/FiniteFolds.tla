------------------------------ MODULE FiniteFolds ------------------------------
(***************************************************************************)
(* Facts about finite sets, their least and greatest elements and the sums *)
(* over them, that the proofs of other modules cite.                       *)
(*                                                                         *)
(* A fold over a set is a recursive function on the subsets of a finite    *)
(* set.  Induction over it is done by a least counterexample, which exists *)
(* because inclusion is well-founded.                                      *)
(***************************************************************************)
EXTENDS Integers, Sequences, FiniteSets, FiniteSetsExt, SequencesExt, Functions,
        FiniteSetTheorems, TLAPS

-----------------------------------------------------------------------------
(* Least counterexamples.                                                  *)

LEMMA LeastSet ==
  ASSUME NEW F, F # {}, \A A \in F : IsFiniteSet(A)
  PROVE  \E A \in F : \A B \in F : B \subseteq A => B = A
<1>1. PICK S \in F : IsFiniteSet(S)
  OBVIOUS
<1> DEFINE G == {A \in F : A \subseteq S}
<1>2. G \subseteq FiniteSubsetsOf(S) /\ G # {}
  BY <1>1, FS_FiniteSubsetsOfFinite
<1>3. PICK A \in G : \A B \in G : ~(<<B, A>> \in StrictSubsetOrdering(S))
  BY <1>2, FS_StrictSubsetOrderingWellFounded, WFMin
<1>4. ASSUME NEW B \in F, B \subseteq A, B # A
      PROVE  FALSE
  <2>1. <<B, A>> \in StrictSubsetOrdering(S) /\ B \in G
    BY <1>4 DEF StrictSubsetOrdering
  <2> QED
    BY <2>1, <1>3
<1> QED
  BY <1>4

(* Of a set of naturals the initial segments it spans are such sets.       *)
LEMMA LeastNat ==
  ASSUME NEW T \in SUBSET Nat, T # {}
  PROVE  \E x \in T : \A y \in T : x <= y
<1> DEFINE F == {1..y : y \in T}
<1>2. \A y \in T : IsFiniteSet(1..y)
  BY FS_Interval
<1>3. \A A \in F : IsFiniteSet(A)
  BY <1>2
<1>4. F # {}
  OBVIOUS
<1>5. \E A \in F : \A B \in F : B \subseteq A => B = A
  <2> HIDE DEF F
  <2> QED
    BY <1>3, <1>4, LeastSet
<1>6. PICK x \in T : \A B \in F : B \subseteq 1..x => B = 1..x
  BY <1>5
<1>7. ASSUME NEW y \in T, y < x
      PROVE  FALSE
  <2>1. 1..y \in F
    OBVIOUS
  <2>2. 1..y \subseteq 1..x
    BY <1>7
  <2>3. x \in 1..x /\ x \notin 1..y
    BY <1>7
  <2> QED
    BY <2>1, <2>2, <2>3, <1>6
<1> QED
  BY <1>7

LEMMA ImageFinite ==
  ASSUME NEW S, IsFiniteSet(S), NEW g
  PROVE  IsFiniteSet({g[x] : x \in S})
<1> DEFINE T == {g[x] : x \in S}
           h == [x \in S |-> g[x]]
<1>1. h \in Surjection(S, T)
  BY DEF Surjection
<1> HIDE DEF T, h
<1>2. IsFiniteSet(T)
  BY <1>1, FS_Surjection
<1> QED
  BY <1>2 DEF T

LEMMA MinIs ==
  ASSUME NEW T \in SUBSET Nat, T # {}
  PROVE  Min(T) \in T
<1>1. \E x \in T : \A y \in T : x <= y
  BY LeastNat
<1> QED
  BY <1>1 DEF Min

LEMMA MinLeast ==
  ASSUME NEW T \in SUBSET Nat, T # {}, NEW y \in T
  PROVE  Min(T) <= y
<1>1. \E x \in T : \A z \in T : x <= z
  BY LeastNat
<1> QED
  BY <1>1 DEF Min

LEMMA MaxIs ==
  ASSUME NEW T \in SUBSET Nat, IsFiniteSet(T), T # {}
  PROVE  Max(T) \in T /\ \A y \in T : Max(T) >= y
<1> DEFINE Above(x) == {y \in T : y > x}
           F == {Above(x) : x \in T}
<1>1. \E A \in F : \A B \in F : B \subseteq A => B = A
  <2>1. \A x \in T : IsFiniteSet(Above(x))
    <3>1. \A x \in T : Above(x) \in SUBSET T
      OBVIOUS
    <3> HIDE DEF Above
    <3> QED
      BY <3>1, FS_Subset
  <2>2. F # {} /\ \A A \in F : IsFiniteSet(A)
    BY <2>1
  <2> HIDE DEF F
  <2> QED
    BY <2>2, LeastSet
<1>2. PICK x \in T : \A B \in F : B \subseteq Above(x) => B = Above(x)
  BY <1>1
<1>3. ASSUME NEW y \in T, y > x
      PROVE  FALSE
  <2>1. Above(y) \in F
    OBVIOUS
  <2>2. Above(y) \subseteq Above(x)
    <3>1. \A a, b, c \in Nat : a > b /\ b > c => a > c
      OBVIOUS
    <3> QED
      BY <1>3, <3>1
  <2>3. y \in Above(x) /\ y \notin Above(y)
    BY <1>3
  <2> QED
    BY <2>1, <2>2, <2>3, <1>2
<1>4. \A y \in T : x >= y
  BY <1>3
<1> QED
  BY <1>4 DEF Max

-----------------------------------------------------------------------------
(* Recursion over the subsets of a finite set: whatever element is taken   *)
(* out of a set, and whatever it does to the result for the others, there  *)
(* is a function that does so.                                             *)
Foldable(S, V, base, pick, step) ==
  /\ IsFiniteSet(S) /\ base \in V
  /\ \A A \in SUBSET S : A # {} => pick[A] \in A
  /\ \A x \in S : \A v \in V : step[x][v] \in V

Folded(g, S, V, base, pick, step) ==
  /\ g \in [SUBSET S -> V]
  /\ \A A \in SUBSET S :
       g[A] = IF A = {} THEN base ELSE step[pick[A]][g[A \ {pick[A]}]]

LEMMA FoldDefined ==
  ASSUME NEW S, NEW V, NEW base, NEW pick, NEW step, Foldable(S, V, base, pick, step)
  PROVE  \E g : Folded(g, S, V, base, pick, step)
<1> USE DEF Foldable
<1> DEFINE Upto(n) == {A \in SUBSET S : Cardinality(A) <= n}
           Right(g, n) ==
             \A A \in Upto(n) :
               g[A] = IF A = {} THEN base ELSE step[pick[A]][g[A \ {pick[A]}]]
           Bad == {n \in Nat : ~ \E g \in [Upto(n) -> V] : Right(g, n)}
<1>1. \A A \in SUBSET S : IsFiniteSet(A) /\ Cardinality(A) \in Nat
  BY FS_Subset, FS_CardinalityType
<1>2. ASSUME NEW n \in Bad, \A m \in Bad : n <= m
      PROVE  FALSE
  <2>1. CASE n = 0
    <3>1. \A A \in Upto(0) : A = {}
      BY <1>1, FS_EmptySet
    <3> DEFINE g == [A \in Upto(0) |-> base]
    <3>2. g \in [Upto(0) -> V] /\ Right(g, 0)
      BY <3>1
    <3> QED
      BY <2>1, <3>2
  <2>2. CASE n > 0
    <3>1. n - 1 \in Nat /\ n - 1 \notin Bad
      <4>1. n \in Nat
        BY <1>2
      <4>2. n - 1 \in Nat /\ ~(n <= n - 1)
        BY <4>1, <2>2
      <4> HIDE DEF Bad
      <4> QED
        BY <4>2, <1>2
    <3>2. PICK h \in [Upto(n - 1) -> V] : Right(h, n - 1)
      BY <3>1
    <3> DEFINE g == [A \in Upto(n) |->
                       IF A = {} THEN base ELSE step[pick[A]][h[A \ {pick[A]}]]]
    <3>3. ASSUME NEW A \in Upto(n), A # {}
          PROVE  A \ {pick[A]} \in Upto(n - 1) /\ pick[A] \in S
      <4>1. pick[A] \in A
        BY <3>3
      <4>2. Cardinality(A \ {pick[A]}) = Cardinality(A) - 1
        BY <4>1, <1>1, FS_RemoveElement
      <4> QED
        BY <4>1, <4>2, <1>1
    <3>4. g \in [Upto(n) -> V]
      <4>1. ASSUME NEW A \in Upto(n), A # {}
            PROVE  step[pick[A]][h[A \ {pick[A]}]] \in V
        <5>1. h[A \ {pick[A]}] \in V
          BY <4>1, <3>3
        <5> QED
          BY <5>1, <4>1, <3>3
      <4> QED
        BY <4>1
    <3>5. \A A \in Upto(n - 1) : A \in Upto(n) /\ g[A] = h[A]
      <4>1. \A A \in Upto(n - 1) : A \in Upto(n)
        BY <1>1
      <4> QED
        BY <4>1, <3>2
    <3>6. Right(g, n)
      BY <3>3, <3>5
    <3> QED
      BY <3>4, <3>6
  <2> QED
    BY <2>1, <2>2
<1>3. Bad = {}
  <2>1. Bad \in SUBSET Nat
    OBVIOUS
  <2> HIDE DEF Bad
  <2> QED
    BY <2>1, <1>2, LeastNat
<1>4. PICK g \in [Upto(Cardinality(S)) -> V] : Right(g, Cardinality(S))
  BY <1>1, <1>3
<1>5. Upto(Cardinality(S)) = SUBSET S
  BY FS_Subset
<1>6. Folded(g, S, V, base, pick, step)
  BY <1>4, <1>5 DEF Folded
<1> QED
  BY <1>6

-----------------------------------------------------------------------------
(* Sums.  G gives the sum of f over each subset of S: what                 *)
(* SumFunctionOnSet says of it, in whatever order it takes the elements.   *)
IsSum(G, f, S) ==
  /\ G \in [SUBSET S -> Int]
  /\ G[{}] = 0
  /\ \A T \in SUBSET S : \A x \in T : G[T] = f[x] + G[T \ {x}]

LEMMA SumExists ==
  ASSUME NEW S, IsFiniteSet(S), NEW f \in [S -> Int]
  PROVE  \E G : IsSum(G, f, S)
<1> DEFINE pick == [A \in SUBSET S |-> CHOOSE x \in A : TRUE]
           step == [x \in S |-> [v \in Int |-> f[x] + v]]
<1>1. \A A \in SUBSET S : A # {} => pick[A] \in A
  OBVIOUS
<1>2. \A x \in S : \A v \in Int : step[x][v] \in Int
  OBVIOUS
<1>3. PICK G \in [SUBSET S -> Int] :
        \A A \in SUBSET S :
          G[A] = IF A = {} THEN 0 ELSE step[pick[A]][G[A \ {pick[A]}]]
  <2>1. Foldable(S, Int, 0, pick, step)
    <3> HIDE DEF pick, step
    <3> QED
      BY <1>1, <1>2 DEF Foldable
  <2>2. PICK g : Folded(g, S, Int, 0, pick, step)
    BY <2>1, FoldDefined
  <2> HIDE DEF pick, step
  <2> QED
    BY <2>2 DEF Folded
<1>4. \A A \in SUBSET S :
        A # {} => pick[A] \in A /\ G[A] = f[pick[A]] + G[A \ {pick[A]}]
  <2>1. ASSUME NEW A \in SUBSET S, A # {}
        PROVE  pick[A] \in A /\ G[A] = f[pick[A]] + G[A \ {pick[A]}]
    <3>1. pick[A] \in A /\ pick[A] \in S /\ G[A \ {pick[A]}] \in Int
      BY <2>1, <1>1
    <3>2. G[A] = step[pick[A]][G[A \ {pick[A]}]]
      BY <2>1, <1>3
    <3> HIDE DEF pick
    <3> QED
      BY <3>1, <3>2
  <2> QED
    BY <2>1
<1> DEFINE Bad == {T \in SUBSET S : \E x \in T : G[T] # f[x] + G[T \ {x}]}
<1>5. Bad = {}
  <2>1. ASSUME NEW T \in Bad, \A B \in Bad : B \subseteq T => B = T
        PROVE  FALSE
    <3>1. PICK x \in T : G[T] # f[x] + G[T \ {x}]
      OBVIOUS
    <3>2. PICK y \in T : G[T] = f[y] + G[T \ {y}]
      BY <1>4
    <3>3. x # y
      BY <3>1, <3>2
    <3> DEFINE Z == (T \ {x}) \ {y}
    <3>4. G[T \ {y}] = f[x] + G[Z]
      <4>1. T \ {y} \in SUBSET S /\ T \ {y} \notin Bad /\ x \in T \ {y}
        BY <2>1, <3>3
      <4>2. (T \ {y}) \ {x} = Z
        OBVIOUS
      <4> HIDE DEF Z
      <4> QED
        BY <4>1, <4>2
    <3>5. G[T \ {x}] = f[y] + G[Z]
      <4>1. T \ {x} \in SUBSET S /\ T \ {x} \notin Bad /\ y \in T \ {x}
        BY <2>1, <3>3
      <4> QED
        BY <4>1
    <3>6. f[x] \in Int /\ f[y] \in Int /\ G[Z] \in Int
      <4>1. Z \in SUBSET S /\ x \in S /\ y \in S
        OBVIOUS
      <4> HIDE DEF Z
      <4> QED
        BY <4>1
    <3> HIDE DEF Z
    <3> QED
      BY <3>1, <3>2, <3>4, <3>5, <3>6
  <2>2. \A A \in Bad : IsFiniteSet(A)
    BY FS_Subset
  <2> HIDE DEF Bad
  <2> QED
    BY <2>1, <2>2, LeastSet
<1>6. G[{}] = 0
  BY <1>3
<1>7. \A T \in SUBSET S : \A x \in T : G[T] = f[x] + G[T \ {x}]
  BY <1>5
<1>8. IsSum(G, f, S)
  BY <1>6, <1>7 DEF IsSum
<1> QED
  BY <1>8

(* SumFunctionOnSet sums, for the set it is given: the function it folds   *)
(* with is determined by its equations.                                    *)
LEMMA SumIs ==
  ASSUME NEW S, IsFiniteSet(S), NEW f \in [S -> Int], NEW G, IsSum(G, f, S),
         NEW T \in SUBSET S
  PROVE  SumFunctionOnSet(f, T) = G[T]
<1> DEFINE Eq(g) == g = [A \in SUBSET T |->
                          IF A = {} THEN 0
                          ELSE LET x == CHOOSE x \in A : TRUE IN f[x] + g[A \ {x}]]
           H == [A \in SUBSET T |-> G[A]]
           It == CHOOSE g : Eq(g)
<1>1. SumFunctionOnSet(f, T) = It[T]
  BY DEF SumFunctionOnSet, FoldFunctionOnSet, MapThenFoldSet
<1>2. Eq(H)
  <2>1. ASSUME NEW A \in SUBSET T, A # {}
        PROVE  G[A] = f[CHOOSE x \in A : TRUE] + H[A \ {CHOOSE x \in A : TRUE}]
    <3>1. PICK y \in A : y = CHOOSE x \in A : TRUE
      BY <2>1
    <3>2. A \in SUBSET S /\ A \ {y} \in SUBSET T
      OBVIOUS
    <3>3. G[A] = f[y] + G[A \ {y}]
      BY <3>2 DEF IsSum
    <3> QED
      BY <3>1, <3>2, <3>3
  <2>2. {} \in SUBSET T /\ G[{}] = 0
    BY DEF IsSum
  <2> QED
    BY <2>1, <2>2
<1>3. Eq(It)
  BY <1>2
<1>4. ASSUME NEW A \in SUBSET T
      PROVE  It[A] = IF A = {} THEN 0
                     ELSE LET x == CHOOSE x \in A : TRUE IN f[x] + It[A \ {x}]
  <2> HIDE DEF It
  <2> QED
    BY <1>3
<1> DEFINE Bad == {A \in SUBSET T : It[A] # G[A]}
<1>5. Bad = {}
  <2>1. ASSUME NEW A \in Bad, \A B \in Bad : B \subseteq A => B = A
        PROVE  FALSE
    <3>1. CASE A = {}
      BY <3>1, <1>4 DEF IsSum
    <3>2. CASE A # {}
      <4>1. PICK y \in A : y = CHOOSE x \in A : TRUE
        BY <3>2
      <4>2. A \ {y} \in SUBSET T /\ A \ {y} \notin Bad
        BY <2>1
      <4>3. It[A \ {y}] = G[A \ {y}]
        BY <4>2
      <4>4. It[A] = f[y] + It[A \ {y}]
        <5> HIDE DEF It
        <5> QED
          BY <4>1, <1>4, <3>2
      <4>5. G[A] = f[y] + G[A \ {y}]
        BY DEF IsSum
      <4> QED
        BY <4>3, <4>4, <4>5
    <3> QED
      BY <3>1, <3>2
  <2>2. \A A \in Bad : IsFiniteSet(A)
    <3>1. \A A \in Bad : A \in SUBSET S
      OBVIOUS
    <3> HIDE DEF Bad
    <3> QED
      BY <3>1, FS_Subset
  <2> HIDE DEF Bad
  <2> QED
    BY <2>1, <2>2, LeastSet
<1> QED
  BY <1>1, <1>5

(* Two functions that agree on a set have the same sum over it.            *)
LEMMA SumAgrees ==
  ASSUME NEW S, IsFiniteSet(S), NEW f, NEW G, IsSum(G, f, S),
         NEW h, NEW H, IsSum(H, h, S),
         NEW T \in SUBSET S, \A x \in T : f[x] = h[x]
  PROVE  G[T] = H[T]
<1> DEFINE Bad == {A \in SUBSET T : G[A] # H[A]}
<1>1. ASSUME NEW A \in Bad, \A B \in Bad : B \subseteq A => B = A
      PROVE  FALSE
  <2>1. CASE A = {}
    BY <2>1 DEF IsSum
  <2>2. CASE A # {}
    <3>1. PICK y \in A : TRUE
      BY <2>2
    <3>2. A \ {y} \in SUBSET T /\ A \ {y} \notin Bad
      BY <1>1
    <3>3. A \in SUBSET S
      OBVIOUS
    <3>4. G[A] = f[y] + G[A \ {y}] /\ H[A] = h[y] + H[A \ {y}]
      <4> HIDE DEF Bad
      <4> QED
        BY <3>3 DEF IsSum
    <3> QED
      BY <3>2, <3>4
  <2> QED
    BY <2>1, <2>2
<1>2. \A A \in Bad : IsFiniteSet(A)
  <2>1. \A A \in Bad : A \in SUBSET S
    OBVIOUS
  <2> HIDE DEF Bad
  <2> QED
    BY <2>1, FS_Subset
<1>3. Bad = {}
  <2> HIDE DEF Bad
  <2> QED
    BY <1>1, <1>2, LeastSet
<1> QED
  BY <1>3

(* A sum moves by what the function moves at the one place where it does.  *)
LEMMA SumAt ==
  ASSUME NEW S, IsFiniteSet(S), NEW f \in [S -> Int], NEW h \in [S -> Int],
         NEW c \in S, \A x \in S \ {c} : h[x] = f[x]
  PROVE  /\ SumFunctionOnSet(f, S) \in Int
         /\ SumFunctionOnSet(h, S)
              = SumFunctionOnSet(f, S) + h[c] - f[c]
<1>1. PICK G : IsSum(G, f, S)
  BY SumExists
<1>2. PICK H : IsSum(H, h, S)
  BY SumExists
<1>3. G[S \ {c}] = H[S \ {c}]
  BY <1>1, <1>2, SumAgrees
<1>4. /\ G[S] = f[c] + G[S \ {c}] /\ H[S] = h[c] + H[S \ {c}]
      /\ G[S] \in Int /\ G[S \ {c}] \in Int
  BY <1>1, <1>2 DEF IsSum
<1>5. /\ SumFunctionOnSet(f, S) = G[S]
      /\ SumFunctionOnSet(h, S) = H[S]
  BY <1>1, <1>2, SumIs
<1>6. f[c] \in Int /\ h[c] \in Int
  OBVIOUS
<1> HIDE DEF IsSum
<1> QED
  BY <1>3, <1>4, <1>5, <1>6

LEMMA SumZero ==
  ASSUME NEW S, IsFiniteSet(S), NEW f \in [S -> Int], \A x \in S : f[x] = 0
  PROVE  SumFunctionOnSet(f, S) = 0
<1> DEFINE Z == [T \in SUBSET S |-> 0]
<1>1. IsSum(Z, f, S)
  BY DEF IsSum
<1>2. SumFunctionOnSet(f, S) = Z[S]
  BY <1>1, SumIs
<1> QED
  BY <1>2

-----------------------------------------------------------------------------
(* The elements of a sequence.                                             *)
LEMMA SetOfAppend ==
  ASSUME NEW E, NEW s \in Seq(E), NEW i \in E
  PROVE  /\ Append(s, i) \in Seq(E)
         /\ ToSet(Append(s, i)) = ToSet(s) \cup {i}
<1> DEFINE t == Append(s, i)
<1>1. /\ t \in Seq(E) /\ Len(s) \in Nat /\ Len(t) = Len(s) + 1
      /\ DOMAIN s = 1..Len(s) /\ DOMAIN t = 1..Len(t)
  OBVIOUS
<1>2. t[Len(t)] = i /\ \A k \in 1..Len(s) : t[k] = s[k]
  OBVIOUS
<1>3. 1..Len(t) = (1..Len(s)) \cup {Len(t)}
  BY <1>1
<1> HIDE DEF t
<1>4. ToSet(t) = ToSet(s) \cup {i}
  BY <1>1, <1>2, <1>3 DEF ToSet
<1> QED
  BY <1>1, <1>4 DEF t

LEMMA SetOfSeq ==
  ASSUME NEW E, NEW s \in Seq(E)
  PROVE  ToSet(s) \in SUBSET E
  BY DEF ToSet

-----------------------------------------------------------------------------
(* How often a sequence has an element.                                    *)
At(i, s)    == {n \in 1..Len(s) : s[n] = i}
Count(i, s) == Cardinality(At(i, s))

LEMMA CountIs ==
  ASSUME NEW E, NEW s \in Seq(E), NEW i
  PROVE  /\ IsFiniteSet(At(i, s)) /\ Count(i, s) \in Nat
         /\ i \notin E => Count(i, s) = 0
         /\ Count(i, s) = 0 <=> i \notin ToSet(s)
<1>1. Len(s) \in Nat /\ DOMAIN s = 1..Len(s) /\ \A n \in DOMAIN s : s[n] \in E
  OBVIOUS
<1>2. IsFiniteSet(1..Len(s)) /\ At(i, s) \in SUBSET (1..Len(s))
  BY <1>1, FS_Interval DEF At
<1>3. IsFiniteSet(At(i, s)) /\ Count(i, s) \in Nat
  BY <1>2, FS_Subset, FS_CardinalityType DEF Count
<1>4. Count(i, s) = 0 <=> At(i, s) = {}
  BY <1>3, FS_EmptySet DEF Count
<1>5. At(i, s) = {} <=> i \notin ToSet(s)
  BY <1>1 DEF At, ToSet
<1>6. i \notin E => i \notin ToSet(s)
  BY SetOfSeq
<1> QED
  BY <1>3, <1>4, <1>5, <1>6

LEMMA CountEmpty == \A i : Count(i, <<>>) = 0
<1>1. \A i : At(i, <<>>) = {}
  BY DEF At
<1> QED
  BY <1>1, FS_EmptySet DEF Count

LEMMA CountAppend ==
  ASSUME NEW E, NEW s \in Seq(E), NEW x \in E, NEW i
  PROVE  Count(i, Append(s, x)) = Count(i, s) + (IF x = i THEN 1 ELSE 0)
<1> DEFINE t == Append(s, x)
<1>1. /\ Len(s) \in Nat /\ Len(t) = Len(s) + 1 /\ t[Len(s) + 1] = x
      /\ \A n \in 1..Len(s) : t[n] = s[n]
  OBVIOUS
<1> HIDE DEF t
<1>2. IsFiniteSet(At(i, s)) /\ Count(i, s) \in Nat /\ Len(s) + 1 \notin At(i, s)
  <2>1. IsFiniteSet(At(i, s)) /\ Count(i, s) \in Nat
    BY CountIs
  <2>2. Len(s) + 1 \notin At(i, s)
    BY <1>1 DEF At
  <2> QED
    BY <2>1, <2>2
<1>3. CASE x = i
  <2>1. At(i, t) = At(i, s) \cup {Len(s) + 1}
    BY <1>1, <1>3 DEF At
  <2> QED
    BY <1>2, <1>3, <2>1, FS_AddElement DEF Count, t
<1>4. CASE x # i
  <2>1. At(i, t) = At(i, s)
    BY <1>1, <1>4 DEF At
  <2> QED
    BY <1>2, <1>4, <2>1 DEF Count, t
<1> QED
  BY <1>3, <1>4

(* Of two sets of positions that a shift maps on one another.              *)
LEMMA ShiftedSame ==
  ASSUME NEW S \in SUBSET Int, NEW T \in SUBSET Int, NEW k \in Int, IsFiniteSet(S),
         \A n \in Int : n \in S <=> n + k \in T
  PROVE  IsFiniteSet(T) /\ Cardinality(T) = Cardinality(S)
<1> DEFINE f == [n \in S |-> n + k]
<1>1. f \in Bijection(S, T)
  <2>1. f \in [S -> T]
    OBVIOUS
  <2>2. \A a, b \in S : f[a] = f[b] => a = b
    OBVIOUS
  <2>3. \A b \in T : \E a \in S : f[a] = b
    <3>1. ASSUME NEW b \in T PROVE b - k \in S /\ f[b - k] = b
      <4>1. b - k \in Int /\ (b - k) + k = b
        OBVIOUS
      <4>2. b - k \in S
        BY <4>1
      <4> QED
        BY <4>1, <4>2
    <3> QED
      BY <3>1
  <2> HIDE DEF f
  <2>4. f \in Injection(S, T)
    BY <2>1, <2>2 DEF Injection, IsInjective
  <2>5. f \in Surjection(S, T)
    BY <2>1, <2>3 DEF Surjection
  <2> QED
    BY <2>4, <2>5 DEF Bijection
<1>2. ExistsBijection(S, T)
  BY <1>1 DEF ExistsBijection
<1> QED
  BY <1>2, FS_Bijection

LEMMA CountConcat ==
  ASSUME NEW E, NEW s \in Seq(E), NEW t \in Seq(E), NEW i
  PROVE  Count(i, s \o t) = Count(i, s) + Count(i, t)
<1> DEFINE q == s \o t
           T == {n \in (Len(s) + 1)..(Len(s) + Len(t)) : q[n] = i}
<1>1. /\ Len(s) \in Nat /\ Len(t) \in Nat /\ Len(q) = Len(s) + Len(t)
      /\ \A n \in 1..Len(s) : q[n] = s[n]
      /\ \A n \in 1..Len(t) : q[Len(s) + n] = t[n]
  OBVIOUS
<1> HIDE DEF q
<1>2. At(i, q) = At(i, s) \cup T /\ At(i, s) \cap T = {}
  BY <1>1 DEF At
<1>3. \A n \in Int : n \in At(i, t) <=> n + Len(s) \in T
  BY <1>1 DEF At
<1>4. At(i, t) \in SUBSET Int /\ T \in SUBSET Int /\ Len(s) \in Int
  BY <1>1 DEF At
<1>5. IsFiniteSet(T) /\ Cardinality(T) = Cardinality(At(i, t))
  <2> HIDE DEF T
  <2> QED
    BY <1>3, <1>4, CountIs, ShiftedSame
<1>6. Cardinality(At(i, q)) =
        Cardinality(At(i, s)) + Cardinality(T) - Cardinality(At(i, s) \cap T)
  <2> HIDE DEF T
  <2> QED
    BY <1>2, <1>5, CountIs, FS_Union
<1>7. Cardinality(At(i, s) \cap T) = 0
  BY <1>2, FS_EmptySet
<1>8. Count(i, s) \in Nat /\ Count(i, t) \in Nat
  BY CountIs
<1>9. Cardinality(At(i, q)) = Cardinality(At(i, s)) + Cardinality(At(i, t))
  <2> HIDE DEF T
  <2> QED
    BY <1>5, <1>6, <1>7, <1>8 DEF Count
<1> QED
  BY <1>9 DEF Count, q

LEMMA CountTail ==
  ASSUME NEW E, NEW s \in Seq(E), s # <<>>, NEW i
  PROVE  /\ Head(s) \in E /\ Tail(s) \in Seq(E)
         /\ Count(i, s) = Count(i, Tail(s)) + (IF Head(s) = i THEN 1 ELSE 0)
<1> DEFINE h == Head(s)
           t == Tail(s)
           one == <<h>>
<1>1. h \in E /\ t \in Seq(E) /\ one \in Seq(E) /\ s = one \o t
  OBVIOUS
<1>2. one = Append(<<>>, h) /\ <<>> \in Seq(E)
  OBVIOUS
<1> HIDE DEF h, t, one
<1>3. Count(i, one) = IF h = i THEN 1 ELSE 0
  <2>1. Count(i, Append(<<>>, h)) = Count(i, <<>>) + (IF h = i THEN 1 ELSE 0)
    BY <1>1, <1>2, CountAppend
  <2>2. Count(i, <<>>) = 0
    BY CountEmpty
  <2> QED
    BY <1>2, <2>1, <2>2
<1>4. Count(i, t) \in Nat
  BY <1>1, CountIs
<1>5. Count(i, s) = Count(i, one) + Count(i, t)
  BY <1>1, CountConcat
<1> QED
  BY <1>1, <1>3, <1>4, <1>5 DEF h, t

LEMMA CountNone ==
  ASSUME NEW E, NEW s \in Seq(E), \A i \in E : Count(i, s) = 0
  PROVE  s = <<>>
<1>1. \A i \in E : i \notin ToSet(s)
  BY CountIs
<1>2. Len(s) \in Nat /\ \A n \in 1..Len(s) : s[n] \in E /\ s[n] \in ToSet(s)
  BY DEF ToSet
<1>3. Len(s) = 0
  <2>1. ASSUME Len(s) > 0 PROVE FALSE
    BY <1>1, <1>2, <2>1
  <2> QED
    BY <1>2, <2>1
<1> QED
  BY <1>3

(* The elements of a finite set in a sequence, each once.                  *)
LEMMA CountOfSet ==
  ASSUME NEW S, IsFiniteSet(S)
  PROVE  /\ SetToSeq(S) \in Seq(S)
         /\ \A i : Count(i, SetToSeq(S)) = IF i \in S THEN 1 ELSE 0
<1> DEFINE c == Cardinality(S)
           q == SetToSeq(S)
<1>1. c \in Nat /\ ExistsBijection(1..c, S)
  BY FS_CardinalityType
<1>2. \E f \in [1..c -> S] : IsInjective(f)
  <2>1. PICK f : f \in Bijection(1..c, S)
    BY <1>1 DEF ExistsBijection
  <2>2. f \in [1..c -> S] /\ \A a, b \in 1..c : f[a] = f[b] => a = b
    BY <2>1 DEF Bijection, Injection, IsInjective
  <2> QED
    BY <2>2 DEF IsInjective
<1>3. q \in [1..c -> S] /\ IsInjective(q)
  BY <1>2 DEF SetToSeq
<1> HIDE DEF q
<1>4. q \in Seq(S) /\ Len(q) = c
  BY <1>1, <1>3
<1>5. \A a, b \in 1..c : q[a] = q[b] => a = b
  BY <1>3 DEF IsInjective
<1>6. q \in Surjection(1..c, S)
  <2>1. q \in Injection(1..c, S)
    BY <1>3, <1>5 DEF Injection, IsInjective
  <2>2. IsFiniteSet(1..c) /\ Cardinality(1..c) = c
    BY <1>1, FS_Interval
  <2> QED
    BY <2>1, <2>2, FS_Injection
<1>7. ASSUME NEW i \in S PROVE Count(i, q) = 1
  <2>1. PICK n \in 1..c : q[n] = i
    BY <1>6 DEF Surjection
  <2>2. At(i, q) = {n}
    BY <1>4, <1>5, <2>1 DEF At
  <2> QED
    BY <2>2, FS_Singleton DEF Count
<1>8. ASSUME NEW i, i \notin S PROVE Count(i, q) = 0
  BY <1>4, <1>8, CountIs
<1> QED
  BY <1>4, <1>7, <1>8 DEF q

(* A fold over a sequence that drops what is in S and keeps the rest.      *)
Dropped(s, S) ==
  FoldLeft(LAMBDA rest, i : IF i \in S THEN rest ELSE Append(rest, i), <<>>, s)

LEMMA DroppedIs ==
  ASSUME NEW E, NEW s \in Seq(E), NEW S
  PROVE  /\ Dropped(s, S) \in Seq(E)
         /\ ToSet(Dropped(s, S)) = ToSet(s) \ S
         /\ \A i : Count(i, Dropped(s, S)) = IF i \in S THEN 0 ELSE Count(i, s)
<1> DEFINE D == DOMAIN s
           Eq(g) == g = [A \in SUBSET D |->
                          IF A = {} THEN <<>>
                          ELSE LET x == Max(A)
                               IN IF s[x] \in S THEN g[A \ {x}]
                                  ELSE Append(g[A \ {x}], s[x])]
           It == CHOOSE g : Eq(g)
<1>1. Dropped(s, S) = It[D]
  BY DEF Dropped, FoldLeft, MapThenFoldSet
<1>2. IsFiniteSet(D) /\ D \in SUBSET Nat /\ \A x \in D : s[x] \in E
  <2>1. D = 1..Len(s) /\ Len(s) \in Int
    OBVIOUS
  <2> QED
    BY <2>1, FS_Interval
<1>3. \A A \in SUBSET D : A # {} => Max(A) \in A
  BY <1>2, FS_Subset, MaxIs
<1> DEFINE pick == [A \in SUBSET D |-> Max(A)]
           step == [x \in D |-> [v \in Seq(E) |->
                      IF s[x] \in S THEN v ELSE Append(v, s[x])]]
<1>4. \E g : Eq(g)
  <2>1. \A A \in SUBSET D : A # {} => pick[A] \in A
    BY <1>3
  <2>2. \A x \in D : \A v \in Seq(E) : step[x][v] \in Seq(E)
    BY <1>2
  <2>3. <<>> \in Seq(E)
    OBVIOUS
  <2>4. Foldable(D, Seq(E), <<>>, pick, step)
    <3> HIDE DEF D, pick, step
    <3> QED
      BY <1>2, <2>1, <2>2, <2>3 DEF Foldable
  <2>5. PICK g : Folded(g, D, Seq(E), <<>>, pick, step)
    BY <2>4, FoldDefined
  <2>6. \A A \in SUBSET D : A # {} => Max(A) \in D /\ g[A \ {Max(A)}] \in Seq(E)
    BY <1>3, <2>5 DEF Folded
  <2>7. g = [A \in SUBSET D |-> g[A]]
    BY <2>5 DEF Folded
  <2>8. \A A \in SUBSET D :
          g[A] = IF A = {} THEN <<>>
                 ELSE IF s[Max(A)] \in S THEN g[A \ {Max(A)}]
                      ELSE Append(g[A \ {Max(A)}], s[Max(A)])
    BY <2>5, <2>6 DEF Folded
  <2>9. Eq(g)
    <3> HIDE DEF D
    <3> QED
      BY <2>7, <2>8
  <2> QED
    BY <2>9
<1>5. \A A \in SUBSET D :
        It[A] = IF A = {} THEN <<>>
                ELSE IF s[Max(A)] \in S THEN It[A \ {Max(A)}]
                     ELSE Append(It[A \ {Max(A)}], s[Max(A)])
  <2>1. Eq(It)
    BY <1>4
  <2> HIDE DEF It, D
  <2> QED
    BY <2>1
<1> HIDE DEF It
<1> DEFINE Kept(A) == {s[x] : x \in A} \ S
           Of(A, i) == {x \in A : s[x] = i}
           Counted(A) == \A i : Count(i, It[A]) = IF i \in S THEN 0 ELSE Cardinality(Of(A, i))
           Good(A) == It[A] \in Seq(E) /\ ToSet(It[A]) = Kept(A) /\ Counted(A)
           Bad == {A \in SUBSET D : ~Good(A)}
<1>6. ASSUME NEW A \in Bad, \A B \in Bad : B \subseteq A => B = A
      PROVE  FALSE
  <2>1. CASE A = {}
    <3>1. It[A] = <<>>
      BY <2>1, <1>5
    <3>2. ToSet(<<>>) = {} /\ <<>> \in Seq(E)
      BY DEF ToSet
    <3>3. Counted(A)
      <4>1. \A i : Of(A, i) = {}
        BY <2>1
      <4> HIDE DEF Of
      <4> QED
        BY <3>1, <4>1, CountEmpty, FS_EmptySet
    <3> HIDE DEF Counted
    <3> QED
      BY <2>1, <3>1, <3>2, <3>3
  <2>2. CASE A # {}
    <3>1. PICK x \in A : x = Max(A)
      BY <2>2, <1>3
    <3>2. Good(A \ {x})
      <4>1. A \ {x} \in SUBSET D /\ A \ {x} # A
        OBVIOUS
      <4>2. A \ {x} \notin Bad
        <5> HIDE DEF Bad
        <5> QED
          BY <4>1, <1>6
      <4> HIDE DEF Good, D
      <4> QED
        BY <4>1, <4>2
    <3>3. It[A] = IF s[x] \in S THEN It[A \ {x}] ELSE Append(It[A \ {x}], s[x])
      BY <2>2, <3>1, <1>5
    <3>4. s[x] \in E
      BY <1>2
    <3>5. Kept(A) = Kept(A \ {x}) \cup ({s[x]} \ S)
      OBVIOUS
    <3>8. \A i : /\ IsFiniteSet(Of(A \ {x}, i)) /\ x \notin Of(A \ {x}, i)
                 /\ Of(A, i) = IF s[x] = i THEN Of(A \ {x}, i) \cup {x} ELSE Of(A \ {x}, i)
      <4>1. \A i : Of(A \ {x}, i) \in SUBSET D
        OBVIOUS
      <4> HIDE DEF D
      <4>2. \A i : IsFiniteSet(Of(A \ {x}, i))
        <5> HIDE DEF Of
        <5> QED
          BY <1>2, <4>1, FS_Subset
      <4> QED
        BY <4>2
    <3>9. \A i : /\ Cardinality(Of(A \ {x}, i)) \in Nat
                 /\ Cardinality(Of(A, i)) =
                      Cardinality(Of(A \ {x}, i)) + (IF s[x] = i THEN 1 ELSE 0)
      <4>1. ASSUME NEW i
            PROVE  /\ Cardinality(Of(A \ {x}, i)) \in Nat
                   /\ Cardinality(Of(A, i)) =
                        Cardinality(Of(A \ {x}, i)) + (IF s[x] = i THEN 1 ELSE 0)
        <5> DEFINE R == Of(A \ {x}, i)
        <5>1. /\ IsFiniteSet(R) /\ x \notin R
              /\ Of(A, i) = IF s[x] = i THEN R \cup {x} ELSE R
          BY <3>8
        <5> HIDE DEF R, Of
        <5>2. Cardinality(R) \in Nat /\ Cardinality(R \cup {x}) = Cardinality(R) + 1
          BY <5>1, FS_AddElement, FS_CardinalityType
        <5> QED
          BY <5>1, <5>2 DEF R
      <4> HIDE DEF Of
      <4> QED
        BY <4>1
    <3>10. Counted(A \ {x})
      <4> HIDE DEF Counted
      <4> QED
        BY <3>2
    <3>6. CASE s[x] \in S
      <4>1. Counted(A)
        <5>1. ASSUME NEW i
              PROVE  Count(i, It[A]) = IF i \in S THEN 0 ELSE Cardinality(Of(A, i))
          <6>1. Count(i, It[A \ {x}]) = IF i \in S THEN 0 ELSE Cardinality(Of(A \ {x}, i))
            BY <3>10
          <6> DEFINE now == Cardinality(Of(A, i))
                     old == Cardinality(Of(A \ {x}, i))
          <6>3. old \in Nat /\ now = old + (IF s[x] = i THEN 1 ELSE 0)
            BY <3>9
          <6> HIDE DEF now, old, Of, D
          <6>2. i \notin S => now = old
            BY <3>6, <6>3
          <6> QED
            BY <3>3, <3>6, <6>1, <6>2 DEF now, old
        <5> QED
          BY <5>1
      <4>2. It[A] \in Seq(E) /\ ToSet(It[A]) = Kept(A)
        <5> HIDE DEF Counted
        <5> QED
          BY <3>2, <3>3, <3>5, <3>6
      <4> HIDE DEF Counted, Kept
      <4> QED
        BY <4>1, <4>2
    <3>7. CASE s[x] \notin S
      <4>1. It[A] \in Seq(E) /\ ToSet(It[A]) = ToSet(It[A \ {x}]) \cup {s[x]}
        <5> DEFINE q == It[A \ {x}]
        <5>1. q \in Seq(E) /\ It[A] = Append(q, s[x])
          BY <3>2, <3>3, <3>7
        <5> HIDE DEF q
        <5>2. Append(q, s[x]) \in Seq(E) /\ ToSet(Append(q, s[x])) = ToSet(q) \cup {s[x]}
          BY <3>4, <5>1, SetOfAppend
        <5> QED
          BY <5>1, <5>2 DEF q
      <4>2. ToSet(It[A]) = Kept(A)
        <5> HIDE DEF Counted
        <5> QED
          BY <4>1, <3>2, <3>5, <3>7
      <4>3. Counted(A)
        <5>1. ASSUME NEW i
              PROVE  Count(i, It[A]) = Count(i, It[A \ {x}]) + (IF s[x] = i THEN 1 ELSE 0)
          <6> DEFINE q == It[A \ {x}]
          <6>1. q \in Seq(E) /\ It[A] = Append(q, s[x])
            BY <3>2, <3>3, <3>7
          <6> HIDE DEF q
          <6>2. Count(i, Append(q, s[x])) = Count(i, q) + (IF s[x] = i THEN 1 ELSE 0)
            BY <3>4, <6>1, CountAppend
          <6> QED
            BY <6>1, <6>2 DEF q
        <5>2. ASSUME NEW i
              PROVE  Count(i, It[A]) = IF i \in S THEN 0 ELSE Cardinality(Of(A, i))
          <6>1. Count(i, It[A \ {x}]) = IF i \in S THEN 0 ELSE Cardinality(Of(A \ {x}, i))
            BY <3>10
          <6> DEFINE now == Cardinality(Of(A, i))
                     old == Cardinality(Of(A \ {x}, i))
          <6>3. old \in Nat /\ now = old + (IF s[x] = i THEN 1 ELSE 0)
            BY <3>9
          <6>2. Count(i, It[A]) = Count(i, It[A \ {x}]) + (IF s[x] = i THEN 1 ELSE 0)
            BY <5>1
          <6>4. Count(i, It[A \ {x}]) = IF i \in S THEN 0 ELSE old
            BY <6>1
          <6> HIDE DEF now, old, Of, D
          <6> QED
            BY <3>7, <6>2, <6>3, <6>4 DEF now
        <5> QED
          BY <5>2
      <4> HIDE DEF Counted, Kept
      <4> QED
        BY <4>1, <4>2, <4>3
    <3> QED
      BY <3>6, <3>7
  <2> QED
    BY <2>1, <2>2
<1>7. \A A \in Bad : IsFiniteSet(A)
  <2>1. \A A \in Bad : A \in SUBSET D
    OBVIOUS
  <2> HIDE DEF Bad, D
  <2> QED
    BY <1>2, <2>1, FS_Subset
<1>8. Bad = {}
  <2> HIDE DEF Bad
  <2> QED
    BY <1>6, <1>7, LeastSet
<1>9. Good(D)
  BY <1>8
<1>10. Kept(D) = ToSet(s) \ S
  BY DEF ToSet
<1>11. \A i : Of(D, i) = At(i, s)
  <2>1. D = 1..Len(s)
    OBVIOUS
  <2> QED
    BY <2>1 DEF At
<1> HIDE DEF D, Of, Kept
<1> QED
  BY <1>1, <1>9, <1>10, <1>11 DEF Count
================================================================================
