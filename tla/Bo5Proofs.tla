------------------------------ MODULE Bo5Proofs ------------------------------
(***************************************************************************)
(* Proofs about Bo5: what ParseBO5 promises holds of every broadcast, of   *)
(* any number of sub-items and any quantities of 32 bits.                  *)
(*                                                                         *)
(* The parser's fold is unrolled into the OrderPods it goes through, one   *)
(* after each sub-item; each promise follows from what is true of the      *)
(* OrderPod after the first n sub-items, for every n.                      *)
(*                                                                         *)
(* First come induction, and what the folds of the community modules       *)
(* compute.  An induction is stated of a set, the values a claim holds     *)
(* for, so that it can be cited like any other fact.  A fold over a finite *)
(* set S is a recursive function on the subsets of S: it is shown to       *)
(* exist, subsets of one size after those of the size before.              *)
(***************************************************************************)
EXTENDS Bo5, Integers, FiniteSets, Functions, FiniteSetTheorems, WellFoundedInduction, TLAPS

-----------------------------------------------------------------------------
(* Induction. *)

\* Every set of natural numbers has a least element.
LEMMA LeastNatural ==
  ASSUME NEW T \in SUBSET Nat, T # {}
  PROVE  \E x \in T : \A y \in T : x <= y
<1>1. \E x \in T : \A y \in T : ~(<<y, x>> \in OpToRel(<, Nat))
  BY NatLessThanWellFounded, WFMin
<1>2. PICK x \in T : \A y \in T : ~(<<y, x>> \in OpToRel(<, Nat))
  BY <1>1
<1>3. ASSUME NEW y \in T PROVE x <= y
  <2>1. <<y, x>> \notin {ss \in Nat \X Nat : ss[1] < ss[2]}
    BY <1>2 DEF OpToRel
  <2>2. y \in Nat /\ x \in Nat
    OBVIOUS
  <2>3. QED BY <2>1, <2>2
<1>4. QED BY <1>3

\* Induction: a set of numbers with 0 and the successor of each has them all.
LEMMA SetInduction ==
  ASSUME NEW I \in SUBSET Nat, 0 \in I, \A n \in I : n + 1 \in I
  PROVE  I = Nat
<1>1. SUFFICES ASSUME Nat \ I # {} PROVE FALSE
  OBVIOUS
<1>2. PICK x \in Nat \ I : \A y \in Nat \ I : x <= y
  BY <1>1, LeastNatural
<1>3. x - 1 \in Nat /\ x - 1 \in I
  BY <1>2
<1>4. QED BY <1>2, <1>3

\* Induction up to N.
LEMMA SetInductionUpTo ==
  ASSUME NEW N \in Nat, NEW I \in SUBSET (0 .. N), 0 \in I, \A n \in I : n < N => n + 1 \in I
  PROVE  I = 0 .. N
<1> DEFINE J == {n \in Nat : n <= N => n \in I}
<1>1. J \in SUBSET Nat /\ 0 \in J /\ \A n \in J : n + 1 \in J
  OBVIOUS
<1>2. J = Nat
  <2> HIDE DEF J
  <2> QED BY <1>1, SetInduction
<1>3. \A n \in 0 .. N : n \in J
  <2> HIDE DEF J
  <2> QED BY <1>2
<1>4. \A n \in 0 .. N : n \in I
  BY <1>3
<1>5. QED BY <1>4

\* Induction over the subsets of a finite set: a set with {} that an element
\* can be added to stays among them.
LEMMA SubsetInduction ==
  ASSUME NEW S, IsFiniteSet(S), NEW I, {} \in I,
         \A T \in SUBSET S : \A x \in S \ T : T \in I => T \cup {x} \in I
  PROVE  SUBSET S \subseteq I
<1>1. SUFFICES ASSUME NEW R \in SUBSET S, R \notin I PROVE FALSE
  OBVIOUS
<1> DEFINE B == {T \in SUBSET S : T \notin I}
<1>2. IsWellFoundedOn(StrictSubsetOrdering(S), SUBSET S)
  BY FS_StrictSubsetOrderingWellFounded, FS_FiniteSubsetsOfFinite
<1>3. B \subseteq SUBSET S /\ B # {}
  BY <1>1
<1>4. PICK T \in B : \A U \in B : ~(<<U, T>> \in StrictSubsetOrdering(S))
  BY <1>2, <1>3, WFMin
<1>5. PICK x \in T : TRUE
  OBVIOUS
<1>6. T \ {x} \in SUBSET S /\ x \in S \ (T \ {x}) /\ (T \ {x}) \cup {x} = T
  BY <1>5
<1>7. T \ {x} \in B
  BY <1>6
<1>8. <<T \ {x}, T>> \in StrictSubsetOrdering(S)
  BY <1>5, <1>6 DEF StrictSubsetOrdering
<1>9. QED BY <1>4, <1>7, <1>8

-----------------------------------------------------------------------------
(* Recursion over the subsets of a finite set. *)

\* The subsets of up to n elements.
UpTo(S, n) == {s \in SUBSET S : Cardinality(s) <= n}

\* The function g on the sets D folds the step F, taking from each set the
\* element c chooses, from the base b on.
Folds(g, D, b, c, F) ==
  g = [s \in D |-> IF s = {} THEN b ELSE F[<<c[s], g[s \ {c[s]}]>>]]

\* Such a function exists for all subsets, and its values are of the set of
\* values that b and F are of.
LEMMA FoldExists ==
  ASSUME NEW S, IsFiniteSet(S), NEW V, NEW b \in V, NEW F \in [S \X V -> V],
         NEW c, \A s \in SUBSET S : s # {} => c[s] \in s
  PROVE  \E g \in [SUBSET S -> V] : Folds(g, SUBSET S, b, c, F)
<1>1. \A s \in SUBSET S : IsFiniteSet(s) /\ Cardinality(s) \in Nat
  BY FS_Subset, FS_CardinalityType
<1>2. \A s \in SUBSET S : s # {} =>
        /\ s \ {c[s]} \in SUBSET S
        /\ Cardinality(s \ {c[s]}) = Cardinality(s) - 1
  BY <1>1, FS_RemoveElement
<1>3. \A s \in SUBSET S : Cardinality(s) = 0 <=> s = {}
  BY <1>1, FS_EmptySet
<1> DEFINE Ok(n) == \E g \in [UpTo(S, n) -> V] : Folds(g, UpTo(S, n), b, c, F)
           I == {n \in Nat : Ok(n)}
<1>4. 0 \in I
  <2>1. \A s \in UpTo(S, 0) : s = {}
    BY <1>1, <1>3 DEF UpTo
  <2> DEFINE g == [s \in UpTo(S, 0) |-> b]
  <2>2. g \in [UpTo(S, 0) -> V] /\ Folds(g, UpTo(S, 0), b, c, F)
    BY <2>1 DEF Folds
  <2>3. QED BY <2>2
<1>5. ASSUME NEW n \in I PROVE n + 1 \in I
  <2>1. PICK g \in [UpTo(S, n) -> V] : Folds(g, UpTo(S, n), b, c, F)
    OBVIOUS
  <2> DEFINE h == [s \in UpTo(S, n + 1) |->
                     IF s = {} THEN b ELSE F[<<c[s], g[s \ {c[s]}]>>]]
  <2>2. ASSUME NEW s \in UpTo(S, n + 1), s # {}
        PROVE  s \ {c[s]} \in UpTo(S, n) /\ c[s] \in S
    BY <1>1, <1>2, <2>2 DEF UpTo
  <2>3. h \in [UpTo(S, n + 1) -> V]
    BY <2>2
  <2>4. ASSUME NEW s \in UpTo(S, n) PROVE s \in UpTo(S, n + 1) /\ h[s] = g[s]
    <3>1. s \in UpTo(S, n + 1)
      BY <1>1 DEF UpTo
    <3>2. h[s] = IF s = {} THEN b ELSE F[<<c[s], g[s \ {c[s]}]>>]
      BY <3>1
    <3>3. g[s] = IF s = {} THEN b ELSE F[<<c[s], g[s \ {c[s]}]>>]
      BY <2>1 DEF Folds
    <3>4. QED BY <3>1, <3>2, <3>3
  <2>5. ASSUME NEW s \in UpTo(S, n + 1)
        PROVE  h[s] = IF s = {} THEN b ELSE F[<<c[s], h[s \ {c[s]}]>>]
    BY <2>2, <2>4
  <2>6. h = [s \in UpTo(S, n + 1) |-> IF s = {} THEN b ELSE F[<<c[s], h[s \ {c[s]}]>>]]
    <3> HIDE DEF h
    <3> QED BY <2>3, <2>5
  <2>7. Folds(h, UpTo(S, n + 1), b, c, F)
    BY <2>6 DEF Folds
  <2>8. Ok(n + 1)
    <3> HIDE DEF h
    <3> QED BY <2>3, <2>7
  <2>9. QED
    <3> HIDE DEF Ok
    <3> QED BY <2>8
<1>6. Ok(Cardinality(S))
  <2>1. I \in SUBSET Nat /\ 0 \in I /\ \A n \in I : n + 1 \in I
    <3> HIDE DEF Ok
    <3> QED BY <1>4, <1>5
  <2>2. I = Nat
    <3> HIDE DEF I
    <3> QED BY <2>1, SetInduction
  <2>3. Cardinality(S) \in Nat
    BY FS_CardinalityType
  <2>4. QED BY <2>2, <2>3
<1>7. UpTo(S, Cardinality(S)) = SUBSET S
  BY FS_Subset DEF UpTo
<1>8. QED BY <1>6, <1>7

-----------------------------------------------------------------------------
(* SumFunctionOnSet. *)

\* The recursive function it is defined by.
Sums(g, fun, S) ==
  g = [s \in SUBSET S |-> IF s = {} THEN 0
                          ELSE fun[CHOOSE x \in s : TRUE] + g[s \ {CHOOSE x \in s : TRUE}]]

Summable(fun, S) == IsFiniteSet(S) /\ \A x \in S : fun[x] \in Int

\* The sum of the community modules is a fold of +.
LEMMA SumIsFold ==
  ASSUME NEW fun, NEW S
  PROVE  SumFunctionOnSet(fun, S) = (CHOOSE g : Sums(g, fun, S))[S]
BY DEF SumFunctionOnSet, FoldFunctionOnSet, MapThenFoldSet, Sums

\* The fold that makes a sum exists.
LEMMA SumsExist ==
  ASSUME NEW fun, NEW S, Summable(fun, S)
  PROVE  \E g \in [SUBSET S -> Int] : Sums(g, fun, S)
<1> DEFINE c == [s \in SUBSET S |-> CHOOSE x \in s : TRUE]
           F == [p \in S \X Int |-> fun[p[1]] + p[2]]
<1>1. \A s \in SUBSET S : s # {} => c[s] \in s
  OBVIOUS
<1>2. F \in [S \X Int -> Int]
  BY DEF Summable
<1>3. IsFiniteSet(S) /\ 0 \in Int
  BY DEF Summable
<1>4. PICK g \in [SUBSET S -> Int] : Folds(g, SUBSET S, 0, c, F)
  <2> HIDE DEF c, F
  <2> QED BY <1>1, <1>2, <1>3, FoldExists
<1>5. \A s \in SUBSET S : c[s] = CHOOSE x \in s : TRUE
  OBVIOUS
<1>6. ASSUME NEW s \in SUBSET S
      PROVE  g[s] = IF s = {} THEN 0 ELSE fun[c[s]] + g[s \ {c[s]}]
  <2>1. g[s] = IF s = {} THEN 0 ELSE F[<<c[s], g[s \ {c[s]}]>>]
    <3> HIDE DEF c, F
    <3> QED BY <1>4 DEF Folds
  <2>2. s # {} => c[s] \in S /\ g[s \ {c[s]}] \in Int
    BY <1>1
  <2>3. QED BY <2>1, <2>2
<1>7. g = [s \in SUBSET S |-> IF s = {} THEN 0 ELSE fun[c[s]] + g[s \ {c[s]}]]
  <2> HIDE DEF c
  <2> QED BY <1>6
<1>8. g = [s \in SUBSET S |-> IF s = {} THEN 0
                              ELSE fun[CHOOSE x \in s : TRUE] + g[s \ {CHOOSE x \in s : TRUE}]]
  <2> HIDE DEF c
  <2> QED BY <1>5, <1>7
<1>9. QED BY <1>8 DEF Sums

\* The order in which the elements are taken does not matter.
LEMMA SumsRemove ==
  ASSUME NEW fun, NEW S, Summable(fun, S), NEW g, Sums(g, fun, S)
  PROVE  \A T \in SUBSET S : g[T] \in Int /\ \A x \in T : g[T] = fun[x] + g[T \ {x}]
<1>1. \A s \in SUBSET S : IsFiniteSet(s) /\ Cardinality(s) \in Nat
  BY FS_Subset, FS_CardinalityType DEF Summable
<1>2. \A s \in SUBSET S : \A x \in s :
        s \ {x} \in SUBSET S /\ Cardinality(s \ {x}) = Cardinality(s) - 1
  BY <1>1, FS_RemoveElement
<1>3. \A s \in SUBSET S : Cardinality(s) = 0 <=> s = {}
  BY <1>1, FS_EmptySet
<1>4. /\ g[{}] = 0
      /\ \A s \in SUBSET S : s # {} => \E y \in s : g[s] = fun[y] + g[s \ {y}]
  <2>1. g[{}] = 0
    BY DEF Sums
  <2>2. ASSUME NEW s \in SUBSET S, s # {} PROVE \E y \in s : g[s] = fun[y] + g[s \ {y}]
    <3>1. (CHOOSE x \in s : TRUE) \in s
      BY <2>2
    <3>2. g[s] = fun[CHOOSE x \in s : TRUE] + g[s \ {CHOOSE x \in s : TRUE}]
      BY <2>2 DEF Sums
    <3>3. QED BY <3>1, <3>2
  <2>3. QED BY <2>1, <2>2
<1>5. \A x \in S : fun[x] \in Int
  BY DEF Summable
<1> DEFINE Ok(T) == g[T] \in Int /\ \A x \in T : g[T] = fun[x] + g[T \ {x}]
           I == {n \in Nat : \A T \in UpTo(S, n) : Ok(T)}
<1>6. 0 \in I
  <2>1. \A T \in UpTo(S, 0) : T = {}
    BY <1>1, <1>3 DEF UpTo
  <2>2. Ok({})
    BY <1>4
  <2>3. QED
    <3> HIDE DEF Ok
    <3> QED BY <2>1, <2>2
<1>7. ASSUME NEW n \in I PROVE n + 1 \in I
  <2>1. ASSUME NEW T \in UpTo(S, n + 1) PROVE Ok(T)
    <3>1. CASE T = {}
      BY <1>4, <3>1
    <3>2. CASE T # {}
      <4>1. PICK y \in T : g[T] = fun[y] + g[T \ {y}]
        BY <1>4, <3>2 DEF UpTo
      <4>2. \A x \in T : T \ {x} \in UpTo(S, n)
        BY <1>1, <1>2 DEF UpTo
      <4>3. \A x \in T : Ok(T \ {x})
        BY <4>2
      <4>4. g[T] \in Int
        <5>1. fun[y] \in Int /\ g[T \ {y}] \in Int
          BY <1>5, <4>3 DEF UpTo
        <5>2. QED BY <4>1, <5>1
      <4>5. ASSUME NEW x \in T, x # y PROVE g[T] = fun[x] + g[T \ {x}]
        <5>1. g[T \ {y}] = fun[x] + g[(T \ {y}) \ {x}]
          BY <4>3, <4>5
        <5>2. (T \ {x}) \ {y} = (T \ {y}) \ {x}
          OBVIOUS
        <5>3. g[T \ {x}] = fun[y] + g[(T \ {y}) \ {x}]
          BY <4>3, <4>5, <5>2
        <5>4. fun[x] \in Int /\ fun[y] \in Int
          BY <1>5 DEF UpTo
        <5>5. g[(T \ {y}) \ {x}] \in Int
          <6>1. (T \ {y}) \ {x} \in UpTo(S, n)
            <7>1. T \ {y} \in SUBSET S /\ x \in T \ {y} /\ Cardinality(T \ {y}) <= n
              BY <4>2, <4>5 DEF UpTo
            <7>2. /\ (T \ {y}) \ {x} \in SUBSET S
                  /\ Cardinality((T \ {y}) \ {x}) = Cardinality(T \ {y}) - 1
              BY <1>2, <7>1
            <7>3. Cardinality(T \ {y}) \in Nat
              BY <1>1, <7>1
            <7>4. QED BY <7>1, <7>2, <7>3 DEF UpTo
          <6>2. QED BY <6>1
        <5>6. QED
          <6> DEFINE rest == g[(T \ {y}) \ {x}]
          <6>1. g[T] = fun[y] + (fun[x] + rest) /\ g[T \ {x}] = fun[y] + rest
            BY <4>1, <5>1, <5>3
          <6>2. rest \in Int
            BY <5>5
          <6> HIDE DEF rest
          <6>3. QED BY <5>4, <6>1, <6>2
      <4>6. QED BY <4>1, <4>4, <4>5
    <3>3. QED BY <3>1, <3>2
  <2>2. QED
    <3> HIDE DEF Ok
    <3> QED BY <2>1
<1>8. I = Nat
  <2>1. I \in SUBSET Nat
    OBVIOUS
  <2> HIDE DEF I
  <2>2. QED BY <1>6, <1>7, <2>1, SetInduction
<1>9. ASSUME NEW T \in SUBSET S PROVE Ok(T)
  <2>1. Cardinality(T) \in I /\ T \in UpTo(S, Cardinality(T))
    BY <1>1, <1>8 DEF UpTo
  <2>2. QED BY <2>1
<1>10. QED BY <1>9

\* What is summed is only what the function is at the elements.
LEMMA SumsAgree ==
  ASSUME NEW fun, NEW S, Summable(fun, S), NEW g, Sums(g, fun, S),
         NEW gun, NEW R, Summable(gun, R), NEW h, Sums(h, gun, R),
         NEW T, T \subseteq S, T \subseteq R, \A x \in T : fun[x] = gun[x]
  PROVE  g[T] = h[T]
<1>0. \A U \in SUBSET S : g[U] \in Int /\ \A x \in U : g[U] = fun[x] + g[U \ {x}]
  BY SumsRemove
<1>1. \A U \in SUBSET R : h[U] \in Int /\ \A x \in U : h[U] = gun[x] + h[U \ {x}]
  BY SumsRemove
<1> DEFINE I == {U \in SUBSET T : g[U] = h[U]}
<1>2. {} \in I
  BY DEF Sums
<1>3. ASSUME NEW U \in SUBSET T, NEW x \in T \ U, U \in I PROVE U \cup {x} \in I
  <2>1. (U \cup {x}) \ {x} = U
    OBVIOUS
  <2> DEFINE W == U \cup {x}
  <2>4. W \in SUBSET S /\ W \in SUBSET R /\ x \in W /\ W \ {x} = U
    BY <2>1
  <2> HIDE DEF W
  <2>5. g[W] = fun[x] + g[W \ {x}] /\ h[W] = gun[x] + h[W \ {x}]
    BY <1>0, <1>1, <2>4
  <2>2. g[W] = fun[x] + g[U] /\ h[W] = gun[x] + h[U]
    BY <2>4, <2>5
  <2>3. g[U] = h[U] /\ fun[x] = gun[x]
    BY <1>3
  <2>6. QED BY <2>2, <2>3 DEF W
<1>4. IsFiniteSet(T)
  BY FS_Subset DEF Summable
<1>5. T \in I
  <2> HIDE DEF I
  <2> QED BY <1>2, <1>3, <1>4, SubsetInduction
<1>6. QED BY <1>5

\* The sum over S is the value at S of the function that defines it.
LEMMA SumAt ==
  ASSUME NEW fun, NEW S, Summable(fun, S)
  PROVE  \E g : Sums(g, fun, S) /\ SumFunctionOnSet(fun, S) = g[S]
<1>1. \E g : Sums(g, fun, S)
  BY SumsExist
<1>2. Sums(CHOOSE g : Sums(g, fun, S), fun, S)
  BY <1>1
<1>3. QED BY <1>2, SumIsFold

\* The sum over no element.
LEMMA SumEmpty ==
  ASSUME NEW fun PROVE SumFunctionOnSet(fun, {}) = 0
<1>1. Summable(fun, {})
  BY FS_EmptySet DEF Summable
<1>2. PICK g : Sums(g, fun, {}) /\ SumFunctionOnSet(fun, {}) = g[{}]
  BY <1>1, SumAt
<1>3. QED BY <1>2 DEF Sums

\* The sum over equal values.
LEMMA SumSame ==
  ASSUME NEW fun, NEW gun, NEW S, Summable(fun, S), \A x \in S : fun[x] = gun[x]
  PROVE  SumFunctionOnSet(fun, S) = SumFunctionOnSet(gun, S)
<1>1. Summable(gun, S)
  BY DEF Summable
<1>2. PICK g : Sums(g, fun, S) /\ SumFunctionOnSet(fun, S) = g[S]
  BY SumAt
<1>3. PICK h : Sums(h, gun, S) /\ SumFunctionOnSet(gun, S) = h[S]
  BY <1>1, SumAt
<1>4. QED BY <1>1, <1>2, <1>3, SumsAgree

\* The sum with one element taken out.
LEMMA SumRemove ==
  ASSUME NEW fun, NEW S, Summable(fun, S), NEW x \in S
  PROVE  /\ SumFunctionOnSet(fun, S) = fun[x] + SumFunctionOnSet(fun, S \ {x})
         /\ SumFunctionOnSet(fun, S) \in Int
<1>1. Summable(fun, S \ {x})
  BY FS_Subset DEF Summable
<1>2. PICK g : Sums(g, fun, S) /\ SumFunctionOnSet(fun, S) = g[S]
  BY SumAt
<1>3. PICK h : Sums(h, fun, S \ {x}) /\ SumFunctionOnSet(fun, S \ {x}) = h[S \ {x}]
  BY <1>1, SumAt
<1>4. g[S] \in Int /\ g[S] = fun[x] + g[S \ {x}]
  BY <1>2, SumsRemove
<1>5. g[S \ {x}] = h[S \ {x}]
  BY <1>1, <1>2, <1>3, SumsAgree
<1>6. QED BY <1>2, <1>3, <1>4, <1>5

\* The sum with one element put in.
LEMMA SumAdd ==
  ASSUME NEW fun, NEW S, Summable(fun, S), NEW x, x \notin S, fun[x] \in Int
  PROVE  SumFunctionOnSet(fun, S \cup {x}) = fun[x] + SumFunctionOnSet(fun, S)
<1>1. Summable(fun, S \cup {x})
  BY FS_AddElement DEF Summable
<1>2. (S \cup {x}) \ {x} = S /\ x \in S \cup {x}
  OBVIOUS
<1>3. QED BY <1>1, <1>2, SumRemove

\* A sum is a number.
LEMMA SumType ==
  ASSUME NEW fun, NEW S, Summable(fun, S)
  PROVE  SumFunctionOnSet(fun, S) \in Int
<1>1. CASE S = {}
  BY <1>1, SumEmpty
<1>2. CASE S # {}
  BY <1>2, SumRemove
<1>3. QED BY <1>1, <1>2

-----------------------------------------------------------------------------
(* Sums that grow by one, and sums under other names.                      *)

\* A function with one element more in its domain.
LEMMA SumGrows ==
  ASSUME NEW S, IsFiniteSet(S), NEW f \in [S -> Int], NEW x, x \notin S,
         NEW g \in [S \cup {x} -> Int], \A y \in S : g[y] = f[y]
  PROVE  /\ SumFunction(g) = g[x] + SumFunction(f)
         /\ SumFunction(f) \in Int
<1>1. Summable(f, S) /\ Summable(g, S)
  BY DEF Summable
<1>2. SumFunctionOnSet(g, S \cup {x}) = g[x] + SumFunctionOnSet(g, S)
  BY <1>1, SumAdd
<1>3. SumFunctionOnSet(g, S) = SumFunctionOnSet(f, S)
  BY <1>1, SumSame
<1>4. SumFunctionOnSet(f, S) \in Int
  BY <1>1, SumType
<1>5. DOMAIN g = S \cup {x} /\ DOMAIN f = S
  OBVIOUS
<1>6. QED BY <1>2, <1>3, <1>4, <1>5 DEF SumFunction

\* The sum does not depend on the names of the elements.
LEMMA SumRenamed ==
  ASSUME NEW S, IsFiniteSet(S), NEW f \in [S -> Int], NEW T, NEW g \in [T -> Int],
         NEW h \in Bijection(S, T), \A x \in S : g[h[x]] = f[x]
  PROVE  SumFunction(g) = SumFunction(f)
<1> DEFINE Image(U) == {h[x] : x \in U}
           I == {U \in SUBSET S : SumFunctionOnSet(g, Image(U)) = SumFunctionOnSet(f, U)}
<1>6. h \in [S -> T] /\ (\A x, y \in S : h[x] = h[y] => x = y) /\ Image(S) = T
  BY DEF Bijection, Injection, Surjection, IsInjective
<1>1. {} \in I
  <2>1. Image({}) = {}
    OBVIOUS
  <2>2. QED BY <2>1, SumEmpty
<1>2. ASSUME NEW U \in SUBSET S, NEW y \in S \ U, U \in I PROVE U \cup {y} \in I
  <2>1. Image(U \cup {y}) = Image(U) \cup {h[y]} /\ h[y] \notin Image(U)
    BY <1>6
  <2>2. IsFiniteSet(U)
    BY FS_Subset
  <2>3. IsFiniteSet(Image(U))
    <3> DEFINE k == [x \in U |-> h[x]]
    <3>1. k \in Surjection(U, Image(U))
      BY <1>6 DEF Surjection
    <3> HIDE DEF k, Image
    <3>2. QED BY <2>2, <3>1, FS_Surjection
  <2>4. Summable(f, U) /\ f[y] \in Int
    BY <2>2 DEF Summable
  <2>5. Summable(g, Image(U)) /\ g[h[y]] = f[y]
    BY <1>6, <2>3 DEF Summable
  <2>6. y \notin U /\ SumFunctionOnSet(g, Image(U)) = SumFunctionOnSet(f, U)
    BY <1>2
  <2> HIDE DEF Image
  <2>7. SumFunctionOnSet(f, U \cup {y}) = f[y] + SumFunctionOnSet(f, U)
    BY <2>4, <2>6, SumAdd
  <2>8. SumFunctionOnSet(g, Image(U) \cup {h[y]}) = g[h[y]] + SumFunctionOnSet(g, Image(U))
    BY <2>1, <2>4, <2>5, SumAdd
  <2>9. SumFunctionOnSet(g, Image(U \cup {y})) = SumFunctionOnSet(f, U \cup {y})
    BY <2>1, <2>5, <2>6, <2>7, <2>8
  <2>10. QED BY <2>9
<1>3. S \in I
  <2> HIDE DEF I
  <2> QED BY <1>1, <1>2, SubsetInduction
<1>4. DOMAIN g = Image(S) /\ DOMAIN f = S
  BY <1>6
<1>5. QED BY <1>3, <1>4 DEF SumFunction

\* A sum of greater values is greater.
LEMMA SumAtLeast ==
  ASSUME NEW S, IsFiniteSet(S), NEW f \in [S -> Int], NEW g \in [S -> Int],
         \A x \in S : f[x] <= g[x]
  PROVE  SumFunction(f) \in Int /\ SumFunction(g) \in Int /\ SumFunction(f) <= SumFunction(g)
<1> DEFINE I == {U \in SUBSET S : SumFunctionOnSet(f, U) <= SumFunctionOnSet(g, U)}
<1>1. {} \in I
  BY SumEmpty
<1>2. ASSUME NEW U \in SUBSET S, NEW y \in S \ U, U \in I PROVE U \cup {y} \in I
  <2>1. Summable(f, U) /\ Summable(g, U)
    BY FS_Subset DEF Summable
  <2>2. y \notin U /\ f[y] \in Int /\ g[y] \in Int /\ f[y] <= g[y]
    OBVIOUS
  <2>3. SumFunctionOnSet(f, U \cup {y}) = f[y] + SumFunctionOnSet(f, U)
    BY <2>1, <2>2, SumAdd
  <2>4. SumFunctionOnSet(g, U \cup {y}) = g[y] + SumFunctionOnSet(g, U)
    BY <2>1, <2>2, SumAdd
  <2>5. /\ SumFunctionOnSet(f, U) \in Int /\ SumFunctionOnSet(g, U) \in Int
        /\ SumFunctionOnSet(f, U) <= SumFunctionOnSet(g, U)
    BY <1>2, <2>1, SumType
  <2>6. SumFunctionOnSet(f, U \cup {y}) <= SumFunctionOnSet(g, U \cup {y})
    BY <2>2, <2>3, <2>4, <2>5
  <2>7. QED BY <2>6
<1>3. S \in I
  <2> HIDE DEF I
  <2> QED BY <1>1, <1>2, SubsetInduction
<1>4. Summable(f, S) /\ Summable(g, S) /\ DOMAIN f = S /\ DOMAIN g = S
  BY DEF Summable
<1>5. QED BY <1>3, <1>4, SumType DEF SumFunction

-----------------------------------------------------------------------------
(* What a broadcast is made of, R being the requests and M the order       *)
(* numbers it can name.                                                    *)

UInt32s == 0 .. UInt32Range - 1

SubItem(R, M) ==
  {ReturnInfo(ack, num) : ack \in Int, num \in M}
    \cup {OrderTrans(req, qty) : req \in R, qty \in UInt32s}
    \cup {OrderChange(left) : left \in UInt32s}
    \cup {AlterTrans(num, qty) : num \in M, qty \in UInt32s}
    \cup {DeleteTrans(num) : num \in M}
    \cup {TradeInfo(match, lots) : match \in Nat \ {0}, lots \in Nat}
    \cup {HvAlterTrans}

Pod(R, M) ==
  [req : R \cup {NoReq}, num : M \cup {0}, qty : UInt32s, leaves : UInt32s, last : UInt32s,
   exec : Nat, status : {"0", "CANCELED", "MODIFIED"}, ack : Int,
   hasOrderInfo : BOOLEAN, hasChangeInfo : BOOLEAN]

\* A quantity stored in 32 bits stays one.
LEMMA UInt32Type ==
  /\ \A n \in Int : UInt32(n) \in UInt32s
  /\ \A n \in UInt32s : UInt32(n) = n
BY UInt32RangeAssumption DEF UInt32, UInt32s

\* Which sub-item is which.
LEMMA SubItemCases ==
  ASSUME NEW R, NEW M, NEW item \in SubItem(R, M)
  PROVE  \/ item.struct = 34904 /\ item.ack \in Int /\ item.num \in M
         \/ item.struct = 34005 /\ item.req \in R /\ item.qty \in UInt32s
         \/ item.struct = 34902 /\ item.left \in UInt32s
         \/ item.struct = 34009 /\ item.num \in M /\ item.qty \in UInt32s
         \/ item.struct = 34011 /\ item.num \in M
         \/ item.struct = 34920 /\ item.match \in Nat \ {0} /\ item.lots \in Nat
         \/ item.struct = 34010
BY DEF SubItem, ReturnInfo, OrderTrans, OrderChange, AlterTrans, DeleteTrans, TradeInfo,
       HvAlterTrans

\* One sub-item takes an OrderPod to an OrderPod.
LEMMA ParseItemType ==
  ASSUME NEW R, NEW M, NEW ord \in Pod(R, M), NEW item \in SubItem(R, M)
  PROVE  ParseItem(ord, item) \in Pod(R, M)
<1>1. 0 \in UInt32s
  BY UInt32RangeAssumption DEF UInt32s
<1>2. CASE item.struct = 34904
  <2>1. item.ack \in Int /\ item.num \in M
    BY <1>2, SubItemCases
  <2>2. ParseItem(ord, item) = [ord EXCEPT !.ack = item.ack, !.num = item.num]
    BY <1>2 DEF ParseItem
  <2>3. QED BY <2>1, <2>2 DEF Pod
<1>3. CASE item.struct = 34005
  <2>1. item.req \in R /\ UInt32(item.qty) \in UInt32s
    BY <1>3, SubItemCases, UInt32Type DEF UInt32s
  <2>2. ParseItem(ord, item) =
          [ord EXCEPT !.req = item.req, !.qty = UInt32(item.qty), !.leaves = UInt32(item.qty)]
    BY <1>3 DEF ParseItem, OnOrderTrans
  <2>3. QED BY <2>1, <2>2 DEF Pod
<1>4. CASE item.struct = 34902
  <2>1. UInt32(item.left) \in UInt32s
    BY <1>4, SubItemCases, UInt32Type DEF UInt32s
  <2>2. ParseItem(ord, item) =
          [ord EXCEPT !.leaves = UInt32(item.left), !.hasChangeInfo = TRUE]
    BY <1>4 DEF ParseItem
  <2>3. QED BY <2>1, <2>2 DEF Pod
<1>5. CASE item.struct = 34009
  <2>1. item.num \in M /\ UInt32(item.qty) \in UInt32s
    BY <1>5, SubItemCases, UInt32Type DEF UInt32s
  <2>2. ParseItem(ord, item) =
          [ord EXCEPT !.num = item.num, !.qty = UInt32(item.qty), !.status = "MODIFIED",
                      !.hasOrderInfo = TRUE]
    BY <1>5 DEF ParseItem
  <2>3. QED BY <2>1, <2>2 DEF Pod
<1>6. CASE item.struct = 34011
  <2>1. item.num \in M
    BY <1>6, SubItemCases
  <2>2. ParseItem(ord, item) =
          [ord EXCEPT !.num = item.num, !.status = "CANCELED", !.leaves = 0,
                      !.hasOrderInfo = TRUE]
    BY <1>6 DEF ParseItem
  <2>3. QED BY <1>1, <2>1, <2>2 DEF Pod
<1>7. CASE item.struct = 34920
  <2>1. item.match \in Nat
    BY <1>7, SubItemCases
  <2>2. ParseItem(ord, item) = [ord EXCEPT !.exec = item.match]
    BY <1>7 DEF ParseItem
  <2>3. QED BY <2>1, <2>2 DEF Pod
<1>8. CASE item.struct = 34010
  <2>1. ParseItem(ord, item) = ord
    BY <1>8 DEF ParseItem
  <2>2. QED BY <2>1
<1>9. QED
  BY <1>2, <1>3, <1>4, <1>5, <1>6, <1>7, <1>8, SubItemCases

-----------------------------------------------------------------------------
(* The OrderPods a broadcast takes the parser through.                     *)

Runs(run, items) ==
  /\ run[0] = Blank
  /\ \A n \in 0 .. Len(items) - 1 : run[n + 1] = ParseItem(run[n], items[n + 1])
  /\ Parsed(items) = CheckFill(CheckAck(run[Len(items)]))

\* The recursive function FoldLeft is defined by.
Iterates(iter, items) ==
  iter = [s \in SUBSET DOMAIN items |->
            IF s = {} THEN Blank ELSE ParseItem(iter[s \ {Max(s)}], items[Max(s)])]

\* FoldLeft applies that function to all positions.
LEMMA ParseIsFold ==
  ASSUME NEW items
  PROVE  FoldLeft(ParseItem, Blank, items) = (CHOOSE iter : Iterates(iter, items))[DOMAIN items]
BY DEF FoldLeft, MapThenFoldSet, Iterates

\* The greatest of some positions is one of them.
LEMMA MaxOfSome ==
  ASSUME NEW n \in Nat, NEW s \in SUBSET (1 .. n), s # {}
  PROVE  Max(s) \in s /\ \A y \in s : y <= Max(s)
<1> DEFINE T == {n - y : y \in s}
<1>1. T \in SUBSET Nat /\ T # {}
  <2>1. \A y \in s : n - y \in Nat
    OBVIOUS
  <2>2. QED BY <2>1
<1>2. PICK m \in T : \A z \in T : m <= z
  <2> HIDE DEF T
  <2> QED BY <1>1, LeastNatural
<1>3. PICK x \in s : m = n - x
  OBVIOUS
<1>4. ASSUME NEW y \in s PROVE x >= y
  <2>1. n - x <= n - y
    BY <1>2, <1>3
  <2>2. x \in Nat /\ y \in Nat
    OBVIOUS
  <2>3. QED BY <2>1, <2>2
<1>5. \E z \in s : \A y \in s : z >= y
  BY <1>4
<1>6. Max(s) \in s /\ \A y \in s : Max(s) >= y
  BY <1>5 DEF Max
<1> DEFINE m1 == Max(s)
<1>7. m1 \in Int /\ \A y \in s : y \in Int /\ m1 >= y
  <2>1. m1 \in s /\ \A y \in s : m1 >= y
    BY <1>6
  <2>2. \A y \in s : y \in Int
    OBVIOUS
  <2> HIDE DEF m1
  <2>3. QED BY <2>1, <2>2
<1> HIDE DEF m1
<1>8. \A y \in s : y <= m1
  BY <1>7
<1>9. QED BY <1>6, <1>8 DEF m1

\* That function exists, and its values are OrderPods.
LEMMA IterationExists ==
  ASSUME NEW R, NEW M, NEW items \in Seq(SubItem(R, M))
  PROVE  \E iter \in [SUBSET DOMAIN items -> Pod(R, M)] : Iterates(iter, items)
<1> DEFINE D == DOMAIN items
           c == [s \in SUBSET D |-> Max(s)]
           F == [p \in D \X Pod(R, M) |-> ParseItem(p[2], items[p[1]])]
<1>1. D = 1 .. Len(items) /\ Len(items) \in Nat /\ \A i \in D : items[i] \in SubItem(R, M)
  OBVIOUS
<1>2. \A s \in SUBSET D : s # {} => c[s] \in s
  BY <1>1, MaxOfSome
<1>3. F \in [D \X Pod(R, M) -> Pod(R, M)]
  <2>1. \A p \in D \X Pod(R, M) : ParseItem(p[2], items[p[1]]) \in Pod(R, M)
    BY <1>1, ParseItemType
  <2>2. QED BY <2>1
<1>4. IsFiniteSet(D)
  BY <1>1, FS_Interval
<1>5. Blank \in Pod(R, M)
  BY UInt32RangeAssumption DEF Blank, Pod, UInt32s
<1>6. PICK g \in [SUBSET D -> Pod(R, M)] : Folds(g, SUBSET D, Blank, c, F)
  <2> HIDE DEF c, F, D
  <2> QED BY <1>2, <1>3, <1>4, <1>5, FoldExists
<1>7. ASSUME NEW s \in SUBSET D
      PROVE  g[s] = IF s = {} THEN Blank ELSE ParseItem(g[s \ {Max(s)}], items[Max(s)])
  <2>1. g[s] = IF s = {} THEN Blank ELSE F[<<c[s], g[s \ {c[s]}]>>]
    <3> HIDE DEF c, F
    <3> QED BY <1>6 DEF Folds
  <2>2. c[s] = Max(s)
    OBVIOUS
  <2>3. s # {} => c[s] \in D /\ g[s \ {c[s]}] \in Pod(R, M)
    BY <1>2
  <2>4. QED BY <2>1, <2>2, <2>3
<1>8. g = [s \in SUBSET D |->
             IF s = {} THEN Blank ELSE ParseItem(g[s \ {Max(s)}], items[Max(s)])]
  <2> HIDE DEF D
  <2> QED BY <1>6, <1>7
<1>9. Iterates(g, items)
  BY <1>8 DEF Iterates
<1>10. QED BY <1>9

\* Every broadcast takes the parser from the blank OrderPod through one
\* OrderPod per sub-item.
LEMMA ParserRuns ==
  ASSUME NEW R, NEW M, NEW items \in Seq(SubItem(R, M))
  PROVE  \E run \in [0 .. Len(items) -> Pod(R, M)] : Runs(run, items)
<1> DEFINE iter == CHOOSE it : Iterates(it, items)
           N == Len(items)
           run == [n \in 0 .. N |-> iter[1 .. n]]
<1>1. DOMAIN items = 1 .. N /\ N \in Nat
  OBVIOUS
<1>2. Iterates(iter, items)
  BY IterationExists
<1> HIDE DEF iter
<1>3. iter[{}] = Blank
  BY <1>2 DEF Iterates
<1>4. ASSUME NEW n \in 0 .. N - 1
      PROVE  iter[1 .. n + 1] = ParseItem(iter[1 .. n], items[n + 1])
  <2> DEFINE s == 1 .. n + 1
  <2>1. s \in SUBSET (1 .. N) /\ s # {}
    <3>1. n + 1 \in 1 .. N /\ n + 1 \in s
      BY <1>1
    <3>2. \A y \in s : y \in 1 .. N
      BY <1>1
    <3>3. QED BY <3>1, <3>2
  <2>2. Max(s) \in s /\ \A y \in s : y <= Max(s)
    BY <1>1, <2>1, MaxOfSome
  <2>3. Max(s) = n + 1
    BY <2>2
  <2>4. s \ {n + 1} = 1 .. n
    OBVIOUS
  <2>5. iter[s] = ParseItem(iter[s \ {Max(s)}], items[Max(s)])
    <3> HIDE DEF s
    <3> QED BY <1>1, <1>2, <2>1 DEF Iterates
  <2>6. QED BY <2>3, <2>4, <2>5
<1>5. \A n \in 0 .. N : 1 .. n \in SUBSET (1 .. N)
  BY <1>1
<1>6. run \in [0 .. N -> Pod(R, M)]
  <2>1. DEFINE I == {n \in 0 .. N : iter[1 .. n] \in Pod(R, M)}
  <2>2. 0 \in I
    <3>1. Blank \in Pod(R, M)
      BY UInt32RangeAssumption DEF Blank, Pod, UInt32s
    <3>2. 1 .. 0 = {}
      OBVIOUS
    <3>3. QED BY <1>1, <1>3, <3>1, <3>2
  <2>3. \A n \in I : n < N => n + 1 \in I
    <3>1. \A n \in 0 .. N - 1 : items[n + 1] \in SubItem(R, M)
      BY <1>1
    <3>2. QED BY <1>1, <1>4, <3>1, ParseItemType
  <2>4. I = 0 .. N
    <3>1. I \in SUBSET (0 .. N)
      OBVIOUS
    <3> HIDE DEF I
    <3>2. QED BY <1>1, <2>2, <2>3, <3>1, SetInductionUpTo
  <2>5. QED BY <2>4
<1>7. run[0] = Blank
  <2>1. 1 .. 0 = {} /\ 0 \in 0 .. N
    BY <1>1
  <2>2. QED BY <1>3, <2>1
<1>8. \A n \in 0 .. N - 1 : run[n + 1] = ParseItem(run[n], items[n + 1])
  BY <1>1, <1>4
<1>9. Parsed(items) = CheckFill(CheckAck(run[N]))
  <2>1. FoldLeft(ParseItem, Blank, items) = iter[1 .. N]
    BY <1>1, ParseIsFold DEF iter
  <2>2. N \in 0 .. N
    BY <1>1
  <2>3. QED BY <2>1, <2>2 DEF Parsed
<1>10. Runs(run, items)
  <2> HIDE DEF run
  <2> QED BY <1>7, <1>8, <1>9 DEF Runs
<1>11. QED BY <1>6, <1>10

\* What one sub-item changes.
LEMMA ItemEffects ==
  ASSUME NEW R, NEW M, NEW ord \in Pod(R, M), NEW item \in SubItem(R, M)
  PROVE  LET new == ParseItem(ord, item) IN
         /\ new.exec = IF item.struct = 34920 THEN item.match ELSE ord.exec
         /\ new.req = IF item.struct = 34005 THEN item.req ELSE ord.req
         /\ new.qty = IF item.struct \in {34005, 34009} THEN item.qty ELSE ord.qty
         /\ new.leaves = IF item.struct = 34005 THEN item.qty
                         ELSE IF item.struct = 34902 THEN item.left
                         ELSE IF item.struct = 34011 THEN 0 ELSE ord.leaves
         /\ new.ack = IF item.struct = 34904 THEN item.ack ELSE ord.ack
         /\ new.num = IF item.struct \in {34904, 34009, 34011} THEN item.num ELSE ord.num
         /\ new.status = IF item.struct = 34011 THEN "CANCELED"
                         ELSE IF item.struct = 34009 THEN "MODIFIED" ELSE ord.status
         /\ new.hasOrderInfo <=> (item.struct \in {34009, 34011} \/ ord.hasOrderInfo)
         /\ new.hasChangeInfo <=> (item.struct = 34902 \/ ord.hasChangeInfo)
<1>1. item.struct \in {34005, 34009} => UInt32(item.qty) = item.qty
  BY SubItemCases, UInt32Type
<1>2. item.struct = 34902 => UInt32(item.left) = item.left
  BY SubItemCases, UInt32Type
<1>3. item.struct \in {34904, 34005, 34902, 34009, 34011, 34920, 34010}
  BY SubItemCases
<1>4. QED BY <1>1, <1>2, <1>3 DEF ParseItem, OnOrderTrans, Pod

-----------------------------------------------------------------------------
(* What the OrderPod says after all sub-items.                             *)

\* The quantity filled is the difference of two 32-bit quantities.
LEMMA FilledBySubtraction ==
  ASSUME NEW entered \in UInt32s, NEW left \in UInt32s, left <= entered
  PROVE  UInt32(entered - left) + left = entered
<1>1. entered - left \in UInt32s
  BY UInt32RangeAssumption DEF UInt32s
<1>2. UInt32(entered - left) = entered - left
  BY <1>1, UInt32Type
<1>3. QED BY <1>2 DEF UInt32s

\* The only sub-item of its struct is the one LastOf picks.
LEMMA LastOfOnce ==
  ASSUME NEW R, NEW M, NEW items \in Seq(SubItem(R, M)), NEW s, Once(items, s),
         NEW i \in DOMAIN items, items[i].struct = s
  PROVE  LastOf(items, s) = items[i]
<1>1. \A j \in DOMAIN items : items[j].struct = s => j = i
  BY DEF Once
<1>2. DOMAIN items = 1 .. Len(items) /\ Len(items) \in Nat
  OBVIOUS
<1> DEFINE P(k) == items[k].struct = s /\ \A j \in DOMAIN items : items[j].struct = s => j <= k
<1>3. P(i)
  BY <1>1, <1>2
<1>4. (CHOOSE k \in DOMAIN items : P(k)) = i
  <2>1. \A k \in DOMAIN items : P(k) => k = i
    BY <1>1
  <2> HIDE DEF P
  <2>2. QED BY <1>3, <2>1
<1>5. QED BY <1>4 DEF LastOf

\* The promise about fills, of every broadcast.
THEOREM FillIsReportedAlways ==
  ASSUME NEW R, NEW M, NEW items \in Seq(SubItem(R, M)) PROVE FillIsReported(items)
<1>1. SUFFICES ASSUME WellFormedTrade(items)
               PROVE  LET ord == Parsed(items)
                          entered == LastOf(items, 34005)
                          left == LastOf(items, 34902).left
                      IN /\ Publishes(ord)
                         /\ ord.req = entered.req
                         /\ ord.last + left = entered.qty
                         /\ ord.status = FillStatus(left)
  BY DEF FillIsReported
<1> DEFINE N == Len(items)
<1>2. DOMAIN items = 1 .. N /\ N \in Nat /\ \A n \in 1 .. N : items[n] \in SubItem(R, M)
  OBVIOUS
<1>3. PICK run \in [0 .. N -> Pod(R, M)] : Runs(run, items)
  BY ParserRuns
<1>4. /\ \E a \in 1 .. N : items[a].struct = 34005
      /\ \E k \in 1 .. N : items[k].struct = 34902
      /\ \E t \in 1 .. N : items[t].struct = 34920
  BY <1>1, <1>2 DEF WellFormedTrade, Has
<1>5. PICK a \in 1 .. N : items[a].struct = 34005
  BY <1>4
<1>6. PICK k \in 1 .. N : items[k].struct = 34902
  BY <1>4
<1>7. PICK t \in 1 .. N : items[t].struct = 34920
  BY <1>4
<1>8. /\ \A n \in 1 .. N : items[n].struct = 34005 => n = a
      /\ \A n \in 1 .. N : items[n].struct = 34902 => n = k
      /\ \A n \in 1 .. N : items[n].struct # 34009
      /\ \A n \in 1 .. N : items[n].struct = 34011 => n < k
      /\ a < k
  <2>1. Once(items, 34005) /\ Once(items, 34902)
    BY <1>1 DEF WellFormedTrade
  <2>2. Precedes(items, 34005, 34902) /\ Precedes(items, 34011, 34902)
    BY <1>1 DEF WellFormedTrade
  <2>3. ~Has(items, 34009)
    BY <1>1 DEF WellFormedTrade
  <2>4. \A n \in 1 .. N : items[n].struct = 34005 => n = a
    BY <1>2, <1>5, <2>1 DEF Once
  <2>5. \A n \in 1 .. N : items[n].struct = 34902 => n = k
    BY <1>2, <1>6, <2>1 DEF Once
  <2>6. \A n \in 1 .. N : items[n].struct # 34009
    BY <1>2, <2>3 DEF Has
  <2>7. a < k
    BY <1>2, <1>5, <1>6, <2>2 DEF Precedes
  <2>8. \A n \in 1 .. N : items[n].struct = 34011 => n < k
    BY <1>2, <1>6, <2>2 DEF Precedes
  <2>9. QED BY <2>4, <2>5, <2>6, <2>7, <2>8
<1>9. LastOf(items, 34005) = items[a] /\ LastOf(items, 34902) = items[k]
  <2>1. Once(items, 34005) /\ Once(items, 34902)
    BY <1>1 DEF WellFormedTrade
  <2>2. QED BY <1>2, <1>5, <1>6, <2>1, LastOfOnce
<1>10. /\ items[a].qty \in UInt32s /\ items[k].left \in UInt32s
       /\ items[t].match \in Nat \ {0} /\ items[k].left <= items[a].qty
  BY <1>1, <1>2, <1>5, <1>6, <1>7, <1>9, SubItemCases DEF WellFormedTrade
<1> DEFINE Ok(n) == /\ n >= a => run[n].req = items[a].req /\ run[n].qty = items[a].qty
                    /\ n >= k => run[n].leaves = items[k].left
                    /\ n >= t => run[n].exec # 0
           I == {n \in 0 .. N : Ok(n)}
<1>11. 0 \in I
  BY <1>2, <1>5, <1>6, <1>7
<1>12. ASSUME NEW n \in I, n < N PROVE n + 1 \in I
  <2>1. n \in 0 .. N - 1 /\ n + 1 \in 1 .. N
    BY <1>2, <1>12
  <2> DEFINE item == items[n + 1]
             ord == run[n]
  <2>2. run[n + 1] = ParseItem(ord, item)
    BY <1>3, <2>1 DEF Runs
  <2>3. ord \in Pod(R, M) /\ item \in SubItem(R, M)
    BY <1>2, <1>3, <2>1
  <2>4. /\ run[n + 1].exec = IF item.struct = 34920 THEN item.match ELSE ord.exec
        /\ run[n + 1].req = IF item.struct = 34005 THEN item.req ELSE ord.req
        /\ run[n + 1].qty = IF item.struct \in {34005, 34009} THEN item.qty ELSE ord.qty
        /\ run[n + 1].leaves = IF item.struct = 34005 THEN item.qty
                               ELSE IF item.struct = 34902 THEN item.left
                               ELSE IF item.struct = 34011 THEN 0 ELSE ord.leaves
    <3> HIDE DEF ord, item
    <3> QED BY <2>2, <2>3, ItemEffects
  <2>5. n + 1 >= a => run[n + 1].req = items[a].req /\ run[n + 1].qty = items[a].qty
    BY <1>5, <1>8, <1>12, <2>1, <2>4
  <2>6. n + 1 >= k => run[n + 1].leaves = items[k].left
    BY <1>6, <1>8, <1>12, <2>1, <2>4
  <2>7. n + 1 >= t => run[n + 1].exec # 0
    <3>1. item.struct = 34920 => item.match # 0
      <4> HIDE DEF item
      <4> QED BY <2>3, SubItemCases
    <3>2. QED BY <1>7, <1>12, <2>1, <2>4, <3>1
  <2>8. QED BY <2>1, <2>5, <2>6, <2>7
<1>13. I = 0 .. N
  <2>1. I \in SUBSET (0 .. N)
    OBVIOUS
  <2> HIDE DEF I
  <2>2. QED BY <1>2, <1>11, <1>12, <2>1, SetInductionUpTo
<1>14. Ok(N)
  BY <1>2, <1>13
<1>15. /\ run[N].req = items[a].req /\ run[N].qty = items[a].qty
       /\ run[N].leaves = items[k].left /\ run[N].exec # 0
       /\ run[N] \in Pod(R, M)
  BY <1>2, <1>3, <1>14
<1>16. /\ CheckAck(run[N]).exec # 0
       /\ CheckAck(run[N]).req = items[a].req
       /\ CheckAck(run[N]).qty = items[a].qty
       /\ CheckAck(run[N]).leaves = items[k].left
       /\ DOMAIN CheckAck(run[N]) = DOMAIN run[N]
  BY <1>15 DEF CheckAck, Pod
<1>17. /\ Parsed(items).req = items[a].req
       /\ Parsed(items).last = UInt32(items[a].qty - items[k].left)
       /\ Parsed(items).status = FillStatus(items[k].left)
       /\ Parsed(items).hasChangeInfo
  <2>1. Parsed(items) = CheckFill(CheckAck(run[N]))
    BY <1>3 DEF Runs
  <2> DEFINE acked == CheckAck(run[N])
  <2>2. DOMAIN acked = {"req", "num", "qty", "leaves", "last", "exec", "status", "ack",
                        "hasOrderInfo", "hasChangeInfo"}
    BY <1>15, <1>16 DEF Pod
  <2> HIDE DEF acked
  <2>3. QED BY <1>16, <2>1, <2>2 DEF CheckFill, acked
<1>18. Parsed(items).last + items[k].left = items[a].qty
  BY <1>10, <1>17, FilledBySubtraction
<1>19. QED BY <1>9, <1>17, <1>18 DEF Publishes

\* The promise about echoes, of every broadcast.
THEOREM EchoIsSilentAlways ==
  ASSUME NEW R, NEW M, NEW items \in Seq(SubItem(R, M)) PROVE EchoIsSilent(items)
<1>1. SUFFICES ASSUME \A i \in DOMAIN items :
                        \/ items[i].struct \in {34005, 34010}
                        \/ items[i].struct = 34904 /\ items[i].ack >= 0
               PROVE  ParseBO5(items) = <<>>
  BY DEF EchoIsSilent
<1> DEFINE N == Len(items)
<1>2. DOMAIN items = 1 .. N /\ N \in Nat /\ \A n \in 1 .. N : items[n] \in SubItem(R, M)
  OBVIOUS
<1>3. PICK run \in [0 .. N -> Pod(R, M)] : Runs(run, items)
  BY ParserRuns
<1> DEFINE Ok(n) == /\ run[n].exec = 0 /\ run[n].ack >= 0
                    /\ ~run[n].hasOrderInfo /\ ~run[n].hasChangeInfo
           I == {n \in 0 .. N : Ok(n)}
<1>4. 0 \in I
  BY <1>2, <1>3 DEF Runs, Blank
<1>5. ASSUME NEW n \in I, n < N PROVE n + 1 \in I
  <2>1. n \in 0 .. N - 1 /\ n + 1 \in 1 .. N
    BY <1>2, <1>5
  <2> DEFINE item == items[n + 1]
             ord == run[n]
  <2>2. run[n + 1] = ParseItem(ord, item)
    BY <1>3, <2>1 DEF Runs
  <2>3. ord \in Pod(R, M) /\ item \in SubItem(R, M)
    BY <1>2, <1>3, <2>1
  <2>4. /\ run[n + 1].exec = IF item.struct = 34920 THEN item.match ELSE ord.exec
        /\ run[n + 1].ack = IF item.struct = 34904 THEN item.ack ELSE ord.ack
        /\ run[n + 1].hasOrderInfo <=> (item.struct \in {34009, 34011} \/ ord.hasOrderInfo)
        /\ run[n + 1].hasChangeInfo <=> (item.struct = 34902 \/ ord.hasChangeInfo)
    <3> HIDE DEF ord, item
    <3> QED BY <2>2, <2>3, ItemEffects
  <2>5. \/ item.struct \in {34005, 34010}
        \/ item.struct = 34904 /\ item.ack >= 0
    BY <1>1, <1>2, <2>1
  <2>6. Ok(n + 1)
    BY <1>5, <2>4, <2>5
  <2>7. QED BY <2>1, <2>6
<1>6. I = 0 .. N
  <2>1. I \in SUBSET (0 .. N)
    OBVIOUS
  <2> HIDE DEF I
  <2>2. QED BY <1>2, <1>4, <1>5, <2>1, SetInductionUpTo
<1>7. Ok(N) /\ run[N] \in Pod(R, M)
  BY <1>2, <1>3, <1>6
<1>8. CheckAck(run[N]) = run[N]
  BY <1>7 DEF CheckAck, Pod
<1>9. CheckFill(CheckAck(run[N])) = run[N]
  BY <1>7, <1>8 DEF CheckFill
<1>10. Parsed(items) = run[N]
  BY <1>3, <1>9 DEF Runs
<1>11. QED BY <1>7, <1>10 DEF ParseBO5, Publishes

\* What the parser promises about a published end, before what it publishes
\* is put into a sequence; and what it calls a fill is of a trade.
LEMMA EndOfParsed ==
  ASSUME NEW R, NEW M, NEW items \in Seq(SubItem(R, M))
  PROVE  /\ Parsed(items).status = "CANCELED" => Has(items, 34011) /\ ~Has(items, 34920)
         /\ Parsed(items).status = "REJECTED" => Parsed(items).ack < 0 /\ ~Has(items, 34920)
         /\ Parsed(items).status \in {"FILLED", "PARTIALLY_FILLED"} => Has(items, 34920)
<1> DEFINE N == Len(items)
<1>2. DOMAIN items = 1 .. N /\ N \in Nat /\ \A n \in 1 .. N : items[n] \in SubItem(R, M)
  OBVIOUS
<1>3. PICK run \in [0 .. N -> Pod(R, M)] : Runs(run, items)
  BY ParserRuns
<1> DEFINE Ok(n) ==
             /\ run[n].status = "CANCELED" => \E i \in 1 .. n : items[i].struct = 34011
             /\ \A i \in 1 .. n : items[i].struct = 34920 => run[n].exec # 0
             /\ run[n].exec # 0 => \E i \in 1 .. n : items[i].struct = 34920
           I == {n \in 0 .. N : Ok(n)}
<1>4. 0 \in I
  BY <1>2, <1>3 DEF Runs, Blank
<1>5. ASSUME NEW n \in I, n < N PROVE n + 1 \in I
  <2>1. n \in 0 .. N - 1 /\ n + 1 \in 1 .. N /\ n \in Nat
    BY <1>2, <1>5
  <2> DEFINE item == items[n + 1]
             ord == run[n]
  <2>2. run[n + 1] = ParseItem(ord, item)
    BY <1>3, <2>1 DEF Runs
  <2>3. ord \in Pod(R, M) /\ item \in SubItem(R, M)
    BY <1>2, <1>3, <2>1
  <2>4. /\ run[n + 1].exec = IF item.struct = 34920 THEN item.match ELSE ord.exec
        /\ run[n + 1].status = IF item.struct = 34011 THEN "CANCELED"
                              ELSE IF item.struct = 34009 THEN "MODIFIED" ELSE ord.status
    <3> HIDE DEF ord, item
    <3> QED BY <2>2, <2>3, ItemEffects
  <2>5. ASSUME run[n + 1].status = "CANCELED"
        PROVE  \E i \in 1 .. n + 1 : items[i].struct = 34011
    <3>1. CASE item.struct = 34011
      BY <2>1, <3>1
    <3>2. CASE ord.status = "CANCELED"
      BY <1>5, <2>1, <3>2
    <3>3. QED BY <2>4, <2>5, <3>1, <3>2
  <2>6. ASSUME NEW i \in 1 .. n + 1, items[i].struct = 34920
        PROVE  run[n + 1].exec # 0
    <3>1. item.struct = 34920 => item.match # 0
      <4> HIDE DEF item
      <4> QED BY <2>3, SubItemCases
    <3>2. i = n + 1 \/ i \in 1 .. n
      BY <2>1
    <3>3. QED BY <1>5, <2>4, <2>6, <3>1, <3>2
  <2>7. ASSUME run[n + 1].exec # 0
        PROVE  \E i \in 1 .. n + 1 : items[i].struct = 34920
    <3>1. CASE item.struct = 34920
      BY <2>1, <3>1
    <3>2. CASE ord.exec # 0
      BY <1>5, <2>1, <3>2
    <3>3. QED BY <2>4, <2>7, <3>1, <3>2
  <2>8. Ok(n + 1)
    BY <2>5, <2>6, <2>7
  <2>9. QED
    <3> HIDE DEF Ok
    <3> QED BY <2>1, <2>8
<1>6. I = 0 .. N
  <2>1. I \in SUBSET (0 .. N)
    OBVIOUS
  <2> HIDE DEF I
  <2>2. QED BY <1>2, <1>4, <1>5, <2>1, SetInductionUpTo
<1>7. Ok(N) /\ run[N] \in Pod(R, M)
  <2>1. N \in I
    <3> HIDE DEF I
    <3> QED BY <1>2, <1>6
  <2>2. QED BY <1>2, <1>3, <2>1
<1>8. /\ run[N].status = "CANCELED" => Has(items, 34011)
      /\ Has(items, 34920) <=> run[N].exec # 0
      /\ run[N].status \in {"0", "CANCELED", "MODIFIED"}
  <2>1. run[N].status = "CANCELED" => Has(items, 34011)
    BY <1>2, <1>7 DEF Has
  <2>2. Has(items, 34920) <=> run[N].exec # 0
    <3>1. /\ \A i \in 1 .. N : items[i].struct = 34920 => run[N].exec # 0
          /\ run[N].exec # 0 => \E i \in 1 .. N : items[i].struct = 34920
      BY <1>7
    <3>2. QED BY <1>2, <3>1 DEF Has
  <2>3. run[N].status \in {"0", "CANCELED", "MODIFIED"}
    BY <1>7 DEF Pod
  <2>4. QED BY <2>1, <2>2, <2>3
<1> DEFINE acked == CheckAck(run[N])
<1>9. /\ acked.exec = run[N].exec
      /\ acked.ack = run[N].ack
      /\ acked.status = IF run[N].ack < 0 THEN "REJECTED" ELSE run[N].status
      /\ DOMAIN acked = {"req", "num", "qty", "leaves", "last", "exec", "status", "ack",
                         "hasOrderInfo", "hasChangeInfo"}
  BY <1>7 DEF CheckAck, Pod
<1>10. Parsed(items) = CheckFill(acked)
  BY <1>3 DEF Runs
<1> HIDE DEF acked
<1>11. CASE acked.exec # 0
  <2>1. Parsed(items).status \in {"FILLED", "PARTIALLY_FILLED"}
    BY <1>9, <1>10, <1>11 DEF CheckFill, FillStatus
  <2>2. QED BY <1>8, <1>9, <1>11, <2>1
<1>12. CASE acked.exec = 0
  <2>1. Parsed(items) = acked
    BY <1>10, <1>12 DEF CheckFill
  <2>2. QED BY <1>8, <1>9, <1>12, <2>1
<1>13. QED BY <1>11, <1>12

\* The promise about ends, of every broadcast.
THEOREM EndIsNotAFillAlways ==
  ASSUME NEW R, NEW M, NEW items \in Seq(SubItem(R, M)) PROVE EndIsNotAFill(items)
<1>1. ASSUME NEW ord \in Range(ParseBO5(items)) PROVE ord = Parsed(items)
  BY DEF ParseBO5, Range
<1>2. QED BY <1>1, EndOfParsed DEF EndIsNotAFill

-----------------------------------------------------------------------------
(* What is published names what the broadcast names.                       *)

Published(R, M) ==
  [req : R \cup {NoReq}, num : M \cup {0}, qty : UInt32s, leaves : UInt32s, last : UInt32s,
   exec : Nat,
   status : {"0", "CANCELED", "MODIFIED", "REJECTED", "FILLED", "PARTIALLY_FILLED"},
   ack : Int, hasOrderInfo : BOOLEAN, hasChangeInfo : BOOLEAN]

\* The two checks at the end of the parser keep that.
LEMMA ChecksType ==
  ASSUME NEW R, NEW M, NEW ord \in Pod(R, M)
  PROVE  CheckFill(CheckAck(ord)) \in Published(R, M)
<1>1. CheckAck(ord) \in Published(R, M)
  BY DEF CheckAck, Pod, Published
<1> DEFINE acked == CheckAck(ord)
<1> HIDE DEF acked
<1>2. ASSUME acked.exec # 0 PROVE CheckFill(acked) \in Published(R, M)
  <2>1. acked.qty - acked.leaves \in Int
    BY <1>1 DEF acked, Published, UInt32s
  <2>2. UInt32(acked.qty - acked.leaves) \in UInt32s
    BY <2>1, UInt32Type
  <2>3. FillStatus(acked.leaves) \in {"FILLED", "PARTIALLY_FILLED"}
    BY DEF FillStatus
  <2>4. CheckFill(acked) =
          [acked EXCEPT !.last = UInt32(acked.qty - acked.leaves),
                        !.status = FillStatus(acked.leaves),
                        !.hasOrderInfo = FALSE, !.hasChangeInfo = TRUE]
    BY <1>2 DEF CheckFill
  <2>5. acked \in Published(R, M)
    BY <1>1 DEF acked
  <2>6. QED BY <2>2, <2>3, <2>4, <2>5 DEF Published
<1>3. acked.exec = 0 => CheckFill(acked) = acked
  BY DEF CheckFill
<1>4. QED BY <1>1, <1>2, <1>3 DEF acked

\* What ParseBO5 makes of any broadcast.
LEMMA ParsedType ==
  ASSUME NEW R, NEW M, NEW items \in Seq(SubItem(R, M))
  PROVE  ParseBO5(items) \in Seq(Published(R, M)) /\ Len(ParseBO5(items)) <= 1
<1>1. PICK run \in [0 .. Len(items) -> Pod(R, M)] : Runs(run, items)
  BY ParserRuns
<1>2. run[Len(items)] \in Pod(R, M)
  OBVIOUS
<1>3. Parsed(items) \in Published(R, M)
  BY <1>1, <1>2, ChecksType DEF Runs
<1>4. QED BY <1>3 DEF ParseBO5
=============================================================================
