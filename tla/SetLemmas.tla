----------------------------- MODULE SetLemmas -----------------------------
(***************************************************************************)
(* Sums over finite sets, as the specifications write them                 *)
(* (SumFunctionOnSet of the community modules): that they exist, do not    *)
(* depend on the order of the terms, and how they change with the set and  *)
(* with the function.  The induction is over a set of numbers, which       *)
(* well-foundedness of < on Nat gives.                                     *)
(***************************************************************************)
EXTENDS Integers, FiniteSets, FiniteSetsExt, FiniteSetTheorems, FunctionTheorems, TLAPS

\* Induction: a set of numbers that has 0 and every successor has them all.
LEMMA SetInduction ==
  ASSUME NEW T \in SUBSET Nat, 0 \in T, \A n \in T : n + 1 \in T
  PROVE  T = Nat
  <1> DEFINE R == OpToRel(<, Nat)
  <1>1. IsWellFoundedOn(R, Nat)
    BY NatLessThanWellFounded
  <1>2. \A x, y \in Nat : x < y => <<x, y>> \in R
    BY DEF OpToRel
  <1> HIDE DEF R
  <1>3. SUFFICES ASSUME Nat \ T # {} PROVE FALSE
    OBVIOUS
  <1>4. PICK x \in Nat \ T : \A y \in Nat \ T : ~(<<y, x>> \in R)
    BY <1>1, <1>3, WFMin
  <1>5. x # 0 /\ x - 1 \in Nat /\ x - 1 < x
    OBVIOUS
  <1>6. x - 1 \in T
    BY <1>2, <1>4, <1>5
  <1> QED
    BY <1>5, <1>6

\* The slots of an arena, an interval from 0, are as many as its capacity.
LEMMA IntervalSize ==
  ASSUME NEW n \in Nat
  PROVE  IsFiniteSet(0..n) /\ Cardinality(0..n) = n + 1
  <1>1. IsFiniteSet(0..n) /\ Cardinality(0..n) = IF 0 > n THEN 0 ELSE n - 0 + 1
    <2>1. 0 \in Int /\ n \in Int
      OBVIOUS
    <2> QED
      BY <2>1, FS_Interval, Zenon
  <1> QED
    BY <1>1

-----------------------------------------------------------------------------
(* Sums over a finite set. *)

SomeOf(S) == CHOOSE x \in S : TRUE

Smaller(S, n) == {s \in SUBSET S : Cardinality(s) <= n}

\* g adds f up over each of the sets of D.
IsSum(g, f, D) ==
  g = [s \in D |-> IF s = {} THEN 0 ELSE f[SomeOf(s)] + g[s \ {SomeOf(s)}]]

\* The subsets of at most n elements, from the empty one up to all of them.
LEMMA SmallerSets ==
  ASSUME NEW S, IsFiniteSet(S)
  PROVE  /\ Smaller(S, 0) = {{}}
         /\ Smaller(S, Cardinality(S)) = SUBSET S
         /\ \A n \in Nat : Smaller(S, n) \subseteq Smaller(S, n + 1)
         /\ \A n \in Nat : \A s \in Smaller(S, n + 1) : \A x \in s :
              s \ {x} \in Smaller(S, n)
  <1>1. \A s \in SUBSET S : IsFiniteSet(s) /\ Cardinality(s) \in Nat
                             /\ Cardinality(s) <= Cardinality(S)
    BY FS_Subset, FS_CardinalityType
  <1>2. \A s \in SUBSET S : Cardinality(s) = 0 <=> s = {}
    BY <1>1, FS_EmptySet
  <1>3. \A s \in SUBSET S : \A x \in s : Cardinality(s \ {x}) = Cardinality(s) - 1
    BY <1>1, FS_RemoveElement
  <1>4. Smaller(S, 0) = {{}}
    BY <1>1, <1>2 DEF Smaller
  <1>5. Smaller(S, Cardinality(S)) = SUBSET S
    BY <1>1 DEF Smaller
  <1>6. \A n \in Nat : Smaller(S, n) \subseteq Smaller(S, n + 1)
    BY <1>1 DEF Smaller
  <1>7. ASSUME NEW n \in Nat, NEW s \in Smaller(S, n + 1), NEW x \in s
        PROVE  s \ {x} \in Smaller(S, n)
    BY <1>1, <1>3 DEF Smaller
  <1> QED
    BY <1>4, <1>5, <1>6, <1>7

\* Every function can be summed over the subsets of a finite set.
LEMMA SumExists ==
  ASSUME NEW f, NEW S, IsFiniteSet(S)
  PROVE  \E g : IsSum(g, f, SUBSET S)
  <1> DEFINE T == {n \in Nat : \E g : IsSum(g, f, Smaller(S, n))}
  <1>1. 0 \in T
    <2> DEFINE g == [s \in {{}} |-> 0]
    <2>1. g = [s \in {{}} |-> IF s = {} THEN 0 ELSE f[SomeOf(s)] + g[s \ {SomeOf(s)}]]
      OBVIOUS
    <2>2. IsSum(g, f, Smaller(S, 0))
      BY <2>1, SmallerSets DEF IsSum
    <2> QED
      BY <2>2
  <1>2. ASSUME NEW n \in T
        PROVE  n + 1 \in T
    <2>1. n \in Nat
      OBVIOUS
    <2>2. PICK g : IsSum(g, f, Smaller(S, n))
      OBVIOUS
    <2>3. \A s \in Smaller(S, n) :
            g[s] = IF s = {} THEN 0 ELSE f[SomeOf(s)] + g[s \ {SomeOf(s)}]
      BY <2>2 DEF IsSum
    <2> DEFINE Wider(s) == IF s = {} THEN 0 ELSE f[SomeOf(s)] + g[s \ {SomeOf(s)}]
               h == [s \in Smaller(S, n + 1) |-> Wider(s)]
    <2>4. \A s \in Smaller(S, n) : s \in Smaller(S, n + 1) /\ Wider(s) = g[s]
      BY <2>1, <2>3, SmallerSets
    <2>5. \A s \in Smaller(S, n) : h[s] = g[s]
      BY <2>4
    <2>6. ASSUME NEW s \in Smaller(S, n + 1)
          PROVE  Wider(s) = IF s = {} THEN 0 ELSE f[SomeOf(s)] + h[s \ {SomeOf(s)}]
      <3>1. CASE s = {}
        BY <3>1
      <3>2. CASE s # {}
        <4>1. SomeOf(s) \in s
          BY <3>2 DEF SomeOf
        <4>2. s \ {SomeOf(s)} \in Smaller(S, n)
          BY <2>1, <4>1, SmallerSets
        <4>3. h[s \ {SomeOf(s)}] = g[s \ {SomeOf(s)}]
          BY <2>5, <4>2
        <4> QED
          BY <3>2, <4>3
      <3> QED
        BY <3>1, <3>2
    <2> HIDE DEF Wider
    <2>7. h = [s \in Smaller(S, n + 1) |->
                 IF s = {} THEN 0 ELSE f[SomeOf(s)] + h[s \ {SomeOf(s)}]]
      BY <2>6
    <2> HIDE DEF h
    <2>8. IsSum(h, f, Smaller(S, n + 1))
      BY <2>7, Zenon DEF IsSum
    <2> QED
      BY <2>1, <2>8
  <1>3. T \in SUBSET Nat
    OBVIOUS
  <1> HIDE DEF T
  <1>4. T = Nat
    BY <1>1, <1>2, <1>3, SetInduction
  <1>5. Cardinality(S) \in T
    BY <1>4, FS_CardinalityType
  <1>6. \E g : IsSum(g, f, Smaller(S, Cardinality(S)))
    BY <1>5 DEF T
  <1>7. Smaller(S, Cardinality(S)) = SUBSET S
    BY SmallerSets
  <1> QED
    BY <1>6, <1>7

\* The community module's sum, spelled out.
LEMMA SumIs ==
  ASSUME NEW f, NEW S
  PROVE  SumFunctionOnSet(f, S) = (CHOOSE g : IsSum(g, f, SUBSET S))[S]
  BY DEF SumFunctionOnSet, FoldFunctionOnSet, MapThenFoldSet, IsSum, SomeOf

\* Sums over the subsets of two sets are the same where both are defined.
LEMMA SumsAgree ==
  ASSUME NEW f, NEW g, NEW h, NEW S, NEW T, IsFiniteSet(S), T \subseteq S,
         IsSum(g, f, SUBSET S), IsSum(h, f, SUBSET T)
  PROVE  g[T] = h[T]
  <1>1. IsFiniteSet(T)
    BY FS_Subset
  <1> DEFINE A == {n \in Nat : \A s \in Smaller(T, n) : g[s] = h[s]}
  <1>2. \A s \in SUBSET T :
          /\ g[s] = IF s = {} THEN 0 ELSE f[SomeOf(s)] + g[s \ {SomeOf(s)}]
          /\ h[s] = IF s = {} THEN 0 ELSE f[SomeOf(s)] + h[s \ {SomeOf(s)}]
    <2>1. \A s \in SUBSET T : s \in SUBSET S
      OBVIOUS
    <2> QED
      BY <2>1 DEF IsSum
  <1>3. 0 \in A
    <2>1. \A s \in Smaller(T, 0) : s = {}
      BY <1>1, SmallerSets
    <2> QED
      BY <1>2, <2>1
  <1>4. ASSUME NEW n \in A
        PROVE  n + 1 \in A
    <2>1. n \in Nat /\ \A s \in Smaller(T, n) : g[s] = h[s]
      OBVIOUS
    <2>2. ASSUME NEW s \in Smaller(T, n + 1)
          PROVE  g[s] = h[s]
      <3>1. s \in SUBSET T
        BY DEF Smaller
      <3>2. CASE s = {}
        BY <1>2, <3>1, <3>2
      <3>3. CASE s # {}
        <4>1. SomeOf(s) \in s
          BY <3>3 DEF SomeOf
        <4>2. s \ {SomeOf(s)} \in Smaller(T, n)
          BY <1>1, <2>1, <4>1, SmallerSets
        <4>3. g[s \ {SomeOf(s)}] = h[s \ {SomeOf(s)}]
          BY <2>1, <4>2
        <4>4. g[s] = f[SomeOf(s)] + g[s \ {SomeOf(s)}]
          BY <1>2, <3>1, <3>3
        <4>5. h[s] = f[SomeOf(s)] + h[s \ {SomeOf(s)}]
          BY <1>2, <3>1, <3>3
        <4> QED
          BY <4>3, <4>4, <4>5
      <3> QED
        BY <3>2, <3>3
    <2> QED
      BY <2>1, <2>2
  <1>5. A \in SUBSET Nat
    OBVIOUS
  <1> HIDE DEF A
  <1>6. A = Nat
    BY <1>3, <1>4, <1>5, SetInduction
  <1>7. Cardinality(T) \in A
    BY <1>1, <1>6, FS_CardinalityType
  <1>8. T \in Smaller(T, Cardinality(T))
    BY <1>1, SmallerSets
  <1> QED
    BY <1>7, <1>8 DEF A

\* The sum over a set is that of any function that sums over its subsets.
LEMMA SumIsAny ==
  ASSUME NEW f, NEW S, IsFiniteSet(S)
  PROVE  \E g : /\ IsSum(g, f, SUBSET S)
                /\ \A T \in SUBSET S : SumFunctionOnSet(f, T) = g[T]
  <1>1. PICK g : IsSum(g, f, SUBSET S)
    BY SumExists
  <1>2. ASSUME NEW T \in SUBSET S
        PROVE  SumFunctionOnSet(f, T) = g[T]
    <2>1. IsFiniteSet(T)
      BY FS_Subset
    <2>2. \E h : IsSum(h, f, SUBSET T)
      BY <2>1, SumExists
    <2> DEFINE h == CHOOSE x : IsSum(x, f, SUBSET T)
    <2>3. IsSum(h, f, SUBSET T)
      BY <2>2, Zenon
    <2>4. SumFunctionOnSet(f, T) = h[T]
      BY SumIs
    <2> HIDE DEF h
    <2> QED
      BY <1>1, <2>3, <2>4, SumsAgree
  <1> QED
    BY <1>1, <1>2

\* The sum of no terms is 0.
LEMMA SumEmpty ==
  ASSUME NEW f
  PROVE  SumFunctionOnSet(f, {}) = 0
  <1>1. IsFiniteSet({})
    BY FS_EmptySet
  <1>2. PICK g : IsSum(g, f, SUBSET {}) /\ \A T \in SUBSET {} : SumFunctionOnSet(f, T) = g[T]
    BY <1>1, SumIsAny
  <1>3. {} \in SUBSET {}
    OBVIOUS
  <1> QED
    BY <1>2, <1>3 DEF IsSum

\* One term, the chosen one, and the sum of the others.
LEMMA SumStep ==
  ASSUME NEW f, NEW S, IsFiniteSet(S), S # {}
  PROVE  /\ SomeOf(S) \in S
         /\ SumFunctionOnSet(f, S) = f[SomeOf(S)] + SumFunctionOnSet(f, S \ {SomeOf(S)})
  <1>1. PICK g : IsSum(g, f, SUBSET S) /\ \A T \in SUBSET S : SumFunctionOnSet(f, T) = g[T]
    BY SumIsAny
  <1>2. S \in SUBSET S /\ S \ {SomeOf(S)} \in SUBSET S
    OBVIOUS
  <1>3. g[S] = f[SomeOf(S)] + g[S \ {SomeOf(S)}]
    BY <1>1, <1>2 DEF IsSum
  <1> QED
    BY <1>1, <1>2, <1>3 DEF SomeOf

\* A sum of integers is an integer and one of natural numbers natural.
LEMMA SumType ==
  ASSUME NEW f, NEW S, IsFiniteSet(S),
         NEW N, N = Int \/ N = Nat, \A x \in S : f[x] \in N
  PROVE  SumFunctionOnSet(f, S) \in N
  <1> DEFINE A == {n \in Nat : \A s \in Smaller(S, n) : SumFunctionOnSet(f, s) \in N}
  <1>1. 0 \in A
    <2>1. \A s \in Smaller(S, 0) : s = {}
      BY SmallerSets
    <2>2. SumFunctionOnSet(f, {}) \in N
      BY SumEmpty
    <2> QED
      BY <2>1, <2>2
  <1>2. ASSUME NEW n \in A
        PROVE  n + 1 \in A
    <2>1. n \in Nat /\ \A s \in Smaller(S, n) : SumFunctionOnSet(f, s) \in N
      OBVIOUS
    <2>2. ASSUME NEW s \in Smaller(S, n + 1)
          PROVE  SumFunctionOnSet(f, s) \in N
      <3>1. s \in SUBSET S /\ IsFiniteSet(s)
        BY FS_Subset DEF Smaller
      <3>2. CASE s = {}
        BY <3>2, SumEmpty
      <3>3. CASE s # {}
        <4>1. SomeOf(s) \in s
              /\ SumFunctionOnSet(f, s)
                   = f[SomeOf(s)] + SumFunctionOnSet(f, s \ {SomeOf(s)})
          BY <3>1, <3>3, SumStep
        <4>2. SumFunctionOnSet(f, s \ {SomeOf(s)}) \in N
          BY <2>1, <4>1, SmallerSets
        <4>3. f[SomeOf(s)] \in N
          BY <3>1, <4>1
        <4> QED
          BY <4>1, <4>2, <4>3
      <3> QED
        BY <3>2, <3>3
    <2> QED
      BY <2>1, <2>2
  <1>3. A \in SUBSET Nat
    OBVIOUS
  <1> HIDE DEF A
  <1>4. A = Nat
    BY <1>1, <1>2, <1>3, SetInduction
  <1>5. Cardinality(S) \in A
    BY <1>4, FS_CardinalityType
  <1>6. S \in Smaller(S, Cardinality(S))
    BY SmallerSets
  <1> QED
    BY <1>5, <1>6 DEF A

\* Any element may be taken out first.
LEMMA SumRemove ==
  ASSUME NEW f, NEW S, IsFiniteSet(S), \A y \in S : f[y] \in Int, NEW x \in S
  PROVE  SumFunctionOnSet(f, S) = f[x] + SumFunctionOnSet(f, S \ {x})
  <1> DEFINE Sum(s) == SumFunctionOnSet(f, s)
             A == {n \in Nat : \A s \in Smaller(S, n) : \A y \in s :
                                 Sum(s) = f[y] + Sum(s \ {y})}
  <1>0. \A s \in SUBSET S : IsFiniteSet(s) /\ Sum(s) \in Int
    <2>1. ASSUME NEW s \in SUBSET S
          PROVE  IsFiniteSet(s) /\ Sum(s) \in Int
      <3>1. IsFiniteSet(s) /\ \A y \in s : f[y] \in Int
        BY FS_Subset
      <3> QED
        BY <3>1, SumType
    <2> QED
      BY <2>1
  <1>1. 0 \in A
    BY SmallerSets
  <1>2. ASSUME NEW n \in A
        PROVE  n + 1 \in A
    <2>1. n \in Nat
          /\ \A s \in Smaller(S, n) : \A y \in s : Sum(s) = f[y] + Sum(s \ {y})
      OBVIOUS
    <2>2. ASSUME NEW s \in Smaller(S, n + 1), NEW y \in s
          PROVE  Sum(s) = f[y] + Sum(s \ {y})
      <3>1. s \in SUBSET S /\ IsFiniteSet(s)
        BY FS_Subset DEF Smaller
      <3>2. PICK c : c = SomeOf(s)
        OBVIOUS
      <3>3. c \in s /\ Sum(s) = f[c] + Sum(s \ {c})
        BY <3>1, <3>2, SumStep
      <3>4. CASE y = c
        BY <3>3, <3>4
      <3>5. CASE y # c
        <4>1. s \ {c} \in Smaller(S, n) /\ s \ {y} \in Smaller(S, n)
          BY <2>1, <3>3, SmallerSets
        <4>2. y \in s \ {c} /\ c \in s \ {y}
          BY <3>3, <3>5
        <4>3. Sum(s \ {c}) = f[y] + Sum((s \ {c}) \ {y})
          BY <2>1, <4>1, <4>2
        <4>4. Sum(s \ {y}) = f[c] + Sum((s \ {y}) \ {c})
          BY <2>1, <4>1, <4>2
        <4>5. (s \ {c}) \ {y} = (s \ {y}) \ {c}
          OBVIOUS
        <4>6. PICK r : r = Sum((s \ {c}) \ {y})
          OBVIOUS
        <4>7. r \in Int /\ f[y] \in Int /\ f[c] \in Int
          BY <1>0, <3>1, <3>3, <4>6
        <4>8. Sum(s) = f[c] + (f[y] + r)
          BY <3>3, <4>3, <4>6
        <4>9. Sum(s \ {y}) = f[c] + r
          BY <4>4, <4>5, <4>6
        <4> HIDE DEF Sum
        <4> QED
          BY <4>7, <4>8, <4>9
      <3> QED
        BY <3>4, <3>5
    <2> QED
      BY <2>1, <2>2
  <1>3. A \in SUBSET Nat
    OBVIOUS
  <1> HIDE DEF A
  <1>4. A = Nat
    BY <1>1, <1>2, <1>3, SetInduction
  <1>5. Cardinality(S) \in A
    BY <1>4, FS_CardinalityType
  <1>6. S \in Smaller(S, Cardinality(S))
    BY SmallerSets
  <1> QED
    BY <1>5, <1>6 DEF A

\* A sum grows by the term of a new element.
LEMMA SumAdd ==
  ASSUME NEW f, NEW S, IsFiniteSet(S), \A y \in S : f[y] \in Int,
         NEW x, x \notin S, f[x] \in Int
  PROVE  SumFunctionOnSet(f, S \cup {x}) = SumFunctionOnSet(f, S) + f[x]
  <1>1. IsFiniteSet(S \cup {x})
    BY FS_AddElement
  <1>2. SumFunctionOnSet(f, S \cup {x})
          = f[x] + SumFunctionOnSet(f, (S \cup {x}) \ {x})
    <2>1. x \in S \cup {x} /\ \A y \in S \cup {x} : f[y] \in Int
      OBVIOUS
    <2> QED
      BY <1>1, <2>1, SumRemove
  <1>3. (S \cup {x}) \ {x} = S
    OBVIOUS
  <1>4. SumFunctionOnSet(f, S) \in Int
    BY SumType
  <1>5. SumFunctionOnSet(f, S \cup {x}) = f[x] + SumFunctionOnSet(f, S)
    BY <1>2, <1>3
  <1>6. PICK r : r = SumFunctionOnSet(f, S)
    OBVIOUS
  <1> QED
    BY <1>4, <1>5, <1>6

\* Functions equal on a set have one sum over it.
LEMMA SumSame ==
  ASSUME NEW f, NEW g, NEW S, IsFiniteSet(S), \A x \in S : f[x] = g[x]
  PROVE  SumFunctionOnSet(f, S) = SumFunctionOnSet(g, S)
  <1>1. PICK a : /\ IsSum(a, f, SUBSET S)
                 /\ \A T \in SUBSET S : SumFunctionOnSet(f, T) = a[T]
    BY SumIsAny
  <1>2. PICK b : /\ IsSum(b, g, SUBSET S)
                 /\ \A T \in SUBSET S : SumFunctionOnSet(g, T) = b[T]
    BY SumIsAny
  <1>3. \A s \in SUBSET S : s # {} => f[SomeOf(s)] = g[SomeOf(s)]
    BY DEF SomeOf
  <1>4. IsSum(a, g, SUBSET S)
    <2>1. \A s \in SUBSET S :
            (IF s = {} THEN 0 ELSE f[SomeOf(s)] + a[s \ {SomeOf(s)}])
              = (IF s = {} THEN 0 ELSE g[SomeOf(s)] + a[s \ {SomeOf(s)}])
      BY <1>3
    <2>2. [s \in SUBSET S |-> IF s = {} THEN 0 ELSE f[SomeOf(s)] + a[s \ {SomeOf(s)}]]
            = [s \in SUBSET S |-> IF s = {} THEN 0 ELSE g[SomeOf(s)] + a[s \ {SomeOf(s)}]]
      BY <2>1
    <2> QED
      BY <1>1, <2>2, Zenon DEF IsSum
  <1>5. a[S] = b[S]
    BY <1>2, <1>4, SumsAgree
  <1> QED
    BY <1>1, <1>2, <1>5

\* One term changes and the rest do not.
LEMMA SumChange ==
  ASSUME NEW f, NEW g, NEW S, IsFiniteSet(S), NEW x \in S,
         \A y \in S : f[y] \in Int /\ g[y] \in Int,
         \A y \in S \ {x} : f[y] = g[y]
  PROVE  SumFunctionOnSet(g, S) = SumFunctionOnSet(f, S) - f[x] + g[x]
  <1>1. SumFunctionOnSet(f, S) = f[x] + SumFunctionOnSet(f, S \ {x})
    BY SumRemove
  <1>2. SumFunctionOnSet(g, S) = g[x] + SumFunctionOnSet(g, S \ {x})
    BY SumRemove
  <1>3. IsFiniteSet(S \ {x}) /\ \A y \in S \ {x} : f[y] \in Int
    BY FS_Subset
  <1>4. SumFunctionOnSet(f, S \ {x}) = SumFunctionOnSet(g, S \ {x})
    BY <1>3, SumSame
  <1>5. SumFunctionOnSet(f, S \ {x}) \in Int
    BY <1>3, SumType
  <1> QED
    BY <1>1, <1>2, <1>4, <1>5

\* Elements whose term is 0 may be left out.
LEMMA SumFiltered ==
  ASSUME NEW f, NEW g, NEW S, IsFiniteSet(S), NEW T \in SUBSET S,
         \A x \in S : f[x] \in Int,
         \A x \in T : g[x] = f[x],
         \A x \in S \ T : f[x] = 0
  PROVE  SumFunctionOnSet(f, S) = SumFunctionOnSet(g, T)
  <1> DEFINE Sum(s) == SumFunctionOnSet(f, s)
             R == S \ T
             A == {n \in Nat : \A s \in Smaller(R, n) : Sum(T \cup s) = Sum(T)}
  <1>1. IsFiniteSet(T) /\ IsFiniteSet(R)
    BY FS_Subset
  <1>2. 0 \in A
    <2>1. \A s \in Smaller(R, 0) : s = {}
      BY <1>1, SmallerSets
    <2>2. T \cup {} = T
      OBVIOUS
    <2> QED
      BY <2>1, <2>2
  <1>3. ASSUME NEW n \in A
        PROVE  n + 1 \in A
    <2>1. n \in Nat /\ \A s \in Smaller(R, n) : Sum(T \cup s) = Sum(T)
      OBVIOUS
    <2>2. ASSUME NEW s \in Smaller(R, n + 1)
          PROVE  Sum(T \cup s) = Sum(T)
      <3>1. s \in SUBSET R /\ IsFiniteSet(T \cup s) /\ IsFiniteSet(s)
        <4>1. s \in SUBSET R
          BY DEF Smaller
        <4>2. T \cup s \in SUBSET S
          BY <4>1
        <4> QED
          BY <4>1, <4>2, <1>1, FS_Subset
      <3>2. CASE s = {}
        BY <3>2
      <3>3. CASE s # {}
        <4>1. PICK x \in s : TRUE
          BY <3>3
        <4>2. s \ {x} \in Smaller(R, n)
          BY <1>1, <2>1, <4>1, SmallerSets
        <4>3. x \in T \cup s /\ \A y \in T \cup s : f[y] \in Int
          BY <3>1, <4>1
        <4>4. Sum(T \cup s) = f[x] + Sum((T \cup s) \ {x})
          BY <3>1, <4>3, SumRemove
        <4>5. (T \cup s) \ {x} = T \cup (s \ {x}) /\ f[x] = 0
          BY <3>1, <4>1
        <4>6. Sum(T \cup (s \ {x})) = Sum(T)
          BY <2>1, <4>2
        <4>7. Sum(T) \in Int
          BY <1>1, SumType
        <4>8. Sum((T \cup s) \ {x}) = Sum(T)
          BY <4>5, <4>6
        <4>9. Sum(T \cup s) = 0 + Sum(T)
          BY <4>4, <4>5, <4>8
        <4> HIDE DEF Sum
        <4> QED
          BY <4>7, <4>9
      <3> QED
        BY <3>2, <3>3
    <2> QED
      BY <2>1, <2>2
  <1>4. A \in SUBSET Nat
    OBVIOUS
  <1> HIDE DEF A
  <1>5. A = Nat
    BY <1>2, <1>3, <1>4, SetInduction
  <1>6. Cardinality(R) \in A /\ R \in Smaller(R, Cardinality(R))
    BY <1>1, <1>5, FS_CardinalityType, SmallerSets
  <1>7. T \cup R = S
    OBVIOUS
  <1>8. Sum(S) = Sum(T)
    BY <1>6, <1>7 DEF A
  <1>9. Sum(T) = SumFunctionOnSet(g, T)
    BY <1>1, SumSame
  <1> QED
    BY <1>8, <1>9

\* A sum of equal terms is a product.
LEMMA SumConstant ==
  ASSUME NEW f, NEW S, IsFiniteSet(S), NEW c \in Nat, \A x \in S : f[x] = c
  PROVE  SumFunctionOnSet(f, S) = c * Cardinality(S)
  <1> DEFINE Sum(s) == SumFunctionOnSet(f, s)
             A == {n \in Nat : \A s \in SUBSET S : Cardinality(s) = n => Sum(s) = c * n}
  <1>1. \A s \in SUBSET S : IsFiniteSet(s) /\ Cardinality(s) \in Nat
    BY FS_Subset, FS_CardinalityType
  <1>2. 0 \in A
    <2>1. \A s \in SUBSET S : Cardinality(s) = 0 => s = {}
      BY <1>1, FS_EmptySet
    <2>2. Sum({}) = 0 /\ c * 0 = 0
      BY SumEmpty
    <2> QED
      BY <2>1, <2>2
  <1>3. ASSUME NEW n \in A
        PROVE  n + 1 \in A
    <2>1. n \in Nat /\ \A s \in SUBSET S : Cardinality(s) = n => Sum(s) = c * n
      OBVIOUS
    <2>2. ASSUME NEW s \in SUBSET S, Cardinality(s) = n + 1
          PROVE  Sum(s) = c * (n + 1)
      <3>1. s # {}
        <4>1. Cardinality({}) = 0
          BY FS_EmptySet
        <4> QED
          BY <2>1, <2>2, <4>1
      <3>2. PICK x \in s : TRUE
        BY <3>1
      <3>3. Cardinality(s \ {x}) = n
        BY <1>1, <2>1, <2>2, <3>2, FS_RemoveElement
      <3>4. Sum(s) = f[x] + Sum(s \ {x})
        <4>1. \A y \in s : f[y] \in Int
          OBVIOUS
        <4> QED
          BY <1>1, <3>2, <4>1, SumRemove
      <3>5. Sum(s \ {x}) = c * n
        BY <2>1, <3>3
      <3>6. Sum(s) = c + c * n
        BY <3>2, <3>4, <3>5
      <3>7. c * (n + 1) = c + c * n
        BY <2>1
      <3> QED
        BY <3>6, <3>7
    <2> HIDE DEF Sum
    <2> QED
      BY <2>1, <2>2
  <1>4. A \in SUBSET Nat
    OBVIOUS
  <1> HIDE DEF A
  <1>5. A = Nat
    BY <1>2, <1>3, <1>4, SetInduction
  <1>6. Cardinality(S) \in A
    BY <1>5, FS_CardinalityType
  <1> QED
    BY <1>6 DEF A

\* From f to g, the element a gains q and b loses it.
Transfers(f, g, S, a, b, q) ==
  \A x \in S : g[x] = f[x] + (IF x = a THEN q ELSE 0) - (IF x = b THEN q ELSE 0)

\* What one element loses and another gains does not change the sum.
LEMMA SumTransfer ==
  ASSUME NEW f, NEW g, NEW S, IsFiniteSet(S), NEW a \in S, NEW b \in S,
         NEW q \in Int, \A x \in S : f[x] \in Int, Transfers(f, g, S, a, b, q)
  PROVE  SumFunctionOnSet(g, S) = SumFunctionOnSet(f, S)
  <1> DEFINE h == [x \in S |-> IF x = a THEN f[x] + q ELSE f[x]]
  <1>1. \A x \in S : h[x] \in Int /\ g[x] \in Int
    BY DEF Transfers
  <1>2. /\ \A x \in S \ {a} : f[x] = h[x]
        /\ h[a] = f[a] + q
        /\ \A x \in S \ {b} : h[x] = g[x]
        /\ g[b] = h[b] - q
    BY DEF Transfers
  <1> HIDE DEF h
  <1>3. SumFunctionOnSet(h, S) = SumFunctionOnSet(f, S) - f[a] + h[a]
    BY <1>1, <1>2, SumChange
  <1>4. SumFunctionOnSet(g, S) = SumFunctionOnSet(h, S) - h[b] + g[b]
    BY <1>1, <1>2, SumChange
  <1>5. SumFunctionOnSet(f, S) \in Int
    BY SumType
  <1> QED
    BY <1>1, <1>2, <1>3, <1>4, <1>5

=============================================================================
