----------------------------- MODULE SumTheorems ----------------------------
(***************************************************************************)
(* Sums of integer functions over finite sets, and the induction they      *)
(* need.  An induction theorem that takes a predicate as an operator       *)
(* cannot be instantiated by the provers; one that takes the set of the    *)
(* elements for which the predicate holds can.                             *)
(***************************************************************************)
EXTENDS Functions, Integers, FiniteSets, FiniteSetTheorems, WellFoundedInduction, TLAPS

\* A set of naturals that holds 0 and the successor of each of its elements holds them all.
LEMMA NatSetInduction ==
  ASSUME NEW Good \in SUBSET Nat, 0 \in Good, \A n \in Good : n + 1 \in Good
  PROVE  Good = Nat
<1> DEFINE Bad == Nat \ Good
<1>1. SUFFICES ASSUME Bad # {} PROVE FALSE
  OBVIOUS
<1>2. PICK n \in Bad : \A m \in Bad : ~ (<<m, n>> \in OpToRel(<, Nat))
  BY <1>1, NatLessThanWellFounded, WFMin
<1>3. n # 0 /\ n \in Nat
  OBVIOUS
<1>4. n - 1 \in Nat /\ n - 1 < n
  BY <1>3
<1>5. n - 1 \notin Bad
  BY <1>2, <1>3, <1>4 DEF OpToRel
<1>6. n - 1 \in Good
  BY <1>4, <1>5
<1>7. n \in Good
  BY <1>3, <1>4, <1>6
<1>8. QED
  BY <1>7

\* The subsets of a finite set are all reached by adding one element after the other.
LEMMA SubsetInduction ==
  ASSUME NEW T, IsFiniteSet(T), NEW Good \in SUBSET (SUBSET T), {} \in Good,
         \A s \in Good : \A x \in T \ s : s \cup {x} \in Good
  PROVE  Good = SUBSET T
<1> DEFINE Level == {n \in Nat : \A s \in SUBSET T : Cardinality(s) = n => s \in Good}
<1>1. 0 \in Level
  <2>1. ASSUME NEW s \in SUBSET T, Cardinality(s) = 0
        PROVE  s = {}
    BY <2>1, FS_Subset, FS_EmptySet
  <2>2. QED
    BY <2>1
<1>2. ASSUME NEW n \in Level
      PROVE  n + 1 \in Level
  <2>1. SUFFICES ASSUME NEW s \in SUBSET T, Cardinality(s) = n + 1
                 PROVE  s \in Good
    BY DEF Level
  <2>2. IsFiniteSet(s)
    BY FS_Subset
  <2>0. n \in Nat
    OBVIOUS
  <2>3. PICK x : x \in s
    <3>1. s # {}
      BY <2>0, <2>1, <2>2, FS_EmptySet
    <3>2. QED
      BY <3>1
  <2>4. Cardinality(s \ {x}) = n
    <3>1. Cardinality(s \ {x}) = Cardinality(s) - 1
      BY <2>2, <2>3, FS_RemoveElement
    <3>2. QED
      BY <2>0, <2>1, <3>1
  <2>5. s \ {x} \in Good
    BY <2>4
  <2>6. s = (s \ {x}) \cup {x}
    BY <2>3
  <2>7. QED
    BY <2>3, <2>5, <2>6
<1>3. Level = Nat
  <2> HIDE DEF Level
  <2>1. Level \in SUBSET Nat
    BY DEF Level
  <2>2. QED
    BY <1>1, <1>2, <2>1, NatSetInduction
<1>4. ASSUME NEW s \in SUBSET T
      PROVE  s \in Good
  <2>1. IsFiniteSet(s)
    BY FS_Subset
  <2>2. Cardinality(s) \in Nat
    BY <2>1, FS_CardinalityType
  <2>3. Cardinality(s) \in Level
    BY <1>3, <2>2
  <2>4. QED
    BY <2>3
<1>5. QED
  BY <1>4

-----------------------------------------------------------------------------
(* The recursion behind SumFunctionOnSet *)

\* The element that the folds of the community modules take first.
Chosen(s) == CHOOSE x \in s : TRUE

\* The table of the sums of f over the members of a family that is closed under Chosen.
IsSumTable(f, family, g) ==
  g = [s \in family |-> IF s = {} THEN 0 ELSE f[Chosen(s)] + g[s \ {Chosen(s)}]]

\* It is an element.
LEMMA ChosenIn == ASSUME NEW s, s # {} PROVE Chosen(s) \in s
  BY DEF Chosen

\* A sum is the last entry of the table of the sums of the parts.
LEMMA SumIsTable ==
  ASSUME NEW f, NEW S
  PROVE  SumFunctionOnSet(f, S) = (CHOOSE g : IsSumTable(f, SUBSET S, g))[S]
  BY DEF SumFunctionOnSet, FoldFunctionOnSet, MapThenFoldSet, IsSumTable, Chosen

\* The table exists: the sums over the sets of at most n + 1 elements extend those over the
\* sets of at most n.
LEMMA SumTableExists ==
  ASSUME NEW S, IsFiniteSet(S), NEW f, \A x \in S : f[x] \in Int
  PROVE  \E g \in [SUBSET S -> Int] : IsSumTable(f, SUBSET S, g)
<1> DEFINE Level(n) == {s \in SUBSET S : Cardinality(s) <= n}
           Good == {n \in Nat : \E g \in [Level(n) -> Int] : IsSumTable(f, Level(n), g)}
<1>0. \A s \in SUBSET S : IsFiniteSet(s) /\ Cardinality(s) \in Nat
  BY FS_Subset, FS_CardinalityType
<1>1. \A s \in SUBSET S : s # {} => /\ Chosen(s) \in S
                                   /\ s \ {Chosen(s)} \in SUBSET S
                                   /\ Cardinality(s \ {Chosen(s)}) = Cardinality(s) - 1
  BY <1>0, ChosenIn, FS_RemoveElement
<1>2. 0 \in Good
  <2> DEFINE g == [s \in Level(0) |-> 0]
  <2>1. \A s \in Level(0) : s = {}
    BY <1>0, FS_EmptySet
  <2>2. IsSumTable(f, Level(0), g)
    BY <2>1 DEF IsSumTable
  <2>3. g \in [Level(0) -> Int]
    OBVIOUS
  <2>4. QED
    BY <2>2, <2>3
<1>3. ASSUME NEW n \in Good
      PROVE  n + 1 \in Good
  <2>0. n \in Nat
    OBVIOUS
  <2>1. PICK g \in [Level(n) -> Int] : IsSumTable(f, Level(n), g)
    OBVIOUS
  <2> DEFINE h == [s \in Level(n + 1) |->
                     IF s \in Level(n) THEN g[s] ELSE f[Chosen(s)] + g[s \ {Chosen(s)}]]
  <2>2. \A s \in Level(n + 1) : s # {} => s \ {Chosen(s)} \in Level(n)
    BY <1>0, <1>1, <2>0
  <2>3. {} \in Level(n)
    BY <2>0, FS_EmptySet
  <2>4. Level(n) \subseteq Level(n + 1)
    <3>1. \A m \in Nat : m <= n => m <= n + 1
      BY <2>0
    <3>2. QED
      BY <1>0, <3>1
  <2>5. \A s \in Level(n) : g[s] = IF s = {} THEN 0 ELSE f[Chosen(s)] + g[s \ {Chosen(s)}]
    BY <2>1 DEF IsSumTable
  <2>6. h \in [Level(n + 1) -> Int]
    <3>1. ASSUME NEW s \in Level(n + 1)
          PROVE  h[s] \in Int
      <4>1. CASE s \in Level(n)
        BY <4>1, <2>1
      <4>2. CASE s \notin Level(n)
        <5>1. s # {}
          BY <4>2, <2>3
        <5>2. f[Chosen(s)] \in Int /\ g[s \ {Chosen(s)}] \in Int
          BY <5>1, <1>1, <2>1, <2>2
        <5>3. QED
          BY <5>2, <4>2
      <4>3. QED
        BY <4>1, <4>2
    <3>2. QED
      BY <3>1
  <2>7. ASSUME NEW s \in Level(n + 1)
        PROVE  h[s] = IF s = {} THEN 0 ELSE f[Chosen(s)] + h[s \ {Chosen(s)}]
    <3>1. CASE s = {}
      BY <3>1, <2>3, <2>5
    <3>2. CASE s # {}
      <4>1. s \ {Chosen(s)} \in Level(n) /\ s \ {Chosen(s)} \in Level(n + 1)
        BY <3>2, <2>2, <2>4
      <4>2. h[s \ {Chosen(s)}] = g[s \ {Chosen(s)}]
        BY <4>1
      <4>3. h[s] = f[Chosen(s)] + g[s \ {Chosen(s)}]
        BY <3>2, <2>5
      <4>4. QED
        BY <3>2, <4>2, <4>3
    <3>3. QED
      BY <3>1, <3>2
  <2>8. IsSumTable(f, Level(n + 1), h)
    BY <2>7 DEF IsSumTable
  <2>9. \E k \in [Level(n + 1) -> Int] : IsSumTable(f, Level(n + 1), k)
    <3> HIDE DEF h, Level
    <3>1. QED
      BY <2>6, <2>8
  <2>10. QED
    <3> HIDE DEF h, Level
    <3>1. QED
      BY <2>0, <2>9
<1>4. Good = Nat
  <2>1. Good \in SUBSET Nat
    OBVIOUS
  <2> HIDE DEF Good
  <2>2. QED
    BY <1>2, <1>3, <2>1, NatSetInduction
<1>5. Cardinality(S) \in Good
  BY <1>0, <1>4
<1>6. Level(Cardinality(S)) = SUBSET S
  BY <1>0, FS_Subset
<1>7. QED
  BY <1>5, <1>6

\* Two tables agree wherever both are defined.
LEMMA SumTablesAgree ==
  ASSUME NEW S, IsFiniteSet(S), NEW R \in SUBSET S, NEW f, NEW g, NEW h,
         IsSumTable(f, SUBSET S, g), IsSumTable(f, SUBSET R, h)
  PROVE  g[R] = h[R]
<1> DEFINE Good == {n \in Nat : \A s \in SUBSET R : Cardinality(s) = n => g[s] = h[s]}
<1>0. \A s \in SUBSET R : IsFiniteSet(s) /\ Cardinality(s) \in Nat
  BY FS_Subset, FS_CardinalityType
<1>1. /\ \A s \in SUBSET R : g[s] = IF s = {} THEN 0 ELSE f[Chosen(s)] + g[s \ {Chosen(s)}]
      /\ \A s \in SUBSET R : h[s] = IF s = {} THEN 0 ELSE f[Chosen(s)] + h[s \ {Chosen(s)}]
  BY DEF IsSumTable
<1>2. 0 \in Good
  <2>1. \A s \in SUBSET R : Cardinality(s) = 0 => s = {}
    BY <1>0, FS_EmptySet
  <2>2. QED
    BY <1>1, <2>1
<1>3. ASSUME NEW n \in Good
      PROVE  n + 1 \in Good
  <2>0. n \in Nat
    OBVIOUS
  <2>1. SUFFICES ASSUME NEW s \in SUBSET R, Cardinality(s) = n + 1
                 PROVE  g[s] = h[s]
    OBVIOUS
  <2>2. s # {}
    <3>1. n + 1 # 0
      BY <2>0
    <3>2. QED
      BY <2>1, <3>1, FS_EmptySet
  <2>3. Cardinality(s \ {Chosen(s)}) = n
    <3>1. Cardinality(s \ {Chosen(s)}) = Cardinality(s) - 1
      BY <1>0, <2>2, ChosenIn, FS_RemoveElement
    <3>2. QED
      BY <2>0, <2>1, <3>1
  <2>4. g[s \ {Chosen(s)}] = h[s \ {Chosen(s)}]
    BY <2>3
  <2>5. QED
    BY <1>1, <2>2, <2>4
<1>4. Good = Nat
  <2>1. Good \in SUBSET Nat
    OBVIOUS
  <2> HIDE DEF Good
  <2>2. QED
    BY <1>2, <1>3, <2>1, NatSetInduction
<1>5. Cardinality(R) \in Good
  BY <1>0, <1>4
<1>6. QED
  BY <1>5

\* A sum over part of S can be read from the table for S.
LEMMA SumFromTable ==
  ASSUME NEW S, IsFiniteSet(S), NEW f, \A x \in S : f[x] \in Int,
         NEW g, IsSumTable(f, SUBSET S, g), NEW R \in SUBSET S
  PROVE  SumFunctionOnSet(f, R) = g[R]
<1> DEFINE table == CHOOSE h : IsSumTable(f, SUBSET R, h)
<1>1. IsFiniteSet(R)
  BY FS_Subset
<1>2. \E h : IsSumTable(f, SUBSET R, h)
  BY <1>1, SumTableExists
<1>3. IsSumTable(f, SUBSET R, table)
  BY <1>2
<1>4. SumFunctionOnSet(f, R) = table[R]
  BY SumIsTable
<1>5. QED
  <2> HIDE DEF table
  <2>1. QED
    BY <1>3, <1>4, SumTablesAgree

-----------------------------------------------------------------------------
(* What a sum is, and how it changes *)

\* Nothing sums to nothing.
LEMMA SumEmpty ==
  ASSUME NEW f
  PROVE  SumFunctionOnSet(f, {}) = 0
<1>1. \E g \in [SUBSET {} -> Int] : IsSumTable(f, SUBSET {}, g)
  BY SumTableExists, FS_EmptySet
<1>2. PICK g \in [SUBSET {} -> Int] : IsSumTable(f, SUBSET {}, g)
  BY <1>1
<1>3. SumFunctionOnSet(f, {}) = g[{}]
  BY <1>2, SumFromTable, FS_EmptySet
<1>4. QED
  BY <1>2, <1>3 DEF IsSumTable

\* A finite sum of integers is an integer.
LEMMA SumType ==
  ASSUME NEW S, IsFiniteSet(S), NEW f, \A x \in S : f[x] \in Int
  PROVE  SumFunctionOnSet(f, S) \in Int
<1>1. PICK g \in [SUBSET S -> Int] : IsSumTable(f, SUBSET S, g)
  BY SumTableExists
<1>2. SumFunctionOnSet(f, S) = g[S]
  BY <1>1, SumFromTable
<1>3. QED
  BY <1>1, <1>2

\* A sum does not depend on the order in which its elements are taken.
LEMMA SumAdd ==
  ASSUME NEW S, IsFiniteSet(S), NEW f, NEW x, x \notin S, \A y \in S \cup {x} : f[y] \in Int
  PROVE  SumFunctionOnSet(f, S \cup {x}) = SumFunctionOnSet(f, S) + f[x]
<1> DEFINE T == S \cup {x}
<1>0. IsFiniteSet(T) /\ \A s \in SUBSET T : IsFiniteSet(s) /\ Cardinality(s) \in Nat
  <2>1. IsFiniteSet(T)
    BY FS_AddElement
  <2>2. QED
    BY <2>1, FS_Subset, FS_CardinalityType
<1>1. PICK g \in [SUBSET T -> Int] : IsSumTable(f, SUBSET T, g)
  BY <1>0, SumTableExists
<1> DEFINE Good == {n \in Nat : \A s \in SUBSET T : \A y \in T \ s :
                      Cardinality(s) = n => g[s \cup {y}] = g[s] + f[y]}
<1>2. \A s \in SUBSET T : g[s] = IF s = {} THEN 0 ELSE f[Chosen(s)] + g[s \ {Chosen(s)}]
  BY <1>1 DEF IsSumTable
<1>3. \A s \in SUBSET T : g[s] \in Int
  BY <1>1
<1>4. ASSUME NEW s \in SUBSET T, NEW y \in T \ s, Chosen(s \cup {y}) = y
      PROVE  g[s \cup {y}] = g[s] + f[y]
  <2>1. (s \cup {y}) \ {y} = s /\ s \cup {y} \in SUBSET T /\ s \cup {y} # {}
    OBVIOUS
  <2>2. g[s \cup {y}] = f[y] + g[s]
    BY <1>2, <1>4, <2>1
  <2>3. QED
    BY <1>3, <2>2
<1>5. 0 \in Good
  <2>1. SUFFICES ASSUME NEW s \in SUBSET T, NEW y \in T \ s, Cardinality(s) = 0
                 PROVE  g[s \cup {y}] = g[s] + f[y]
    OBVIOUS
  <2>2. s = {}
    BY <1>0, <2>1, FS_EmptySet
  <2>3. Chosen(s \cup {y}) = y
    BY <2>2, ChosenIn
  <2>4. QED
    BY <1>4, <2>3
<1>6. ASSUME NEW n \in Good
      PROVE  n + 1 \in Good
  <2>0. n \in Nat
    OBVIOUS
  <2>1. SUFFICES ASSUME NEW s \in SUBSET T, NEW y \in T \ s, Cardinality(s) = n + 1,
                        Chosen(s \cup {y}) # y
                 PROVE  g[s \cup {y}] = g[s] + f[y]
    BY <1>4, <2>0
  <2> DEFINE c == Chosen(s \cup {y})
             r == s \ {c}
  <2>2. c \in s
    BY <2>1, ChosenIn
  <2>3. Cardinality(r) = n
    <3>1. Cardinality(r) = Cardinality(s) - 1
      BY <1>0, <2>2, FS_RemoveElement
    <3>2. QED
      BY <2>0, <2>1, <3>1
  <2>4. r \in SUBSET T /\ y \in T \ r /\ c \in T \ r
    BY <2>2
  <2>5. g[r \cup {y}] = g[r] + f[y] /\ g[r \cup {c}] = g[r] + f[c]
    <3> HIDE DEF r, c
    <3>1. QED
      BY <2>3, <2>4
  <2>6. (s \cup {y}) \ {c} = r \cup {y} /\ r \cup {c} = s
    BY <2>1, <2>2
  <2>7. g[s \cup {y}] = f[c] + g[r \cup {y}]
    <3>1. s \cup {y} \in SUBSET T /\ s \cup {y} # {}
      OBVIOUS
    <3>2. g[s \cup {y}] = f[c] + g[(s \cup {y}) \ {c}]
      BY <1>2, <3>1
    <3>3. QED
      BY <2>6, <3>2
  <2>8. g[r] \in Int /\ f[c] \in Int /\ f[y] \in Int
    BY <1>3, <2>2, <2>4
  <2>9. QED
    <3> HIDE DEF r, c
    <3>1. g[s] = g[r] + f[c]
      BY <2>5, <2>6
    <3>2. g[s \cup {y}] = f[c] + (g[r] + f[y])
      BY <2>5, <2>7
    <3>3. QED
      BY <2>8, <3>1, <3>2
<1>7. Good = Nat
  <2>1. Good \in SUBSET Nat
    OBVIOUS
  <2> HIDE DEF Good
  <2>2. QED
    BY <1>5, <1>6, <2>1, NatSetInduction
<1>8. g[S \cup {x}] = g[S] + f[x]
  <2>1. Cardinality(S) \in Good /\ S \in SUBSET T /\ x \in T \ S
    BY <1>0, <1>7
  <2>2. QED
    BY <2>1
<1>9. \A s \in SUBSET T : SumFunctionOnSet(f, s) = g[s]
  BY <1>0, <1>1, SumFromTable
<1>10. QED
  BY <1>8, <1>9

\* Only the values on the set matter.
LEMMA SumAgree ==
  ASSUME NEW S, IsFiniteSet(S), NEW f, NEW h, \A y \in S : f[y] \in Int /\ h[y] = f[y]
  PROVE  SumFunctionOnSet(h, S) = SumFunctionOnSet(f, S)
<1> DEFINE Good == {s \in SUBSET S : SumFunctionOnSet(h, s) = SumFunctionOnSet(f, s)}
<1>1. {} \in Good
  BY SumEmpty
<1>2. ASSUME NEW s \in Good, NEW x \in S \ s
      PROVE  s \cup {x} \in Good
  <2>1. IsFiniteSet(s) /\ x \notin s /\ \A y \in s \cup {x} : f[y] \in Int /\ h[y] \in Int
    BY FS_Subset
  <2>2. /\ SumFunctionOnSet(f, s \cup {x}) = SumFunctionOnSet(f, s) + f[x]
        /\ SumFunctionOnSet(h, s \cup {x}) = SumFunctionOnSet(h, s) + h[x]
    <3> HIDE DEF Good
    <3>1. QED
      BY <2>1, SumAdd
  <2>3. QED
    BY <2>2
<1>3. Good = SUBSET S
  <2>1. Good \in SUBSET (SUBSET S)
    OBVIOUS
  <2> HIDE DEF Good
  <2>2. QED
    BY <1>1, <1>2, <2>1, SubsetInduction
<1>4. QED
  BY <1>3

\* A sum grows with its terms.
LEMMA SumMonotonic ==
  ASSUME NEW S, IsFiniteSet(S), NEW f, NEW h,
         \A y \in S : f[y] \in Int /\ h[y] \in Int /\ f[y] <= h[y]
  PROVE  SumFunctionOnSet(f, S) <= SumFunctionOnSet(h, S)
<1> DEFINE Good == {s \in SUBSET S : SumFunctionOnSet(f, s) <= SumFunctionOnSet(h, s)}
<1>1. {} \in Good
  BY SumEmpty
<1>2. ASSUME NEW s \in Good, NEW x \in S \ s
      PROVE  s \cup {x} \in Good
  <2>1. IsFiniteSet(s) /\ x \notin s /\ \A y \in s \cup {x} : f[y] \in Int /\ h[y] \in Int
    BY FS_Subset
  <2>2. /\ SumFunctionOnSet(f, s \cup {x}) = SumFunctionOnSet(f, s) + f[x]
        /\ SumFunctionOnSet(h, s \cup {x}) = SumFunctionOnSet(h, s) + h[x]
    <3> HIDE DEF Good
    <3>1. QED
      BY <2>1, SumAdd
  <2>3. SumFunctionOnSet(f, s) \in Int /\ SumFunctionOnSet(h, s) \in Int
    BY <2>1, SumType
  <2>4. f[x] \in Int /\ h[x] \in Int /\ f[x] <= h[x]
    OBVIOUS
  <2>5. SumFunctionOnSet(f, s \cup {x}) <= SumFunctionOnSet(h, s \cup {x})
    BY <2>2, <2>3, <2>4
  <2>6. QED
    BY <2>5
<1>3. Good = SUBSET S
  <2>1. Good \in SUBSET (SUBSET S)
    OBVIOUS
  <2> HIDE DEF Good
  <2>2. QED
    BY <1>1, <1>2, <2>1, SubsetInduction
<1>4. QED
  BY <1>3

\* Changing one term changes the sum by as much.
LEMMA SumUpdate ==
  ASSUME NEW S, IsFiniteSet(S), NEW x \in S, NEW f, NEW h,
         \A y \in S : f[y] \in Int /\ h[y] \in Int, \A y \in S \ {x} : h[y] = f[y]
  PROVE  SumFunctionOnSet(h, S) = SumFunctionOnSet(f, S) - f[x] + h[x]
<1> DEFINE r == S \ {x}
<1>1. IsFiniteSet(r)
  BY FS_Subset
<1>2. x \notin r /\ r \cup {x} = S /\ \A y \in r \cup {x} : f[y] \in Int /\ h[y] \in Int
  OBVIOUS
<1>3. SumFunctionOnSet(h, r) = SumFunctionOnSet(f, r)
  BY <1>1, SumAgree
<1>4. /\ SumFunctionOnSet(f, S) = SumFunctionOnSet(f, r) + f[x]
      /\ SumFunctionOnSet(h, S) = SumFunctionOnSet(h, r) + h[x]
  <2> HIDE DEF r
  <2>1. /\ SumFunctionOnSet(f, r \cup {x}) = SumFunctionOnSet(f, r) + f[x]
        /\ SumFunctionOnSet(h, r \cup {x}) = SumFunctionOnSet(h, r) + h[x]
    BY <1>1, <1>2, SumAdd
  <2>2. QED
    BY <1>2, <2>1
<1>5. SumFunctionOnSet(f, r) \in Int
  BY <1>1, SumType
<1>6. QED
  BY <1>3, <1>4, <1>5

\* Terms that are 0 may be left out.
LEMMA SumOfPart ==
  ASSUME NEW S, IsFiniteSet(S), NEW R \in SUBSET S, NEW f, \A y \in S : f[y] \in Int,
         \A y \in S \ R : f[y] = 0
  PROVE  SumFunctionOnSet(f, S) = SumFunctionOnSet(f, R)
<1> DEFINE T == S \ R
           Good == {s \in SUBSET T : SumFunctionOnSet(f, R \cup s) = SumFunctionOnSet(f, R)}
<1>1. IsFiniteSet(R) /\ IsFiniteSet(T)
  BY FS_Subset
<1>2. {} \in Good
  <2>1. R \cup {} = R
    OBVIOUS
  <2>2. QED
    BY <2>1
<1>3. ASSUME NEW s \in Good, NEW x \in T \ s
      PROVE  s \cup {x} \in Good
  <2>0. PICK whole : whole = R \cup s
    OBVIOUS
  <2>1. /\ whole \subseteq S /\ x \notin whole /\ f[x] = 0
        /\ \A y \in whole \cup {x} : f[y] \in Int
        /\ whole \cup {x} = R \cup (s \cup {x})
        /\ SumFunctionOnSet(f, whole) = SumFunctionOnSet(f, R)
    BY <2>0
  <2>2. IsFiniteSet(whole)
    BY <2>1, FS_Subset
  <2>3. SumFunctionOnSet(f, whole \cup {x}) = SumFunctionOnSet(f, whole) + f[x]
    <3>1. x \notin whole /\ \A y \in whole \cup {x} : f[y] \in Int
      BY <2>1
    <3> HIDE DEF Good, T
    <3>2. QED
      BY <3>1, <2>2, SumAdd
  <2>4. SumFunctionOnSet(f, whole) \in Int
    BY <2>1, <2>2, SumType
  <2>5. SumFunctionOnSet(f, R \cup (s \cup {x})) = SumFunctionOnSet(f, R)
    <3>1. SumFunctionOnSet(f, whole \cup {x}) = SumFunctionOnSet(f, R)
      <4>1. f[x] = 0 /\ SumFunctionOnSet(f, whole) = SumFunctionOnSet(f, R)
        BY <2>1
      <4>2. QED
        BY <4>1, <2>3, <2>4
    <3>2. whole \cup {x} = R \cup (s \cup {x})
      BY <2>1
    <3>3. QED
      BY <3>1, <3>2
  <2>6. QED
    BY <2>5
<1>4. Good = SUBSET T
  <2>1. Good \in SUBSET (SUBSET T)
    OBVIOUS
  <2> HIDE DEF Good, T
  <2>2. QED
    BY <1>1, <1>2, <1>3, <2>1, SubsetInduction
<1>5. T \in Good
  BY <1>4
<1>6. R \cup T = S
  OBVIOUS
<1>7. SumFunctionOnSet(f, R \cup T) = SumFunctionOnSet(f, R)
  BY <1>5
<1>8. QED
  BY <1>6, <1>7

\* A sum without one of its terms.
LEMMA SumWithout ==
  ASSUME NEW S, IsFiniteSet(S), NEW f, \A y \in S : f[y] \in Int, NEW x \in S
  PROVE  SumFunctionOnSet(f, S) = SumFunctionOnSet(f, S \ {x}) + f[x]
<1>1. PICK r : r = S \ {x}
  OBVIOUS
<1>2. x \notin r /\ r \cup {x} = S
  BY <1>1
<1>3. IsFiniteSet(r)
  BY <1>1, FS_Subset
<1>4. SumFunctionOnSet(f, r \cup {x}) = SumFunctionOnSet(f, r) + f[x]
  BY <1>2, <1>3, SumAdd
<1>5. QED
  BY <1>1, <1>2, <1>4

\* Terms may be given other names.
LEMMA SumReindexed ==
  ASSUME NEW S, IsFiniteSet(S), NEW name, NEW f, NEW g,
         \A i, j \in S : name[i] = name[j] => i = j,
         \A i \in S : g[i] \in Int /\ g[i] = f[name[i]]
  PROVE  SumFunctionOnSet(f, {name[i] : i \in S}) = SumFunctionOnSet(g, S)
<1> DEFINE Good == {s \in SUBSET S : /\ IsFiniteSet({name[i] : i \in s})
                                     /\ SumFunctionOnSet(f, {name[i] : i \in s}) = SumFunctionOnSet(g, s)}
<1>1. {} \in Good
  <2>1. {name[i] : i \in {}} = {}
    OBVIOUS
  <2>2. QED
    BY <2>1, FS_EmptySet, SumEmpty
<1>2. ASSUME NEW s \in Good, NEW x \in S \ s
      PROVE  s \cup {x} \in Good
  <2>0. PICK names : names = {name[i] : i \in s}
    OBVIOUS
  <2>1. /\ IsFiniteSet(names) /\ SumFunctionOnSet(f, names) = SumFunctionOnSet(g, s)
        /\ name[x] \notin names
        /\ \A y \in names \cup {name[x]} : f[y] \in Int
        /\ {name[i] : i \in s \cup {x}} = names \cup {name[x]}
        /\ x \notin s /\ \A i \in s \cup {x} : g[i] \in Int
        /\ f[name[x]] = g[x]
    BY <2>0
  <2>2. IsFiniteSet(s)
    BY FS_Subset
  <2>3. PICK y, T, U : y = name[x] /\ T = names \cup {y} /\ U = s \cup {x}
    OBVIOUS
  <2>4. /\ y \in T /\ T \ {y} = names /\ x \in U /\ U \ {x} = s /\ f[y] = g[x]
        /\ \A z \in T : f[z] \in Int
        /\ \A i \in U : g[i] \in Int
        /\ T = {name[i] : i \in U}
    BY <2>1, <2>3
  <2>5. IsFiniteSet(T) /\ IsFiniteSet(U)
    BY <2>1, <2>2, <2>3, FS_AddElement
  <2>6. SumFunctionOnSet(f, T) = SumFunctionOnSet(f, names) + f[y]
    <3> HIDE DEF Good
    <3>1. QED
      BY <2>4, <2>5, SumWithout
  <2>7. SumFunctionOnSet(g, U) = SumFunctionOnSet(g, s) + g[x]
    <3> HIDE DEF Good
    <3>1. QED
      BY <2>4, <2>5, SumWithout
  <2>8. SumFunctionOnSet(f, T) = SumFunctionOnSet(g, U)
    BY <2>1, <2>4, <2>6, <2>7
  <2>9. QED
    BY <2>3, <2>4, <2>5, <2>8
<1>3. Good = SUBSET S
  <2>1. Good \in SUBSET (SUBSET S)
    OBVIOUS
  <2> HIDE DEF Good
  <2>2. QED
    BY <1>1, <1>2, <2>1, SubsetInduction
<1>4. QED
  BY <1>3
=============================================================================
