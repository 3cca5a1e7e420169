----------------------------- MODULE DataProofs -----------------------------
(***************************************************************************)
(* Facts about data that the proofs of several components need: sets of    *)
(* numbers, sums over a finite set, and what the list functions do to the  *)
(* set of linked entries of a list of any length.                          *)
(***************************************************************************)
EXTENDS KernelList, FiniteSetTheorems, TLAPS

\* A non-empty set of numbers has a least member.
LEMMA LeastOfNats ==
  ASSUME NEW S \in SUBSET Nat, S # {}
  PROVE  \E m \in S : \A i \in S : m <= i
<1> DEFINE R == OpToRel(<, Nat)
<1>1. IsWellFoundedOn(R, Nat)
  BY NatLessThanWellFounded
<1>2. \A y, x \in Nat : <<y, x>> \in R <=> y < x
  BY DEF OpToRel
<1> HIDE DEF R
<1>3. PICK m \in S : \A i \in S : ~(<<i, m>> \in R)
  BY <1>1, WFMin
<1>4. ASSUME NEW i \in S PROVE m <= i
  <2>1. i \in Nat /\ m \in Nat
    OBVIOUS
  <2>2. ~(i < m)
    BY <2>1, <1>2, <1>3
  <2> QED BY <2>1, <2>2
<1> QED BY <1>4

-----------------------------------------------------------------------------
(* Sums *)

\* A set that is not empty has a subset of least size among any of its finite subsets.
LEMMA LeastOfSets ==
  ASSUME NEW D, IsFiniteSet(D), NEW B \in SUBSET (SUBSET D), B # {}
  PROVE  \E T \in B : \A U \in B : Cardinality(T) <= Cardinality(U)
<1> DEFINE N == {Cardinality(T) : T \in B}
<1>1. \A T \in B : Cardinality(T) \in Nat
  BY FS_Subset, FS_CardinalityType
<1>2. N \in SUBSET Nat /\ N # {}
  BY <1>1
<1>3. PICK m \in N : \A i \in N : m <= i
  BY <1>2, LeastOfNats
<1> QED BY <1>3

OneOf(s) == CHOOSE x \in s : TRUE
SumStep(g, f, s) == IF s = {} THEN 0 ELSE f[OneOf(s)] + g[s \ {OneOf(s)}]

\* g sums f over every part of D.
IsSum(g, f, D) == g = [s \in SUBSET D |-> SumStep(g, f, s)]

LEMMA SumIs ==
  ASSUME NEW f, NEW S
  PROVE  SumFunctionOnSet(f, S) = (CHOOSE g : IsSum(g, f, S))[S]
BY DEF SumFunctionOnSet, FoldFunctionOnSet, MapThenFoldSet, IsSum, SumStep, OneOf

\* Such a g exists over a finite set: it is built for larger and larger parts of it.
LEMMA SumExists == ASSUME NEW f, NEW D, IsFiniteSet(D) PROVE \E g : IsSum(g, f, D)
<1> DEFINE Upto(n) == \E g : /\ g = [s \in SUBSET D |-> g[s]]
                              /\ \A s \in SUBSET D : Cardinality(s) <= n => g[s] = SumStep(g, f, s)
           Bad == {n \in Nat : ~Upto(n)}
<1>1. \A s \in SUBSET D : IsFiniteSet(s) /\ Cardinality(s) \in Nat
  BY FS_Subset, FS_CardinalityType
<1>2. ASSUME NEW s \in SUBSET D, s # {}
      PROVE  /\ OneOf(s) \in s /\ s \ {OneOf(s)} \in SUBSET D
             /\ Cardinality(s \ {OneOf(s)}) = Cardinality(s) - 1
  <2>1. OneOf(s) \in s
    BY <1>2 DEF OneOf
  <2> QED BY <2>1, <1>1, FS_RemoveElement
<1>3. \A s \in SUBSET D : Cardinality(s) = 0 <=> s = {}
  BY <1>1, FS_EmptySet
<1> HIDE DEF Upto
<1>4. Upto(0)
  <2> DEFINE g == [s \in SUBSET D |-> 0]
  <2>1. g = [s \in SUBSET D |-> g[s]]
    OBVIOUS
  <2>2. ASSUME NEW s \in SUBSET D, Cardinality(s) <= 0 PROVE g[s] = SumStep(g, f, s)
    <3>1. s = {}
      BY <2>2, <1>1, <1>3
    <3> QED BY <3>1 DEF SumStep
  <2> HIDE DEF g
  <2> QED BY <2>1, <2>2 DEF Upto
<1>5. ASSUME NEW n \in Nat, Upto(n) PROVE Upto(n + 1)
  <2>1. PICK g : /\ g = [s \in SUBSET D |-> g[s]]
                 /\ \A s \in SUBSET D : Cardinality(s) <= n => g[s] = SumStep(g, f, s)
    BY <1>5 DEF Upto
  <2> DEFINE h == [s \in SUBSET D |-> SumStep(g, f, s)]
  <2>2. h = [s \in SUBSET D |-> h[s]]
    OBVIOUS
  <2>3. ASSUME NEW s \in SUBSET D, Cardinality(s) <= n + 1 PROVE h[s] = SumStep(h, f, s)
    <3>1. CASE s = {}
      BY <3>1 DEF SumStep
    <3>2. CASE s # {}
      <4> DEFINE t == s \ {OneOf(s)}
      <4>1. t \in SUBSET D /\ Cardinality(t) <= n
        BY <1>1, <1>2, <2>3, <3>2
      <4> HIDE DEF t
      <4>2. h[t] = SumStep(g, f, t) /\ g[t] = SumStep(g, f, t)
        BY <2>1, <4>1
      <4>3. h[s] = f[OneOf(s)] + g[t]
        BY <3>2 DEF SumStep, t
      <4>4. SumStep(h, f, s) = f[OneOf(s)] + h[t]
        BY <3>2 DEF SumStep, t
      <4> QED BY <4>2, <4>3, <4>4
    <3> QED BY <3>1, <3>2
  <2> HIDE DEF h
  <2> QED BY <2>2, <2>3 DEF Upto
<1>6. ASSUME Bad # {} PROVE FALSE
  <2>1. PICK m \in Bad : \A n \in Bad : m <= n
    BY <1>6, LeastOfNats
  <2>2. m \in Nat /\ m # 0 /\ ~Upto(m)
    BY <2>1, <1>4
  <2>3. m - 1 \in Nat /\ ~(m <= m - 1) /\ (m - 1) + 1 = m
    BY <2>2
  <2>4. Upto(m - 1)
    BY <2>1, <2>3
  <2> QED BY <2>2, <2>3, <2>4, <1>5
<1>7. Upto(Cardinality(D))
  BY <1>1, <1>6
<1>8. PICK g : /\ g = [s \in SUBSET D |-> g[s]]
               /\ \A s \in SUBSET D : Cardinality(s) <= Cardinality(D) => g[s] = SumStep(g, f, s)
  BY <1>7 DEF Upto
<1>9. \A s \in SUBSET D : Cardinality(s) <= Cardinality(D)
  BY FS_Subset
<1>10. g = [s \in SUBSET D |-> SumStep(g, f, s)]
  BY <1>8, <1>9
<1> QED BY <1>10 DEF IsSum

\* One function sums every part of a finite set.
LEMMA SumTable ==
  ASSUME NEW f, NEW D, IsFiniteSet(D), \A x \in D : f[x] \in Int
  PROVE  \E g : /\ \A S \in SUBSET D : g[S] = SumFunctionOnSet(f, S) /\ g[S] \in Int
                /\ \A S \in SUBSET D : g[S] = SumStep(g, f, S)
<1>1. PICK g : IsSum(g, f, D)
  BY SumExists
<1>2. \A S \in SUBSET D : g[S] = SumStep(g, f, S)
  BY <1>1 DEF IsSum
<1>3. \A S \in SUBSET D : IsFiniteSet(S) /\ Cardinality(S) \in Nat
  BY FS_Subset, FS_CardinalityType
<1>4. ASSUME NEW S \in SUBSET D, S # {}
      PROVE  /\ OneOf(S) \in S /\ S \ {OneOf(S)} \in SUBSET S
             /\ ~(Cardinality(S) <= Cardinality(S \ {OneOf(S)}))
  <2>1. OneOf(S) \in S
    BY <1>4 DEF OneOf
  <2>2. Cardinality(S \ {OneOf(S)}) = Cardinality(S) - 1
    BY <2>1, <1>3, FS_RemoveElement
  <2> QED BY <2>1, <2>2, <1>3
<1>5. ASSUME NEW S \in SUBSET D PROVE g[S] \in Int
  <2> DEFINE B == {T \in SUBSET D : g[T] \notin Int}
  <2>1. ASSUME B # {} PROVE FALSE
    <3>1. PICK T \in B : \A U \in B : Cardinality(T) <= Cardinality(U)
      BY <2>1, LeastOfSets
    <3>2. CASE T = {}
      <4>1. {} \in SUBSET D /\ g[{}] = 0
        BY <1>2 DEF SumStep
      <4>2. g[T] \in Int
        BY <3>2, <4>1
      <4> QED BY <3>1, <4>2
    <3>3. CASE T # {}
      <4> DEFINE t == T \ {OneOf(T)}
      <4>1. t \in SUBSET D /\ t \notin B /\ OneOf(T) \in D
        BY <3>1, <3>3, <1>4
      <4>2. g[T] = f[OneOf(T)] + g[t]
        BY <3>3, <1>2 DEF SumStep
      <4>3. g[t] \in Int /\ f[OneOf(T)] \in Int
        BY <4>1
      <4> QED BY <3>1, <4>2, <4>3
    <3> QED BY <3>2, <3>3
  <2> QED BY <2>1
<1>6. ASSUME NEW S \in SUBSET D PROVE g[S] = SumFunctionOnSet(f, S)
  <2> DEFINE h == CHOOSE h : IsSum(h, f, S)
  <2>1. IsSum(h, f, S)
    BY <1>3, SumExists
  <2>2. SumFunctionOnSet(f, S) = h[S]
    BY SumIs
  <2> HIDE DEF h
  <2>3. \A T \in SUBSET S : h[T] = SumStep(h, f, T)
    BY <2>1 DEF IsSum
  <2> DEFINE B == {T \in SUBSET S : g[T] # h[T]}
  <2>4. ASSUME B # {} PROVE FALSE
    <3>1. PICK T \in B : \A U \in B : Cardinality(T) <= Cardinality(U)
      BY <2>4, <1>3, LeastOfSets
    <3>2. T \in SUBSET D
      OBVIOUS
    <3>3. CASE T = {}
      BY <3>1, <3>2, <3>3, <1>2, <2>3 DEF SumStep
    <3>4. CASE T # {}
      <4> DEFINE t == T \ {OneOf(T)}
      <4>1. t \in SUBSET S /\ t \notin B
        BY <3>1, <3>2, <3>4, <1>4
      <4>2. g[T] = f[OneOf(T)] + g[t] /\ h[T] = f[OneOf(T)] + h[t]
        BY <3>2, <3>4, <1>2, <2>3 DEF SumStep
      <4> QED BY <3>1, <4>1, <4>2
    <3> QED BY <3>3, <3>4
  <2>5. S \in SUBSET S
    OBVIOUS
  <2> QED BY <2>2, <2>4, <2>5
<1> QED BY <1>2, <1>5, <1>6

LEMMA SumEmpty == ASSUME NEW f PROVE SumFunctionOnSet(f, {}) = 0
<1>1. IsFiniteSet({}) /\ (\A x \in {} : f[x] \in Int)
  BY FS_EmptySet
<1>2. PICK g : \A S \in SUBSET {} : g[S] = SumFunctionOnSet(f, S) /\ g[S] = SumStep(g, f, S)
  BY <1>1, SumTable
<1>3. {} \in SUBSET {}
  OBVIOUS
<1> QED BY <1>2, <1>3 DEF SumStep

LEMMA SumType ==
  ASSUME NEW f, NEW D, IsFiniteSet(D), \A x \in D : f[x] \in Int
  PROVE  SumFunctionOnSet(f, D) \in Int
<1>1. D \in SUBSET D
  OBVIOUS
<1> QED BY <1>1, SumTable

\* The order does not matter: any member may be added last.
LEMMA SumSplit ==
  ASSUME NEW f, NEW D, IsFiniteSet(D), \A x \in D : f[x] \in Int, NEW c \in D
  PROVE  SumFunctionOnSet(f, D) = f[c] + SumFunctionOnSet(f, D \ {c})
<1>1. PICK g : /\ \A S \in SUBSET D : g[S] = SumFunctionOnSet(f, S) /\ g[S] \in Int
               /\ \A S \in SUBSET D : g[S] = SumStep(g, f, S)
  BY SumTable
<1>2. ASSUME NEW S \in SUBSET D, S # {}
      PROVE  /\ OneOf(S) \in S /\ S \ {OneOf(S)} \in SUBSET D
             /\ g[S] = f[OneOf(S)] + g[S \ {OneOf(S)}]
  BY <1>1, <1>2 DEF SumStep, OneOf
<1>3. ASSUME NEW S \in SUBSET D, NEW x \in S
      PROVE  ~(Cardinality(S) <= Cardinality(S \ {x}))
  <2>1. IsFiniteSet(S)
    BY FS_Subset
  <2>2. Cardinality(S \ {x}) = Cardinality(S) - 1 /\ Cardinality(S) \in Nat
    BY <2>1, FS_RemoveElement, FS_CardinalityType
  <2> QED BY <2>2
<1> DEFINE Any(S) == \A x \in S : g[S] = f[x] + g[S \ {x}]
           B == {S \in SUBSET D : ~Any(S)}
<1>4. ASSUME B # {} PROVE FALSE
  <2>1. PICK S \in B : \A U \in B : Cardinality(S) <= Cardinality(U)
    BY <1>4, LeastOfSets
  <2>2. PICK x \in S : g[S] # f[x] + g[S \ {x}]
    BY <2>1
  <2>0. PICK y : y = OneOf(S)
    OBVIOUS
  <2>3. y \in S /\ g[S] = f[y] + g[S \ {y}] /\ y # x
    BY <2>2, <2>0, <1>2
  <2>4. Any(S \ {y}) /\ Any(S \ {x})
    <3>1. S \ {y} \in SUBSET D /\ S \ {x} \in SUBSET D
      OBVIOUS
    <3>2. S \ {y} \notin B /\ S \ {x} \notin B
      BY <2>1, <2>3, <1>3
    <3> QED BY <3>1, <3>2
  <2>5. g[S \ {y}] = f[x] + g[(S \ {y}) \ {x}] /\ g[S \ {x}] = f[y] + g[(S \ {x}) \ {y}]
    BY <2>2, <2>3, <2>4
  <2>6. PICK r : r = g[(S \ {x}) \ {y}]
    OBVIOUS
  <2>7. (S \ {y}) \ {x} = (S \ {x}) \ {y}
    OBVIOUS
  <2>8. r \in Int /\ f[x] \in Int /\ f[y] \in Int
    BY <2>3, <2>6, <1>1
  <2>9. g[S] = f[y] + (f[x] + r) /\ g[S \ {x}] = f[y] + r
    BY <2>3, <2>5, <2>6, <2>7
  <2>10. g[S] = f[x] + g[S \ {x}]
    BY <2>8, <2>9
  <2> QED BY <2>2, <2>10
<1>5. D \in SUBSET D /\ D \ {c} \in SUBSET D
  OBVIOUS
<1>6. g[D] = f[c] + g[D \ {c}]
  BY <1>4, <1>5
<1> QED BY <1>1, <1>5, <1>6

\* Only the values at the members count.
LEMMA SumSame ==
  ASSUME NEW f, NEW h, NEW D, IsFiniteSet(D), \A x \in D : f[x] \in Int /\ h[x] = f[x]
  PROVE  SumFunctionOnSet(h, D) = SumFunctionOnSet(f, D)
<1>1. PICK g : /\ \A S \in SUBSET D : g[S] = SumFunctionOnSet(f, S) /\ g[S] \in Int
               /\ \A S \in SUBSET D : g[S] = SumStep(g, f, S)
  BY SumTable
<1>2. \A x \in D : h[x] \in Int
  OBVIOUS
<1>3. PICK k : /\ \A S \in SUBSET D : k[S] = SumFunctionOnSet(h, S) /\ k[S] \in Int
               /\ \A S \in SUBSET D : k[S] = SumStep(k, h, S)
  BY <1>2, SumTable
<1> DEFINE B == {S \in SUBSET D : g[S] # k[S]}
<1>4. ASSUME B # {} PROVE FALSE
  <2>1. PICK S \in B : \A U \in B : Cardinality(S) <= Cardinality(U)
    BY <1>4, LeastOfSets
  <2>2. CASE S = {}
    <3>1. g[S] = 0 /\ k[S] = 0
      BY <1>1, <1>3, <2>2 DEF SumStep
    <3> QED BY <2>1, <3>1
  <2>3. CASE S # {}
    <3>0. PICK y : y = OneOf(S)
      OBVIOUS
    <3>1. y \in S
      BY <2>3, <3>0 DEF OneOf
    <3>2. g[S] = f[y] + g[S \ {y}] /\ k[S] = h[y] + k[S \ {y}]
      BY <1>1, <1>3, <2>3, <3>0 DEF SumStep
    <3>3. S \ {y} \notin B
      <4>1. IsFiniteSet(S)
        BY FS_Subset
      <4>2. Cardinality(S \ {y}) = Cardinality(S) - 1 /\ Cardinality(S) \in Nat
        BY <3>1, <4>1, FS_RemoveElement, FS_CardinalityType
      <4>3. ~(Cardinality(S) <= Cardinality(S \ {y}))
        BY <4>2
      <4> QED BY <2>1, <4>3
    <3>4. g[S \ {y}] = k[S \ {y}] /\ h[y] = f[y]
      BY <3>1, <3>3
    <3> QED BY <2>1, <3>2, <3>4
  <2> QED BY <2>2, <2>3
<1>5. D \in SUBSET D
  OBVIOUS
<1> QED BY <1>1, <1>3, <1>4, <1>5

\* What a sum changes by when one value changes.
LEMMA SumChange ==
  ASSUME NEW f, NEW h, NEW D, IsFiniteSet(D), \A x \in D : f[x] \in Int /\ h[x] \in Int,
         NEW c \in D, \A x \in D \ {c} : h[x] = f[x]
  PROVE  SumFunctionOnSet(h, D) = SumFunctionOnSet(f, D) + (h[c] - f[c])
<1>1. IsFiniteSet(D \ {c})
  BY FS_Subset
<1>2. SumFunctionOnSet(h, D \ {c}) = SumFunctionOnSet(f, D \ {c})
  BY <1>1, SumSame
<1>3. SumFunctionOnSet(f, D \ {c}) \in Int
  BY <1>1, SumType
<1>4. SumFunctionOnSet(f, D) = f[c] + SumFunctionOnSet(f, D \ {c})
  BY SumSplit
<1>5. SumFunctionOnSet(h, D) = h[c] + SumFunctionOnSet(h, D \ {c})
  BY SumSplit
<1>6. f[c] \in Int /\ h[c] \in Int
  OBVIOUS
<1> QED BY <1>2, <1>3, <1>4, <1>5, <1>6

\* A sum of zeros.
LEMMA SumZero ==
  ASSUME NEW f, NEW D, IsFiniteSet(D), \A x \in D : f[x] = 0
  PROVE  SumFunctionOnSet(f, D) = 0
<1>1. PICK g : /\ \A S \in SUBSET D : g[S] = SumFunctionOnSet(f, S) /\ g[S] \in Int
               /\ \A S \in SUBSET D : g[S] = SumStep(g, f, S)
  <2>1. \A x \in D : f[x] \in Int
    OBVIOUS
  <2> QED BY <2>1, SumTable
<1> DEFINE B == {S \in SUBSET D : g[S] # 0}
<1>2. ASSUME B # {} PROVE FALSE
  <2>1. PICK S \in B : \A U \in B : Cardinality(S) <= Cardinality(U)
    BY <1>2, LeastOfSets
  <2>2. CASE S = {}
    <3>1. g[S] = 0
      BY <1>1, <2>2 DEF SumStep
    <3> QED BY <2>1, <3>1
  <2>3. CASE S # {}
    <3>0. PICK y : y = OneOf(S)
      OBVIOUS
    <3>1. y \in S
      BY <2>3, <3>0 DEF OneOf
    <3>2. g[S] = f[y] + g[S \ {y}]
      BY <1>1, <2>3, <3>0 DEF SumStep
    <3>3. S \ {y} \notin B
      <4>1. IsFiniteSet(S)
        BY FS_Subset
      <4>2. Cardinality(S \ {y}) = Cardinality(S) - 1 /\ Cardinality(S) \in Nat
        BY <3>1, <4>1, FS_RemoveElement, FS_CardinalityType
      <4>3. ~(Cardinality(S) <= Cardinality(S \ {y}))
        BY <4>2
      <4> QED BY <2>1, <4>3
    <3>4. g[S \ {y}] = 0 /\ f[y] = 0
      BY <3>1, <3>3
    <3> QED BY <2>1, <3>2, <3>4
  <2> QED BY <2>2, <2>3
<1>3. D \in SUBSET D
  OBVIOUS
<1> QED BY <1>1, <1>2, <1>3

\* What a sum changes by when two values change.
LEMMA SumChangeTwo ==
  ASSUME NEW f, NEW h, NEW D, IsFiniteSet(D), \A x \in D : f[x] \in Int /\ h[x] \in Int,
         NEW c \in D, NEW d \in D, c # d, \A x \in D \ {c, d} : h[x] = f[x]
  PROVE  SumFunctionOnSet(h, D) = SumFunctionOnSet(f, D) + (h[c] - f[c]) + (h[d] - f[d])
<1>0. PICK k : k = [x \in D |-> IF x = c THEN h[c] ELSE f[x]]
  OBVIOUS
<1>1. /\ \A x \in D : k[x] \in Int
      /\ k[c] = h[c] /\ k[d] = f[d] /\ (\A x \in D \ {c} : k[x] = f[x]) /\ (\A x \in D \ {d} : h[x] = k[x])
  BY <1>0
<1>2. SumFunctionOnSet(k, D) = SumFunctionOnSet(f, D) + (k[c] - f[c])
  BY <1>1, SumChange
<1>3. SumFunctionOnSet(h, D) = SumFunctionOnSet(k, D) + (h[d] - k[d])
  BY <1>1, SumChange
<1> QED BY <1>1, <1>2, <1>3

\* Members whose value is zero may be left out.
LEMMA SumOutside ==
  ASSUME NEW f, NEW D, IsFiniteSet(D), \A x \in D : f[x] \in Int,
         NEW S \in SUBSET D, \A x \in D \ S : f[x] = 0
  PROVE  SumFunctionOnSet(f, S) = SumFunctionOnSet(f, D)
<1> DEFINE B == {T \in SUBSET (D \ S) : SumFunctionOnSet(f, S \cup T) # SumFunctionOnSet(f, S)}
<1>0. IsFiniteSet(D \ S)
  BY FS_Subset
<1>1. ASSUME B # {} PROVE FALSE
  <2>1. PICK T \in B : \A U \in B : Cardinality(T) <= Cardinality(U)
    BY <1>0, <1>1, LeastOfSets
  <2>2. CASE T = {}
    <3>1. S \cup T = S
      BY <2>2
    <3> QED BY <2>1, <3>1
  <2>3. CASE T # {}
    <3>1. PICK y : y \in T
      BY <2>3
    <3>2. T \ {y} \notin B
      <4>1. IsFiniteSet(T)
        BY <1>0, FS_Subset
      <4>2. Cardinality(T \ {y}) = Cardinality(T) - 1 /\ Cardinality(T) \in Nat
        BY <3>1, <4>1, FS_RemoveElement, FS_CardinalityType
      <4>3. ~(Cardinality(T) <= Cardinality(T \ {y}))
        BY <4>2
      <4> QED BY <2>1, <4>3
    <3>3. SumFunctionOnSet(f, S \cup (T \ {y})) = SumFunctionOnSet(f, S)
      BY <3>2
    <3>4. /\ S \cup T \in SUBSET D /\ y \in S \cup T
          /\ (S \cup T) \ {y} = S \cup (T \ {y}) /\ f[y] = 0
      BY <3>1
    <3>5. IsFiniteSet(S \cup T) /\ \A x \in S \cup T : f[x] \in Int
      BY <3>4, FS_Subset
    <3>6. SumFunctionOnSet(f, S \cup T) = f[y] + SumFunctionOnSet(f, (S \cup T) \ {y})
      BY <3>4, <3>5, SumSplit
    <3>7. SumFunctionOnSet(f, S) \in Int
      BY FS_Subset, SumType
    <3>8. SumFunctionOnSet(f, S \cup T) = SumFunctionOnSet(f, S)
      <4>1. PICK U, V : U = S \cup T /\ V = U \ {y} /\ V = S \cup (T \ {y})
        BY <3>4
      <4>2. SumFunctionOnSet(f, U) = f[y] + SumFunctionOnSet(f, V)
        BY <3>6, <4>1
      <4>3. SumFunctionOnSet(f, V) = SumFunctionOnSet(f, S)
        BY <3>3, <4>1
      <4>4. f[y] = 0
        BY <3>4
      <4>5. SumFunctionOnSet(f, U) = SumFunctionOnSet(f, S)
        BY <3>7, <4>2, <4>3, <4>4
      <4> QED BY <4>1, <4>5
    <3> QED BY <2>1, <3>8
  <2> QED BY <2>2, <2>3
<1>2. D \ S \in SUBSET (D \ S) /\ S \cup (D \ S) = D
  OBVIOUS
<1>3. D \ S \notin B
  BY <1>1
<1>4. SumFunctionOnSet(f, S \cup (D \ S)) = SumFunctionOnSet(f, S)
  BY <1>2, <1>3
<1> QED BY <1>2, <1>4

-----------------------------------------------------------------------------
(* Lists *)

\* The list q holds every member of S once and nothing else.
Lists(q, S) ==
  /\ q \in Seq(S)
  /\ \A i, j \in 1 .. Len(q) : q[i] = q[j] => i = j
  /\ \A x \in S : \E i \in 1 .. Len(q) : q[i] = x

-----------------------------------------------------------------------------
\* list_del() unlinks p and nothing else, and keeps the list free of
\* duplicates.
LEMMA ListDel ==
  ASSUME NEW S, NEW q, Lists(q, S), NEW p \in S
  PROVE  Lists(list_del(q, p), S \ {p}) /\ Len(list_del(q, p)) = Len(q) - 1
<1> DEFINE k == CHOOSE i \in DOMAIN q : q[i] = p
           d == [j \in 1 .. Len(q) - 1 |-> IF j < k THEN q[j] ELSE q[j + 1]]
<1>1. q \in Seq(S) /\ Len(q) \in Nat /\ DOMAIN q = 1 .. Len(q)
  BY DEF Lists
<1>2. k \in 1 .. Len(q) /\ q[k] = p
  <2>1. \E i \in DOMAIN q : q[i] = p
    BY <1>1 DEF Lists
  <2> QED BY <2>1, <1>1
<1>3. list_del(q, p) = d
  BY DEF list_del
<1> HIDE DEF k
<1>4. \A j \in 1 .. Len(q) - 1 : d[j] \in S \ {p}
  <2> TAKE j \in 1 .. Len(q) - 1
  <2>1. CASE j < k
    BY <1>1, <1>2, <2>1 DEF Lists
  <2>2. CASE ~(j < k)
    <3>1. j + 1 \in 1 .. Len(q) /\ j + 1 # k
      BY <1>1, <1>2, <2>2
    <3>2. d[j] = q[j + 1]
      BY <2>2
    <3> QED BY <1>1, <1>2, <3>1, <3>2 DEF Lists
  <2> QED BY <2>1, <2>2
<1>5. d \in Seq(S \ {p}) /\ Len(d) = Len(q) - 1
  <2>1. Len(q) - 1 \in Nat
    BY <1>1, <1>2
  <2> QED BY <2>1, <1>4
<1>6. ASSUME NEW i \in 1 .. Len(d), NEW j \in 1 .. Len(d), d[i] = d[j]
      PROVE  i = j
  <2>1. i \in 1 .. Len(q) - 1 /\ j \in 1 .. Len(q) - 1
    BY <1>5
  <2> DEFINE f(m) == IF m < k THEN m ELSE m + 1
  <2>2. f(i) \in 1 .. Len(q) /\ f(j) \in 1 .. Len(q)
    BY <2>1, <1>1, <1>2
  <2>3. d[i] = q[f(i)] /\ d[j] = q[f(j)]
    BY <2>1
  <2>4. f(i) = f(j)
    BY <2>2, <2>3, <1>6 DEF Lists
  <2> QED BY <2>1, <2>4, <1>1, <1>2
<1>7. ASSUME NEW x \in S \ {p} PROVE \E i \in 1 .. Len(d) : d[i] = x
  <2>1. PICK m \in 1 .. Len(q) : q[m] = x
    BY DEF Lists
  <2>2. m # k
    BY <2>1, <1>2
  <2>3. CASE m < k
    <3>1. m \in 1 .. Len(q) - 1 /\ d[m] = x
      BY <2>1, <2>3, <1>1, <1>2
    <3> QED BY <3>1, <1>5
  <2>4. CASE ~(m < k)
    <3>1. m - 1 \in 1 .. Len(q) - 1 /\ ~(m - 1 < k) /\ (m - 1) + 1 = m
      BY <2>1, <2>2, <2>4, <1>1, <1>2
    <3>2. d[m - 1] = x
      BY <3>1, <2>1
    <3> QED BY <3>1, <3>2, <1>5
  <2> QED BY <2>3, <2>4
<1> QED BY <1>3, <1>5, <1>6, <1>7 DEF Lists

\* list_add_tail() of a task that is not linked.
LEMMA ListAddTail ==
  ASSUME NEW S, NEW q, Lists(q, S), NEW p, p \notin S
  PROVE  Lists(Append(q, p), S \cup {p}) /\ Len(Append(q, p)) = Len(q) + 1
<1> DEFINE a == Append(q, p)
<1>1. q \in Seq(S) /\ q \in Seq(S \cup {p}) /\ Len(q) \in Nat
  BY DEF Lists
<1>2. /\ a \in Seq(S \cup {p}) /\ Len(a) = Len(q) + 1
      /\ \A i \in 1 .. Len(q) : a[i] = q[i] /\ q[i] \in S
      /\ a[Len(q) + 1] = p
  BY <1>1
<1> HIDE DEF a
<1>3. \A i, j \in 1 .. Len(a) : a[i] = a[j] => i = j
  <2> TAKE i, j \in 1 .. Len(a)
  <2>1. i \in 1 .. Len(q) \/ i = Len(q) + 1
    BY <1>1, <1>2
  <2>2. j \in 1 .. Len(q) \/ j = Len(q) + 1
    BY <1>1, <1>2
  <2> QED BY <2>1, <2>2, <1>2 DEF Lists
<1>4. ASSUME NEW x \in S \cup {p} PROVE \E i \in 1 .. Len(a) : a[i] = x
  <2>1. CASE x \in S
    <3>1. PICK i \in 1 .. Len(q) : q[i] = x
      BY <2>1 DEF Lists
    <3> QED BY <3>1, <1>1, <1>2
  <2>2. CASE x = p
    <3>1. Len(q) + 1 \in 1 .. Len(a)
      BY <1>1, <1>2
    <3> QED BY <3>1, <2>2, <1>2
  <2> QED BY <2>1, <2>2
<1> QED BY <1>2, <1>3, <1>4 DEF Lists, a

\* list_add() of a task that is not linked.
LEMMA ListAddHead ==
  ASSUME NEW S, NEW q, Lists(q, S), NEW p, p \notin S
  PROVE  Lists(<<p>> \o q, S \cup {p}) /\ Len(<<p>> \o q) = Len(q) + 1
<1> DEFINE a == <<p>> \o q
<1>1. q \in Seq(S) /\ q \in Seq(S \cup {p}) /\ Len(q) \in Nat
  BY DEF Lists
<1>2. /\ a \in Seq(S \cup {p}) /\ Len(a) = Len(q) + 1
      /\ a[1] = p
      /\ \A i \in 2 .. Len(q) + 1 : a[i] = q[i - 1]
  <2>1. <<p>> \in Seq(S \cup {p}) /\ Len(<<p>>) = 1 /\ <<p>>[1] = p
    OBVIOUS
  <2> QED BY <1>1, <2>1
<1> HIDE DEF a
<1>3. \A i \in 1 .. Len(a) : i = 1 \/ (i - 1 \in 1 .. Len(q) /\ a[i] = q[i - 1] /\ a[i] \in S)
  BY <1>1, <1>2
<1>4. \A i, j \in 1 .. Len(a) : a[i] = a[j] => i = j
  <2> TAKE i, j \in 1 .. Len(a)
  <2>1. CASE i = 1 \/ j = 1
    BY <2>1, <1>2, <1>3
  <2>2. CASE i # 1 /\ j # 1
    <3>1. /\ i - 1 \in 1 .. Len(q) /\ a[i] = q[i - 1]
          /\ j - 1 \in 1 .. Len(q) /\ a[j] = q[j - 1]
      BY <2>2, <1>3
    <3>2. a[i] = a[j] => i - 1 = j - 1
      BY <3>1 DEF Lists
    <3> QED BY <3>2, <1>1, <1>2
  <2> QED BY <2>1, <2>2
<1>5. ASSUME NEW x \in S \cup {p} PROVE \E i \in 1 .. Len(a) : a[i] = x
  <2>1. CASE x \in S
    <3>1. PICK i \in 1 .. Len(q) : q[i] = x
      BY <2>1 DEF Lists
    <3>2. i + 1 \in 2 .. Len(q) + 1 /\ (i + 1) - 1 = i
      BY <3>1, <1>1
    <3>3. a[i + 1] = x
      BY <3>1, <3>2, <1>2
    <3> QED BY <3>2, <3>3, <1>1, <1>2
  <2>2. CASE x = p
    BY <2>2, <1>1, <1>2
  <2> QED BY <2>1, <2>2
<1> QED BY <1>2, <1>4, <1>5 DEF Lists, a

\* list_del() of the first entry.
LEMMA ListDelFirst ==
  ASSUME NEW S, NEW q, Lists(q, S), q # << >>
  PROVE  /\ Head(q) \in S /\ Head(q) = q[1] /\ Lists(Tail(q), S \ {Head(q)})
         /\ Len(Tail(q)) = Len(q) - 1
         /\ \A i \in 1 .. Len(q) - 1 : Tail(q)[i] = q[i + 1]
<1>1. q \in Seq(S) /\ Len(q) \in Nat /\ Len(q) > 0
  BY DEF Lists
<1>2. /\ Head(q) = q[1] /\ q[1] \in S /\ Tail(q) \in Seq(S) /\ Len(Tail(q)) = Len(q) - 1
      /\ \A i \in 1 .. Len(q) - 1 : Tail(q)[i] = q[i + 1]
  BY <1>1
<1>3. \A i, j \in 1 .. Len(Tail(q)) : Tail(q)[i] = Tail(q)[j] => i = j
  <2> TAKE i, j \in 1 .. Len(Tail(q))
  <2>1. /\ i \in 1 .. Len(q) - 1 /\ j \in 1 .. Len(q) - 1
        /\ i + 1 \in 1 .. Len(q) /\ j + 1 \in 1 .. Len(q)
    BY <1>1, <1>2
  <2> QED BY <2>1, <1>2 DEF Lists
<1>4. ASSUME NEW i \in 1 .. Len(Tail(q)) PROVE Tail(q)[i] \in S \ {Head(q)}
  <2>1. i + 1 \in 1 .. Len(q) /\ 1 \in 1 .. Len(q) /\ i + 1 # 1 /\ i \in 1 .. Len(q) - 1
    BY <1>1, <1>2
  <2> QED BY <2>1, <1>2 DEF Lists
<1>5. ASSUME NEW x \in S \ {Head(q)} PROVE \E i \in 1 .. Len(Tail(q)) : Tail(q)[i] = x
  <2>1. PICK k \in 1 .. Len(q) : q[k] = x
    BY DEF Lists
  <2>2. k # 1
    BY <1>2, <2>1
  <2>3. k - 1 \in 1 .. Len(Tail(q)) /\ k - 1 \in 1 .. Len(q) - 1 /\ (k - 1) + 1 = k
    BY <1>1, <1>2, <2>2
  <2> QED BY <1>2, <2>1, <2>3
<1> DEFINE t == Tail(q)
<1>6. t \in Seq(S \ {Head(q)})
  <2>1. t \in Seq(S) /\ \A i \in 1 .. Len(t) : t[i] \in S \ {Head(q)}
    BY <1>2, <1>4
  <2> HIDE DEF t
  <2>2. t = [i \in 1 .. Len(t) |-> t[i]] /\ Len(t) \in Nat
    BY <2>1
  <2> QED BY <2>1, <2>2
<1> QED BY <1>2, <1>3, <1>5, <1>6 DEF Lists

\* The entries of a list.
Linked(q) == {q[i] : i \in DOMAIN q}

LEMMA LinkedLists ==
  ASSUME NEW S, NEW q, Lists(q, S)
  PROVE  Linked(q) = S
<1>1. DOMAIN q = 1 .. Len(q) /\ \A i \in DOMAIN q : q[i] \in S
  BY DEF Lists
<1> QED BY <1>1 DEF Lists, Linked

LEMMA LinkedAddTail ==
  ASSUME NEW q, Lists(q, Linked(q)), NEW p, p \notin Linked(q)
  PROVE  /\ Linked(Append(q, p)) = Linked(q) \cup {p}
         /\ Lists(Append(q, p), Linked(Append(q, p)))
<1> DEFINE a == Append(q, p)
<1>1. Lists(a, Linked(q) \cup {p})
  BY ListAddTail
<1> HIDE DEF a
<1>2. Linked(a) = Linked(q) \cup {p}
  BY <1>1, LinkedLists
<1>3. Lists(a, Linked(a))
  BY <1>1, <1>2
<1> QED BY <1>2, <1>3 DEF a

LEMMA LinkedDelFirst ==
  ASSUME NEW q, Lists(q, Linked(q)), q # << >>
  PROVE  /\ Head(q) \in Linked(q) /\ Linked(Tail(q)) = Linked(q) \ {Head(q)}
         /\ Lists(Tail(q), Linked(Tail(q)))
<1> DEFINE t == Tail(q)
<1>1. Head(q) \in Linked(q) /\ Lists(t, Linked(q) \ {Head(q)})
  BY ListDelFirst
<1> HIDE DEF t
<1>2. Linked(t) = Linked(q) \ {Head(q)}
  BY <1>1, LinkedLists
<1>3. Lists(t, Linked(t))
  BY <1>1, <1>2
<1> QED BY <1>1, <1>2, <1>3 DEF t

=============================================================================
