------------------------------ MODULE Sums_proofs ------------------------------
(***************************************************************************)
(* What the sum of the values of a function over a finite set is: the      *)
(* community module folds a recursive function, one chosen element at a    *)
(* time, and the order of the choice does not matter.  With it, the least  *)
(* element of a finite set of integers and division rounded down.          *)
(*                                                                         *)
(* Induction is over a set of numbers or of sets instead of a predicate.   *)
(***************************************************************************)
EXTENDS Integers, FiniteSets, FiniteSetsExt, FiniteSetTheorems, WellFoundedInduction, TLAPS

\* A set of numbers that holds 0 and the successor of each of its members holds all.
LEMMA NatSetInduction ==
  ASSUME NEW A, 0 \in A, \A n \in Nat : n \in A => n + 1 \in A
  PROVE  Nat \subseteq A
<1> SUFFICES ASSUME Nat \ A # {} PROVE FALSE
  OBVIOUS
<1>1. PICK x \in Nat \ A : \A y \in Nat \ A : ~(<<y, x>> \in OpToRel(<, Nat))
  BY NatLessThanWellFounded, WFMin, Nat \ A \subseteq Nat
<1>2. \A y \in Nat : y < x => <<y, x>> \in OpToRel(<, Nat)
  BY DEF OpToRel
<1>3. x # 0 /\ x - 1 \in Nat /\ x - 1 < x
  OBVIOUS
<1>4. x - 1 \in A
  BY <1>1, <1>2, <1>3
<1> QED BY <1>3, <1>4

\* A set that holds a subset of S as soon as it holds it less any one element holds
\* all the subsets of S.
LEMMA SubsetInduction ==
  ASSUME NEW S, IsFiniteSet(S), NEW A,
         \A s \in SUBSET S : (\A x \in s : s \ {x} \in A) => s \in A
  PROVE  SUBSET S \subseteq A
<1> DEFINE B == { n \in Nat : \A s \in SUBSET S : Cardinality(s) = n => s \in A }
<1>0. ASSUME NEW s \in SUBSET S PROVE IsFiniteSet(s) /\ Cardinality(s) \in Nat
  BY <1>0, FS_Subset, FS_CardinalityType
<1>1. 0 \in B
  BY <1>0, FS_EmptySet
<1>2. ASSUME NEW n \in Nat, n \in B PROVE n + 1 \in B
  <2>1. ASSUME NEW s \in SUBSET S, Cardinality(s) = n + 1, NEW x \in s PROVE s \ {x} \in A
    <3>1. Cardinality(s \ {x}) = n
      BY <1>0, <2>1, FS_RemoveElement
    <3> QED BY <1>2, <3>1
  <2> QED BY <2>1
<1>3. Nat \subseteq B
  <2> HIDE DEF B
  <2> QED BY <1>1, <1>2, NatSetInduction
<1> QED BY <1>0, <1>3

Chosen(s) == CHOOSE x \in s : TRUE

\* g adds up f over every set of D, one chosen element at a time.
AddsUp(g, f, D) ==
  g = [s \in D |-> IF s = {} THEN 0 ELSE f[Chosen(s)] + g[s \ {Chosen(s)}]]

\* The subsets of S of at most n elements.
Below(S, n) == { s \in SUBSET S : Cardinality(s) <= n }

\* Taking the chosen element away leaves one element less.
LEMMA ChosenRemoved ==
  ASSUME NEW s, IsFiniteSet(s), s # {}
  PROVE  /\ Chosen(s) \in s /\ s \ {Chosen(s)} \subseteq s /\ IsFiniteSet(s \ {Chosen(s)})
         /\ Cardinality(s) \in Nat /\ Cardinality(s) > 0
         /\ Cardinality(s \ {Chosen(s)}) = Cardinality(s) - 1
<1>1. Chosen(s) \in s
  BY DEF Chosen
<1>2. Cardinality(s) \in Nat /\ Cardinality(s) # 0
  BY FS_CardinalityType, FS_EmptySet
<1> QED BY <1>1, <1>2, FS_RemoveElement

\* The recursive definition of the sum has a solution on the subsets of a finite set.
LEMMA AddsUpExists ==
  ASSUME NEW f, NEW S, IsFiniteSet(S)
  PROVE  \E g : AddsUp(g, f, SUBSET S)
<1> DEFINE A == { n \in Nat : \E g : AddsUp(g, f, Below(S, n)) }
<1>0. ASSUME NEW s \in SUBSET S PROVE IsFiniteSet(s) /\ Cardinality(s) \in Nat
  BY <1>0, FS_Subset, FS_CardinalityType
<1>1. 0 \in A
  <2>1. \A s \in Below(S, 0) : s = {}
    BY <1>0, FS_EmptySet DEF Below
  <2> DEFINE g == [s \in Below(S, 0) |-> 0]
  <2>2. AddsUp(g, f, Below(S, 0))
    BY <2>1 DEF AddsUp
  <2> QED BY <2>2
<1>2. ASSUME NEW n \in Nat, n \in A PROVE n + 1 \in A
  <2>1. PICK g : AddsUp(g, f, Below(S, n))
    BY <1>2
  <2> DEFINE h == [s \in Below(S, n + 1) |->
                     IF s = {} THEN 0 ELSE f[Chosen(s)] + g[s \ {Chosen(s)}]]
  <2>2. Below(S, n) \subseteq Below(S, n + 1)
    BY <1>0 DEF Below
  <2>3. ASSUME NEW s \in Below(S, n + 1), s # {} PROVE s \ {Chosen(s)} \in Below(S, n)
    BY <1>0, <2>3, ChosenRemoved DEF Below
  <2>4. ASSUME NEW s \in Below(S, n) PROVE h[s] = g[s]
    BY <2>1, <2>2 DEF AddsUp
  <2>5. AddsUp(h, f, Below(S, n + 1))
    BY <2>3, <2>4 DEF AddsUp
  <2> QED BY <2>5
<1>3. Cardinality(S) \in A
  <2> HIDE DEF A
  <2> QED BY <1>1, <1>2, NatSetInduction, FS_CardinalityType
<1>4. Below(S, Cardinality(S)) = SUBSET S
  BY <1>0, FS_Subset DEF Below
<1> QED BY <1>3, <1>4

\* Two solutions agree on the subsets both are defined on.
LEMMA AddsUpUnique ==
  ASSUME NEW f, NEW g, NEW h, NEW S, NEW T, IsFiniteSet(S), T \subseteq S,
         AddsUp(g, f, SUBSET S), AddsUp(h, f, SUBSET T)
  PROVE  g[T] = h[T]
<1> DEFINE A == { s \in SUBSET T : g[s] = h[s] }
<1>1. IsFiniteSet(T)
  BY FS_Subset
<1>2. ASSUME NEW s \in SUBSET T, \A x \in s : s \ {x} \in A PROVE s \in A
  <2>1. CASE s = {}
    BY <2>1 DEF AddsUp
  <2>2. CASE s # {}
    <3>1. Chosen(s) \in s
      BY <2>2 DEF Chosen
    <3>2. g[s \ {Chosen(s)}] = h[s \ {Chosen(s)}]
      BY <1>2, <3>1
    <3>3. s \in SUBSET S
      OBVIOUS
    <3>4. g[s] = f[Chosen(s)] + g[s \ {Chosen(s)}]
      BY <2>2, <3>3 DEF AddsUp
    <3>5. h[s] = f[Chosen(s)] + h[s \ {Chosen(s)}]
      BY <2>2 DEF AddsUp
    <3> QED BY <3>2, <3>4, <3>5
  <2> QED BY <2>1, <2>2
<1>3. SUBSET T \subseteq A
  <2> HIDE DEF A
  <2> QED BY <1>1, <1>2, SubsetInduction
<1> QED BY <1>3

\* The sum is the value of such a solution.
LEMMA SumIs ==
  ASSUME NEW f, NEW S, IsFiniteSet(S)
  PROVE  \E g : AddsUp(g, f, SUBSET S) /\ SumFunctionOnSet(f, S) = g[S]
<1> DEFINE It(g) == g = [s \in SUBSET S |-> IF s = {} THEN 0 ELSE f[Chosen(s)] + g[s \ {Chosen(s)}]]
<1>1. PICK g : AddsUp(g, f, SUBSET S)
  BY AddsUpExists
<1>2. It(g)
  BY <1>1 DEF AddsUp
<1>3. It(CHOOSE h : It(h))
  BY <1>2
<1>4. SumFunctionOnSet(f, S) = (CHOOSE h : It(h))[S]
  BY DEF SumFunctionOnSet, FoldFunctionOnSet, MapThenFoldSet, Chosen
<1> QED BY <1>3, <1>4 DEF AddsUp

\* Nothing adds up to 0.
LEMMA SumEmpty ==
  ASSUME NEW f
  PROVE  SumFunctionOnSet(f, {}) = 0
<1>1. PICK g : AddsUp(g, f, SUBSET {}) /\ SumFunctionOnSet(f, {}) = g[{}]
  BY SumIs, FS_EmptySet
<1> QED BY <1>1 DEF AddsUp

\* One step of the sum, at the chosen element.
LEMMA SumChosen ==
  ASSUME NEW f, NEW S, IsFiniteSet(S), S # {}
  PROVE  SumFunctionOnSet(f, S) = f[Chosen(S)] + SumFunctionOnSet(f, S \ {Chosen(S)})
<1>1. PICK T \in SUBSET S : T = S \ {Chosen(S)}
  OBVIOUS
<1>2. PICK g : AddsUp(g, f, SUBSET S) /\ SumFunctionOnSet(f, S) = g[S]
  BY SumIs
<1>3. IsFiniteSet(T)
  BY FS_Subset
<1>4. PICK h : AddsUp(h, f, SUBSET T) /\ SumFunctionOnSet(f, T) = h[T]
  BY <1>3, SumIs
<1>5. g[T] = h[T]
  BY <1>2, <1>4, AddsUpUnique
<1>6. g[S] = f[Chosen(S)] + g[T]
  BY <1>1, <1>2 DEF AddsUp
<1> QED BY <1>1, <1>2, <1>4, <1>5, <1>6

\* The sum of integers is an integer, of naturals a natural.
LEMMA SumType ==
  ASSUME NEW f, NEW S, IsFiniteSet(S), \A x \in S : f[x] \in Int
  PROVE  /\ SumFunctionOnSet(f, S) \in Int
         /\ (\A x \in S : f[x] \in Nat) => SumFunctionOnSet(f, S) \in Nat
<1> DEFINE A == { s \in SUBSET S : /\ SumFunctionOnSet(f, s) \in Int
                                   /\ (\A x \in s : f[x] \in Nat) => SumFunctionOnSet(f, s) \in Nat }
<1>1. ASSUME NEW s \in SUBSET S, \A x \in s : s \ {x} \in A PROVE s \in A
  <2>1. CASE s = {}
    BY <2>1, SumEmpty
  <2>2. CASE s # {}
    <3>1. Chosen(s) \in s /\ IsFiniteSet(s)
      BY <2>2, FS_Subset DEF Chosen
    <3>2. s \ {Chosen(s)} \in A /\ f[Chosen(s)] \in Int
      BY <1>1, <3>1
    <3>3. SumFunctionOnSet(f, s) = f[Chosen(s)] + SumFunctionOnSet(f, s \ {Chosen(s)})
      BY <2>2, <3>1, SumChosen
    <3> QED BY <3>1, <3>2, <3>3
  <2> QED BY <2>1, <2>2
<1>2. SUBSET S \subseteq A
  <2> HIDE DEF A
  <2> QED BY <1>1, SubsetInduction
<1> QED BY <1>2

\* Any element can be the first that is added: the order of the sum does not matter.
LEMMA SumRemove ==
  ASSUME NEW f, NEW S, IsFiniteSet(S), \A x \in S : f[x] \in Int, NEW a \in S
  PROVE  SumFunctionOnSet(f, S) = f[a] + SumFunctionOnSet(f, S \ {a})
<1> DEFINE A == { s \in SUBSET S : \A x \in s :
                    SumFunctionOnSet(f, s) = f[x] + SumFunctionOnSet(f, s \ {x}) }
<1>1. ASSUME NEW s \in SUBSET S, \A x \in s : s \ {x} \in A, NEW x \in s
      PROVE  SumFunctionOnSet(f, s) = f[x] + SumFunctionOnSet(f, s \ {x})
  <2>1. PICK p \in s : p = Chosen(s)
    BY DEF Chosen
  <2>2. IsFiniteSet(s) /\ IsFiniteSet(s \ {x}) /\ IsFiniteSet((s \ {x}) \ {p})
    BY FS_Subset
  <2>3. SumFunctionOnSet(f, s) = f[p] + SumFunctionOnSet(f, s \ {p})
    BY <2>1, <2>2, SumChosen
  <2>4. CASE x = p
    BY <2>3, <2>4
  <2>5. CASE x # p
    <3>1. SumFunctionOnSet(f, s \ {p}) = f[x] + SumFunctionOnSet(f, (s \ {p}) \ {x})
      BY <1>1, <2>5
    <3>2. SumFunctionOnSet(f, s \ {x}) = f[p] + SumFunctionOnSet(f, (s \ {x}) \ {p})
      BY <1>1, <2>5
    <3>3. (s \ {p}) \ {x} = (s \ {x}) \ {p}
      OBVIOUS
    <3>4. SumFunctionOnSet(f, (s \ {x}) \ {p}) \in Int /\ f[x] \in Int /\ f[p] \in Int
      BY <2>2, SumType
    <3>5. SumFunctionOnSet(f, s \ {p}) = f[x] + SumFunctionOnSet(f, (s \ {x}) \ {p})
      BY <3>1, <3>3
    <3> HIDE DEF A
    <3> QED BY <2>3, <3>2, <3>4, <3>5
  <2> QED BY <2>4, <2>5
<1>2. \A s \in SUBSET S : (\A x \in s : s \ {x} \in A) => s \in A
  BY <1>1
<1>3. SUBSET S \subseteq A
  <2> HIDE DEF A
  <2> QED BY <1>2, SubsetInduction
<1> QED BY <1>3

\* Adding an element adds its value.
LEMMA SumAdd ==
  ASSUME NEW f, NEW S, IsFiniteSet(S), NEW a, a \notin S, \A x \in S \cup {a} : f[x] \in Int
  PROVE  SumFunctionOnSet(f, S \cup {a}) = f[a] + SumFunctionOnSet(f, S)
<1>1. IsFiniteSet(S \cup {a}) /\ (S \cup {a}) \ {a} = S
  BY FS_AddElement
<1> QED BY <1>1, SumRemove

\* Sums compare as their terms do.
LEMMA SumMono ==
  ASSUME NEW f, NEW g, NEW S, IsFiniteSet(S),
         \A x \in S : f[x] \in Int /\ g[x] \in Int /\ f[x] <= g[x]
  PROVE  SumFunctionOnSet(f, S) <= SumFunctionOnSet(g, S)
<1> DEFINE A == { s \in SUBSET S : SumFunctionOnSet(f, s) <= SumFunctionOnSet(g, s) }
<1>1. ASSUME NEW s \in SUBSET S, \A x \in s : s \ {x} \in A PROVE s \in A
  <2>1. CASE s = {}
    BY <2>1, SumEmpty
  <2>2. ASSUME NEW x \in s PROVE s \in A
    <3>1. IsFiniteSet(s) /\ IsFiniteSet(s \ {x})
      BY FS_Subset
    <3>2. /\ SumFunctionOnSet(f, s) = f[x] + SumFunctionOnSet(f, s \ {x})
          /\ SumFunctionOnSet(g, s) = g[x] + SumFunctionOnSet(g, s \ {x})
      BY <3>1, SumRemove
    <3>3. /\ SumFunctionOnSet(f, s \ {x}) \in Int /\ SumFunctionOnSet(g, s \ {x}) \in Int
          /\ f[x] \in Int /\ g[x] \in Int /\ f[x] <= g[x]
      BY <3>1, SumType
    <3>4. SumFunctionOnSet(f, s \ {x}) <= SumFunctionOnSet(g, s \ {x})
      BY <1>1
    <3> QED BY <3>2, <3>3, <3>4
  <2> QED BY <2>1, <2>2
<1>2. SUBSET S \subseteq A
  <2> HIDE DEF A
  <2> QED BY <1>1, SubsetInduction
<1> QED BY <1>2

\* Functions that agree on a set have the same sum over it.
LEMMA SumSame ==
  ASSUME NEW f, NEW g, NEW S, IsFiniteSet(S), \A x \in S : f[x] \in Int /\ g[x] = f[x]
  PROVE  SumFunctionOnSet(f, S) = SumFunctionOnSet(g, S)
<1>1. /\ SumFunctionOnSet(f, S) <= SumFunctionOnSet(g, S)
      /\ SumFunctionOnSet(g, S) <= SumFunctionOnSet(f, S)
  BY SumMono
<1>2. SumFunctionOnSet(f, S) \in Int /\ SumFunctionOnSet(g, S) \in Int
  BY SumType
<1> QED BY <1>1, <1>2

\* A part of a sum of naturals is no more than the whole.
LEMMA SumPart ==
  ASSUME NEW f, NEW S, IsFiniteSet(S), \A x \in S : f[x] \in Nat, NEW T \in SUBSET S
  PROVE  SumFunctionOnSet(f, T) <= SumFunctionOnSet(f, S)
<1> DEFINE A == { s \in SUBSET S : SumFunctionOnSet(f, s \cap T) <= SumFunctionOnSet(f, s) }
<1>1. ASSUME NEW s \in SUBSET S, \A x \in s : s \ {x} \in A PROVE s \in A
  <2>1. CASE s = {}
    BY <2>1, SumEmpty
  <2>2. ASSUME NEW x \in s PROVE s \in A
    <3>1. IsFiniteSet(s) /\ IsFiniteSet(s \ {x}) /\ IsFiniteSet(s \cap T) /\ IsFiniteSet((s \ {x}) \cap T)
      BY FS_Subset
    <3>2. SumFunctionOnSet(f, s) = f[x] + SumFunctionOnSet(f, s \ {x})
      BY <3>1, SumRemove
    <3>3. SumFunctionOnSet(f, (s \ {x}) \cap T) <= SumFunctionOnSet(f, s \ {x})
      BY <1>1
    <3>4. /\ SumFunctionOnSet(f, s \ {x}) \in Int /\ SumFunctionOnSet(f, (s \ {x}) \cap T) \in Int
          /\ f[x] \in Nat
      BY <3>1, SumType
    <3>5. CASE x \in T
      <4>1. x \in s \cap T /\ (s \cap T) \ {x} = (s \ {x}) \cap T
        BY <3>5
      <4>2. SumFunctionOnSet(f, s \cap T) = f[x] + SumFunctionOnSet(f, (s \ {x}) \cap T)
        BY <3>1, <4>1, SumRemove
      <4> QED BY <3>2, <3>3, <3>4, <4>2
    <3>6. CASE x \notin T
      <4>1. s \cap T = (s \ {x}) \cap T
        BY <3>6
      <4>2. SumFunctionOnSet(f, s \cap T) <= SumFunctionOnSet(f, s \ {x})
        BY <3>3, <4>1
      <4>3. SumFunctionOnSet(f, s \cap T) \in Int
        BY <3>4, <4>1
      <4>4. SumFunctionOnSet(f, s \cap T) <= SumFunctionOnSet(f, s)
        <5> HIDE DEF A
        <5> QED BY <3>2, <3>4, <4>2, <4>3
      <4> QED BY <4>4
    <3> QED BY <3>5, <3>6
  <2> QED BY <2>1, <2>2
<1>2. SUBSET S \subseteq A
  <2> HIDE DEF A
  <2> QED BY <1>1, SubsetInduction
<1>3. S \in A /\ S \cap T = T
  BY <1>2
<1> QED BY <1>3

\* Terms that are 0 can be left out of a sum.
LEMMA SumPadded ==
  ASSUME NEW f, NEW g, NEW S, IsFiniteSet(S), NEW T \in SUBSET S,
         \A x \in T : g[x] \in Int,
         \A x \in S : f[x] = IF x \in T THEN g[x] ELSE 0
  PROVE  SumFunctionOnSet(f, S) = SumFunctionOnSet(g, T)
<1> DEFINE A == { s \in SUBSET S : SumFunctionOnSet(f, s) = SumFunctionOnSet(g, s \cap T) }
<1>1. ASSUME NEW s \in SUBSET S, \A x \in s : s \ {x} \in A PROVE s \in A
  <2>1. CASE s = {}
    BY <2>1, SumEmpty
  <2>2. ASSUME NEW x \in s PROVE s \in A
    <3>1. IsFiniteSet(s) /\ IsFiniteSet(s \ {x}) /\ IsFiniteSet(s \cap T) /\ IsFiniteSet((s \ {x}) \cap T)
      BY FS_Subset
    <3>2. SumFunctionOnSet(f, s) = f[x] + SumFunctionOnSet(f, s \ {x})
      BY <3>1, SumRemove
    <3>3. /\ SumFunctionOnSet(f, s \ {x}) = SumFunctionOnSet(g, (s \ {x}) \cap T)
          /\ SumFunctionOnSet(g, (s \ {x}) \cap T) \in Int
      BY <1>1, <3>1, SumType
    <3>4. CASE x \in T
      <4>1. x \in s \cap T /\ (s \cap T) \ {x} = (s \ {x}) \cap T
        BY <3>4
      <4>2. SumFunctionOnSet(g, s \cap T) = g[x] + SumFunctionOnSet(g, (s \ {x}) \cap T)
        BY <3>1, <4>1, SumRemove
      <4> QED BY <3>2, <3>3, <3>4, <4>2
    <3>5. CASE x \notin T
      <4>1. s \cap T = (s \ {x}) \cap T /\ f[x] = 0
        BY <3>5
      <4>2. SumFunctionOnSet(f, s) = SumFunctionOnSet(g, (s \ {x}) \cap T)
        BY <3>2, <3>3, <4>1
      <4> QED BY <4>1, <4>2
    <3> QED BY <3>4, <3>5
  <2> QED BY <2>1, <2>2
<1>2. SUBSET S \subseteq A
  <2> HIDE DEF A
  <2> QED BY <1>1, SubsetInduction
<1>3. S \in A /\ S \cap T = T
  BY <1>2
<1> QED BY <1>3

\* A sum of which one term changes.
LEMMA SumChange ==
  ASSUME NEW f, NEW g, NEW S, IsFiniteSet(S), NEW a \in S,
         \A x \in S : f[x] \in Int /\ g[x] \in Int,
         \A x \in S \ {a} : g[x] = f[x]
  PROVE  SumFunctionOnSet(g, S) = (SumFunctionOnSet(f, S) + g[a]) - f[a]
<1>1. IsFiniteSet(S \ {a})
  BY FS_Subset
<1>2. SumFunctionOnSet(f, S \ {a}) = SumFunctionOnSet(g, S \ {a})
  BY <1>1, SumSame
<1>3. /\ SumFunctionOnSet(f, S) = f[a] + SumFunctionOnSet(f, S \ {a})
      /\ SumFunctionOnSet(g, S) = g[a] + SumFunctionOnSet(g, S \ {a})
  BY SumRemove
<1>4. SumFunctionOnSet(f, S \ {a}) \in Int
  BY <1>1, SumType
<1> QED BY <1>2, <1>3, <1>4

-----------------------------------------------------------------------------
\* Min is the least element of a finite set of integers.
LEMMA MinIs ==
  ASSUME NEW S, IsFiniteSet(S), S # {}, S \subseteq Int
  PROVE  Min(S) \in S /\ \A y \in S : Min(S) <= y
<1> DEFINE A == { s \in SUBSET S : s = {} \/ \E x \in s : \A y \in s : x <= y }
<1>1. ASSUME NEW s \in SUBSET S, \A x \in s : s \ {x} \in A, NEW a \in s
      PROVE  \E x \in s : \A y \in s : x <= y
  <2>1. CASE s \ {a} = {}
    BY <2>1
  <2>2. CASE s \ {a} # {}
    <3>1. PICK x \in s \ {a} : \A y \in s \ {a} : x <= y
      BY <1>1, <2>2
    <3>2. CASE x <= a
      BY <3>1, <3>2
    <3>3. CASE a <= x
      BY <3>1, <3>3
    <3> QED BY <3>2, <3>3
  <2> QED BY <2>1, <2>2
<1>2. \A s \in SUBSET S : (\A x \in s : s \ {x} \in A) => s \in A
  BY <1>1
<1>3. SUBSET S \subseteq A
  <2> HIDE DEF A
  <2> QED BY <1>2, SubsetInduction
<1>4. \E x \in S : \A y \in S : x <= y
  BY <1>3
<1> QED BY <1>4 DEF Min

\* Max of one number.
LEMMA MaxOfOne ==
  ASSUME NEW d \in Int
  PROVE  Max({d}) = d
BY DEF Max

\* Products compare as their first factors do.
LEMMA ProductMono ==
  ASSUME NEW b \in Nat, NEW k \in Int, NEW q \in Int, k <= q
  PROVE  k * b <= q * b
BY (q - k) * b >= 0

\* Division rounds down.
LEMMA DivisionIs ==
  ASSUME NEW a \in Int, NEW b \in Nat \ {0}
  PROVE  a \div b \in Int /\ (a \div b) * b <= a /\ a < (a \div b) * b + b
OBVIOUS

\* What is left is the rest.
LEMMA RestIs ==
  ASSUME NEW a \in Int, NEW b \in Nat \ {0}
  PROVE  a = (a \div b) * b + (a % b)
OBVIOUS

\* So many times b fit into a: the quotient bounds exactly the factors that fit.
LEMMA QuotientFits ==
  ASSUME NEW a \in Int, NEW b \in Nat \ {0}, NEW k \in Int
  PROVE  k <= a \div b <=> k * b <= a
<1>1. PICK q \in Int : q = a \div b /\ q * b <= a /\ a < q * b + b
  BY DivisionIs
<1>2. CASE k <= q
  <2>1. k * b <= q * b
    BY ProductMono, <1>2
  <2> QED BY <1>1, <1>2, <2>1
<1>3. CASE q + 1 <= k
  <2>1. (q + 1) * b <= k * b
    BY ProductMono, <1>3
  <2>2. (q + 1) * b = q * b + b
    OBVIOUS
  <2> QED BY <1>1, <1>3, <2>1, <2>2
<1> QED BY <1>2, <1>3

=============================================================================
