----------------------------- MODULE SumTheorems -----------------------------
(***************************************************************************)
(* Induction over finite sets and over the naturals, and what it gives for *)
(* the sums that the components are built with.  To use an induction, put  *)
(* the arguments that satisfy the claim into a set: the statement needs no *)
(* predicate as a parameter then.                                          *)
(***************************************************************************)
EXTENDS Functions, FiniteSetTheorems, TLAPS

-----------------------------------------------------------------------------
(* Induction.                                                              *)

\* A set of subsets of S that contains a subset as soon as it contains all
\* the smaller ones, contains S.
LEMMA SubsetInduction ==
    ASSUME NEW S, IsFiniteSet(S), NEW G,
           \A T \in SUBSET S : (\A U \in SUBSET T : U # T => U \in G) => T \in G
    PROVE  S \in G
<1> DEFINE Bad == {T \in SUBSET S : T \notin G}
<1>1. SUFFICES ASSUME Bad # {} PROVE FALSE
  OBVIOUS
<1>2. Bad \subseteq FiniteSubsetsOf(S)
  BY FS_Subset DEF FiniteSubsetsOf
<1>3. PICK T \in Bad : \A U \in Bad : <<U, T>> \notin StrictSubsetOrdering(S)
  <2> HIDE DEF Bad
  <2> QED
    BY <1>1, <1>2, FS_StrictSubsetOrderingWellFounded, WFMin
<1>4. ASSUME NEW U \in SUBSET T, U # T PROVE U \in G
  <2>1. <<U, T>> \in StrictSubsetOrdering(S)
    BY <1>4 DEF StrictSubsetOrdering
  <2> QED
    BY <1>3, <2>1
<1> QED
  BY <1>3, <1>4

\* The same, one element at a time.
LEMMA ElementInduction ==
    ASSUME NEW S, IsFiniteSet(S), NEW G, {} \in G,
           \A T \in SUBSET S : \A x \in T : T \ {x} \in G => T \in G
    PROVE  S \in G
<1>1. ASSUME NEW T \in SUBSET S, \A U \in SUBSET T : U # T => U \in G
      PROVE  T \in G
  <2>1. CASE T = {}
    BY <2>1
  <2>2. CASE T # {}
    <3>1. PICK x \in T : TRUE
      BY <2>2
    <3>2. T \ {x} \in G
      BY <1>1, <3>1
    <3> QED
      BY <3>2
  <2> QED
    BY <2>1, <2>2
<1> QED
  BY <1>1, SubsetInduction

\* A finite set of integers has a greatest element.
LEMMA Greatest ==
    ASSUME NEW S \in SUBSET Int, IsFiniteSet(S), S # {}
    PROVE  \E x \in S : \A y \in S : y <= x
<1> DEFINE G == {T \in SUBSET S : T # {} => \E x \in T : \A y \in T : y <= x}
<1>1. {} \in G
  OBVIOUS
<1>2. ASSUME NEW T \in SUBSET S, NEW x \in T, T \ {x} \in G PROVE T \in G
  <2>1. CASE T \ {x} = {}
    BY <2>1
  <2>2. CASE T \ {x} # {}
    <3>1. PICK m \in T \ {x} : \A y \in T \ {x} : y <= m
      BY <1>2, <2>2
    <3>2. CASE x <= m
      BY <3>1, <3>2
    <3>3. CASE ~(x <= m)
      <4>1. m <= x /\ m \in Int /\ x \in Int
        BY <3>3
      <4>2. \A y \in T : y <= x
        BY <3>1, <4>1
      <4> QED
        BY <4>2
    <3> QED
      BY <3>2, <3>3
  <2> QED
    BY <2>1, <2>2
<1> HIDE DEF G
<1>3. S \in G
  BY <1>1, <1>2, ElementInduction
<1> QED
  BY <1>3 DEF G

\* A set of naturals with 0 in it and with every successor has them all.
LEMMA NaturalInduction ==
    ASSUME NEW G, 0 \in G, \A n \in Nat : n \in G => n + 1 \in G
    PROVE  Nat \subseteq G
<1>1. SUFFICES ASSUME Nat \ G # {} PROVE FALSE
  OBVIOUS
<1>2. IsWellFoundedOn(OpToRel(<, Nat), Nat)
  BY NatLessThanWellFounded, Zenon
<1>3. PICK n \in Nat \ G : \A m \in Nat \ G : <<m, n>> \notin OpToRel(<, Nat)
  BY <1>1, <1>2, WFMin, Zenon
<1>4. \A m \in Nat \ G : ~(m < n)
  BY <1>3 DEF OpToRel
<1>5. n # 0 /\ n - 1 \in Nat
  OBVIOUS
<1>6. n - 1 \in G
  BY <1>4, <1>5
<1> QED
  BY <1>5, <1>6

-----------------------------------------------------------------------------
(* The sum of a function over a set: SumFunctionOnSet takes one element    *)
(* after the other, as CHOOSE happens to pick them.                        *)

First(S) == CHOOSE x \in S : TRUE
Sums(f, D, g) ==
    g = [S \in D |-> IF S = {} THEN 0 ELSE f[First(S)] + g[S \ {First(S)}]]

\* The fold of Functions, spelled out.
LEMMA SumIs ==
    ASSUME NEW f, NEW S
    PROVE  SumFunctionOnSet(f, S) = (CHOOSE g : Sums(f, SUBSET S, g))[S]
BY DEF SumFunctionOnSet, FoldFunctionOnSet, MapThenFoldSet, Sums, First

\* The sums exist, for sets of any finite size.
LEMMA SumsExist ==
    ASSUME NEW f, NEW S, IsFiniteSet(S)
    PROVE  \E g : Sums(f, SUBSET S, g)
<1> DEFINE Small(n) == {T \in SUBSET S : Cardinality(T) <= n}
           G == {n \in Nat : \E g : Sums(f, Small(n), g)}
<1>1. \A T \in SUBSET S : IsFiniteSet(T) /\ Cardinality(T) \in Nat /\ Cardinality(T) <= Cardinality(S)
  BY FS_Subset, FS_CardinalityType
<1>2. 0 \in G
  <2>1. Small(0) = {{}}
    BY <1>1, FS_EmptySet
  <2>2. [T \in {{}} |-> 0] = [T \in {{}} |-> IF T = {} THEN 0
            ELSE f[First(T)] + [U \in {{}} |-> 0][T \ {First(T)}]]
    OBVIOUS
  <2>3. Sums(f, {{}}, [T \in {{}} |-> 0])
    BY <2>2 DEF Sums
  <2> QED
    BY <2>1, <2>3
<1>3. ASSUME NEW n \in Nat, n \in G PROVE n + 1 \in G
  <2>1. PICK g : Sums(f, Small(n), g)
    BY <1>3
  <2> DEFINE h == [T \in Small(n + 1) |-> IF T = {} THEN 0
                                          ELSE f[First(T)] + g[T \ {First(T)}]]
  <2>2. ASSUME NEW T \in Small(n + 1), T # {} PROVE T \ {First(T)} \in Small(n)
    <3>1. First(T) \in T
      BY <2>2 DEF First
    <3>2. Cardinality(T \ {First(T)}) = Cardinality(T) - 1 /\ Cardinality(T) \in Nat
      BY <1>1, <3>1, FS_RemoveElement
    <3>3. T \ {First(T)} \in SUBSET S /\ Cardinality(T) <= n + 1
      OBVIOUS
    <3> QED
      BY <3>2, <3>3
  <2>3. \A T \in Small(n) : T \in Small(n + 1)
    BY <1>1
  <2>4. \A T \in Small(n) : h[T] = g[T]
    <3> HIDE DEF Small
    <3> QED
      BY <2>1, <2>3 DEF Sums
  <2> HIDE DEF Small
  <2>5. h = [T \in Small(n + 1) |-> IF T = {} THEN 0 ELSE f[First(T)] + h[T \ {First(T)}]]
    BY <2>2, <2>4
  <2>6. Sums(f, Small(n + 1), h)
    BY <2>5 DEF Sums
  <2> QED
    BY <2>6
<1>4. Nat \subseteq G
  <2> HIDE DEF G
  <2> QED
    BY <1>2, <1>3, NaturalInduction
<1>5. Small(Cardinality(S)) = SUBSET S
  BY <1>1
<1>6. Cardinality(S) \in Nat
  BY <1>1
<1> HIDE DEF Small
<1> QED
  BY <1>4, <1>5, <1>6

\* The sum over a smaller set is among the sums over a larger one.
LEMMA SumsAgree ==
    ASSUME NEW f, NEW S, IsFiniteSet(S), NEW T \in SUBSET S, NEW g, NEW h,
           Sums(f, SUBSET S, g), Sums(f, SUBSET T, h)
    PROVE  g[T] = h[T]
<1> DEFINE G == {U \in SUBSET T : g[U] = h[U]}
<1>1. IsFiniteSet(T)
  BY FS_Subset
<1>2. ASSUME NEW U \in SUBSET T, \A V \in SUBSET U : V # U => V \in G
      PROVE  U \in G
  <2>1. CASE U = {}
    BY <2>1 DEF Sums
  <2>2. CASE U # {}
    <3>1. First(U) \in U
      BY <2>2 DEF First
    <3>2. g[U \ {First(U)}] = h[U \ {First(U)}]
      BY <1>2, <3>1
    <3> QED
      BY <2>2, <3>2 DEF Sums
  <2> QED
    BY <2>1, <2>2
<1> HIDE DEF G
<1>3. T \in G
  BY <1>1, <1>2, SubsetInduction
<1> QED
  BY <1>3 DEF G

\* No terms.
LEMMA SumEmpty == ASSUME NEW f PROVE SumFunctionOnSet(f, {}) = 0
<1>1. PICK g : Sums(f, SUBSET {}, g)
  BY SumsExist, FS_EmptySet
<1>2. Sums(f, SUBSET {}, CHOOSE h : Sums(f, SUBSET {}, h))
  BY <1>1
<1> QED
  BY <1>2, SumIs DEF Sums

\* One step of the sum.
LEMMA SumFirst ==
    ASSUME NEW f, NEW S, IsFiniteSet(S), S # {}
    PROVE  /\ First(S) \in S
           /\ SumFunctionOnSet(f, S) = f[First(S)] + SumFunctionOnSet(f, S \ {First(S)})
<1> DEFINE T == S \ {First(S)}
           g == CHOOSE g : Sums(f, SUBSET S, g)
           h == CHOOSE h : Sums(f, SUBSET T, h)
<1>1. First(S) \in S
  BY DEF First
<1>2. IsFiniteSet(T)
  BY FS_Subset
<1>3. Sums(f, SUBSET S, g) /\ Sums(f, SUBSET T, h)
  BY <1>2, SumsExist
<1>4. SumFunctionOnSet(f, S) = g[S] /\ SumFunctionOnSet(f, T) = h[T]
  BY SumIs
<1> HIDE DEF g, h
<1>5. g[T] = h[T]
  BY <1>3, SumsAgree
<1>6. g[S] = f[First(S)] + g[T]
  BY <1>3 DEF Sums
<1> QED
  BY <1>1, <1>4, <1>5, <1>6

-----------------------------------------------------------------------------
(* Sums of naturals.                                                       *)

\* A sum of naturals is one.
LEMMA SumType ==
    ASSUME NEW f, NEW S, IsFiniteSet(S), \A x \in S : f[x] \in Nat
    PROVE  SumFunctionOnSet(f, S) \in Nat
<1> DEFINE G == {T \in SUBSET S : SumFunctionOnSet(f, T) \in Nat}
<1>1. ASSUME NEW T \in SUBSET S, \A U \in SUBSET T : U # T => U \in G
      PROVE  T \in G
  <2>1. CASE T = {}
    BY <2>1, SumEmpty
  <2>2. CASE T # {}
    <3>1. IsFiniteSet(T)
      BY FS_Subset
    <3>2. /\ First(T) \in T
          /\ SumFunctionOnSet(f, T) = f[First(T)] + SumFunctionOnSet(f, T \ {First(T)})
      BY <2>2, <3>1, SumFirst
    <3>3. SumFunctionOnSet(f, T \ {First(T)}) \in Nat /\ f[First(T)] \in Nat
      BY <1>1, <3>2
    <3> QED
      BY <3>2, <3>3
  <2> QED
    BY <2>1, <2>2
<1> HIDE DEF G
<1>2. S \in G
  BY <1>1, SubsetInduction
<1> QED
  BY <1>2 DEF G

\* Any element may come first.
LEMMA SumTake ==
    ASSUME NEW f, NEW S, IsFiniteSet(S), \A x \in S : f[x] \in Nat, NEW x \in S
    PROVE  SumFunctionOnSet(f, S) = f[x] + SumFunctionOnSet(f, S \ {x})
<1> DEFINE Sum(T) == SumFunctionOnSet(f, T)
           G == {T \in SUBSET S : \A y \in T : Sum(T) = f[y] + Sum(T \ {y})}
<1>1. \A T \in SUBSET S : IsFiniteSet(T)
  BY FS_Subset
<1>2. \A T \in SUBSET S : Sum(T) \in Nat
  BY <1>1, SumType
<1>3. \A T \in SUBSET S : T # {} => First(T) \in T /\ Sum(T) = f[First(T)] + Sum(T \ {First(T)})
  BY <1>1, SumFirst
<1> HIDE DEF Sum
<1>4. ASSUME NEW T \in SUBSET S, \A U \in SUBSET T : U # T => U \in G
      PROVE  T \in G
  <2>1. SUFFICES ASSUME NEW y \in T PROVE Sum(T) = f[y] + Sum(T \ {y})
    OBVIOUS
  <2> DEFINE c == First(T)
  <2>2. c \in T /\ Sum(T) = f[c] + Sum(T \ {c})
    BY <1>3, <2>1
  <2> HIDE DEF c
  <2>3. CASE y = c
    BY <2>2, <2>3
  <2>4. CASE y # c
    <3>1. Sum(T \ {c}) = f[y] + Sum((T \ {c}) \ {y})
      <4>1. T \ {c} \in G /\ y \in T \ {c}
        BY <1>4, <2>2, <2>4
      <4> QED
        BY <4>1
    <3>2. Sum(T \ {y}) = f[c] + Sum((T \ {y}) \ {c})
      <4>1. T \ {y} \in G /\ c \in T \ {y}
        BY <1>4, <2>1, <2>2, <2>4
      <4> QED
        BY <4>1
    <3>3. (T \ {c}) \ {y} = (T \ {y}) \ {c}
      OBVIOUS
    <3>4. /\ f[y] \in Nat /\ f[c] \in Nat
          /\ Sum((T \ {y}) \ {c}) \in Nat
      BY <1>2, <2>2
    <3> QED
      BY <2>2, <3>1, <3>2, <3>3, <3>4
  <2> QED
    BY <2>3, <2>4
<1> HIDE DEF G
<1>5. S \in G
  BY <1>4, SubsetInduction
<1> QED
  BY <1>5 DEF G, Sum

\* A sum grows with its terms.
LEMMA SumMonotone ==
    ASSUME NEW f, NEW g, NEW S, IsFiniteSet(S),
           \A x \in S : f[x] \in Nat /\ g[x] \in Nat /\ f[x] <= g[x]
    PROVE  SumFunctionOnSet(f, S) <= SumFunctionOnSet(g, S)
<1> DEFINE G == {T \in SUBSET S : SumFunctionOnSet(f, T) <= SumFunctionOnSet(g, T)}
<1>1. {} \in G
  BY SumEmpty
<1>2. ASSUME NEW T \in SUBSET S, NEW x \in T, T \ {x} \in G PROVE T \in G
  <2>1. IsFiniteSet(T) /\ IsFiniteSet(T \ {x})
    BY FS_Subset
  <2>2. /\ SumFunctionOnSet(f, T) = f[x] + SumFunctionOnSet(f, T \ {x})
        /\ SumFunctionOnSet(g, T) = g[x] + SumFunctionOnSet(g, T \ {x})
    BY <2>1, SumTake
  <2>3. /\ SumFunctionOnSet(f, T \ {x}) \in Nat
        /\ SumFunctionOnSet(g, T \ {x}) \in Nat
    BY <2>1, SumType
  <2>4. f[x] \in Nat /\ g[x] \in Nat /\ f[x] <= g[x]
    OBVIOUS
  <2> QED
    BY <1>2, <2>2, <2>3, <2>4
<1> HIDE DEF G
<1>3. S \in G
  BY <1>1, <1>2, ElementInduction
<1> QED
  BY <1>3 DEF G

\* Terms that are the same have the same sum.
LEMMA SumSame ==
    ASSUME NEW f, NEW g, NEW S, IsFiniteSet(S), \A x \in S : f[x] \in Nat /\ f[x] = g[x]
    PROVE  SumFunctionOnSet(f, S) = SumFunctionOnSet(g, S)
<1>1. /\ SumFunctionOnSet(f, S) <= SumFunctionOnSet(g, S)
      /\ SumFunctionOnSet(g, S) <= SumFunctionOnSet(f, S)
  BY SumMonotone
<1>2. SumFunctionOnSet(f, S) \in Nat /\ SumFunctionOnSet(g, S) \in Nat
  BY SumType
<1> QED
  BY <1>1, <1>2

\* Fewer terms have no larger sum.
LEMMA SumPart ==
    ASSUME NEW f, NEW S, IsFiniteSet(S), \A x \in S : f[x] \in Nat, NEW T \in SUBSET S
    PROVE  SumFunctionOnSet(f, T) <= SumFunctionOnSet(f, S)
<1> DEFINE Sum(U) == SumFunctionOnSet(f, U)
           G == {D \in SUBSET S : Sum(S \ D) <= Sum(S)}
<1>1. \A U \in SUBSET S : IsFiniteSet(U) /\ Sum(U) \in Nat
  BY FS_Subset, SumType
<1>2. {} \in G
  <2>1. S \ {} = S
    OBVIOUS
  <2> QED
    BY <1>1, <2>1
<1>3. ASSUME NEW D \in SUBSET S, NEW x \in D, D \ {x} \in G PROVE D \in G
  <2>1. (S \ (D \ {x})) \ {x} = S \ D /\ x \in S \ (D \ {x})
    OBVIOUS
  <2>2. Sum(S \ (D \ {x})) = f[x] + Sum(S \ D)
    BY <1>1, <2>1, SumTake
  <2>3. Sum(S \ D) \in Nat /\ Sum(S) \in Nat /\ f[x] \in Nat
    BY <1>1
  <2> HIDE DEF Sum
  <2> QED
    BY <1>3, <2>2, <2>3
<1> HIDE DEF G
<1>4. IsFiniteSet(S \ T)
  BY <1>1
<1>5. S \ T \in G
  <2> DEFINE D == S \ T
             H == {E \in SUBSET D : E \in G}
  <2>1. {} \in H /\ \A E \in SUBSET D : \A x \in E : E \ {x} \in H => E \in H
    BY <1>2, <1>3
  <2> HIDE DEF H, D
  <2>2. D \in H
    BY <1>4, <2>1, ElementInduction DEF D
  <2> QED
    BY <2>2 DEF H, D
<1>6. S \ (S \ T) = T
  OBVIOUS
<1> QED
  BY <1>5, <1>6 DEF G

\* The terms of T grow by one: the sum grows by their number.
LEMMA SumCount ==
    ASSUME NEW f, NEW g, NEW S, IsFiniteSet(S), NEW T,
           \A x \in S : f[x] \in Nat /\ g[x] = IF x \in T THEN f[x] + 1 ELSE f[x]
    PROVE  SumFunctionOnSet(g, S) = SumFunctionOnSet(f, S) + Cardinality(S \cap T)
<1> DEFINE G == {U \in SUBSET S :
                    SumFunctionOnSet(g, U) = SumFunctionOnSet(f, U) + Cardinality(U \cap T)}
<1>1. {} \in G
  <2>1. {} \cap T = {}
    OBVIOUS
  <2> QED
    BY <2>1, SumEmpty, FS_EmptySet
<1>2. ASSUME NEW U \in SUBSET S, NEW x \in U, U \ {x} \in G PROVE U \in G
  <2>1. IsFiniteSet(U) /\ IsFiniteSet(U \ {x}) /\ IsFiniteSet(U \cap T)
    BY FS_Subset
  <2>2. \A y \in U : g[y] \in Nat
    OBVIOUS
  <2>3. /\ SumFunctionOnSet(f, U) = f[x] + SumFunctionOnSet(f, U \ {x})
        /\ SumFunctionOnSet(g, U) = g[x] + SumFunctionOnSet(g, U \ {x})
    BY <2>1, <2>2, SumTake
  <2>4. SumFunctionOnSet(f, U \ {x}) \in Nat /\ f[x] \in Nat
    BY <2>1, SumType
  <2>5. (U \ {x}) \cap T = (U \cap T) \ {x}
    OBVIOUS
  <2>6. Cardinality((U \ {x}) \cap T) =
           IF x \in T THEN Cardinality(U \cap T) - 1 ELSE Cardinality(U \cap T)
    BY <2>1, <2>5, FS_RemoveElement
  <2>7. Cardinality(U \cap T) \in Nat
    BY <2>1, FS_CardinalityType
  <2>8. SumFunctionOnSet(g, U \ {x}) =
           SumFunctionOnSet(f, U \ {x}) + Cardinality((U \ {x}) \cap T)
    BY <1>2
  <2>9. g[x] = IF x \in T THEN f[x] + 1 ELSE f[x]
    OBVIOUS
  <2>10. SumFunctionOnSet(g, U) = SumFunctionOnSet(f, U) + Cardinality(U \cap T)
    BY <2>3, <2>4, <2>6, <2>7, <2>8, <2>9
  <2> QED
    BY <2>10
<1> HIDE DEF G
<1>3. S \in G
  BY <1>1, <1>2, ElementInduction
<1> QED
  BY <1>3 DEF G

\* Terms within a bound.
LEMMA SumAtMost ==
    ASSUME NEW f, NEW S, IsFiniteSet(S), NEW b \in Nat,
           \A x \in S : f[x] \in Nat /\ f[x] <= b
    PROVE  SumFunctionOnSet(f, S) <= b * Cardinality(S)
<1> DEFINE G == {T \in SUBSET S : SumFunctionOnSet(f, T) <= b * Cardinality(T)}
<1>1. {} \in G
  BY SumEmpty, FS_EmptySet
<1>2. ASSUME NEW T \in SUBSET S, NEW x \in T, T \ {x} \in G PROVE T \in G
  <2>1. IsFiniteSet(T) /\ IsFiniteSet(T \ {x})
    BY FS_Subset
  <2>2. SumFunctionOnSet(f, T) = f[x] + SumFunctionOnSet(f, T \ {x})
    BY <2>1, SumTake
  <2>3. SumFunctionOnSet(f, T \ {x}) \in Nat /\ f[x] \in Nat /\ f[x] <= b
    BY <2>1, SumType
  <2>4. Cardinality(T \ {x}) = Cardinality(T) - 1 /\ Cardinality(T) \in Nat
    BY <2>1, FS_RemoveElement, FS_CardinalityType
  <2>5. \A n \in Int : b * (n - 1) = b * n - b
    OBVIOUS
  <2>6. b * Cardinality(T \ {x}) = b * Cardinality(T) - b /\ b * Cardinality(T) \in Nat
    BY <2>4, <2>5
  <2>7. SumFunctionOnSet(f, T \ {x}) <= b * Cardinality(T \ {x})
    BY <1>2
  <2>8. SumFunctionOnSet(f, T) <= b * Cardinality(T)
    <3> DEFINE p == b * Cardinality(T)
               q == b * Cardinality(T \ {x})
    <3>1. q = p - b /\ p \in Nat /\ SumFunctionOnSet(f, T \ {x}) <= q
      BY <2>6, <2>7
    <3> HIDE DEF p, q
    <3>2. SumFunctionOnSet(f, T) <= p
      BY <2>2, <2>3, <3>1
    <3> QED
      BY <3>2 DEF p
  <2> QED
    BY <2>8
<1> HIDE DEF G
<1>3. S \in G
  BY <1>1, <1>2, ElementInduction
<1> QED
  BY <1>3 DEF G

\* A sum of nothings.
LEMMA SumZero ==
    ASSUME NEW f, NEW S, IsFiniteSet(S), \A x \in S : f[x] = 0
    PROVE  SumFunctionOnSet(f, S) = 0
<1>1. SumFunctionOnSet(f, S) <= 0 * Cardinality(S)
  BY SumAtMost
<1>2. SumFunctionOnSet(f, S) \in Nat /\ Cardinality(S) \in Nat
  BY SumType, FS_CardinalityType
<1> QED
  BY <1>1, <1>2

\* A sum of which terms go away.
LEMMA SumKeep ==
    ASSUME NEW f, NEW g, NEW S, IsFiniteSet(S), \A x \in S : f[x] \in Nat,
           NEW T \in SUBSET S, \A x \in T : g[x] = f[x]
    PROVE  /\ SumFunctionOnSet(f, S) \in Nat /\ SumFunctionOnSet(g, T) \in Nat
           /\ SumFunctionOnSet(g, T) <= SumFunctionOnSet(f, S)
<1>1. IsFiniteSet(T)
  BY FS_Subset
<1>2. SumFunctionOnSet(g, T) = SumFunctionOnSet(f, T)
  BY <1>1, SumSame
<1>3. SumFunctionOnSet(f, T) <= SumFunctionOnSet(f, S)
  BY SumPart
<1>4. SumFunctionOnSet(f, S) \in Nat /\ SumFunctionOnSet(f, T) \in Nat
  BY <1>1, SumType
<1> QED
  BY <1>2, <1>3, <1>4

\* A sum that a term is taken from.
LEMMA SumDrop ==
    ASSUME NEW f, NEW g, NEW S, IsFiniteSet(S), \A x \in S : f[x] \in Nat,
           NEW r \in S, NEW T \in SUBSET (S \ {r}), \A x \in T : g[x] = f[x]
    PROVE  /\ SumFunctionOnSet(f, S) \in Nat /\ SumFunctionOnSet(g, T) \in Nat
           /\ SumFunctionOnSet(g, T) + f[r] <= SumFunctionOnSet(f, S)
<1>1. IsFiniteSet(S \ {r})
  BY FS_Subset
<1>2. /\ SumFunctionOnSet(f, S \ {r}) \in Nat /\ SumFunctionOnSet(g, T) \in Nat
      /\ SumFunctionOnSet(g, T) <= SumFunctionOnSet(f, S \ {r})
  BY <1>1, SumKeep
<1>3. SumFunctionOnSet(f, S) = f[r] + SumFunctionOnSet(f, S \ {r}) /\ f[r] \in Nat
  BY SumTake
<1> QED
  BY <1>2, <1>3

\* A sum that a term is added to, or in which it is replaced.
LEMMA SumAdd ==
    ASSUME NEW f, NEW g, NEW S, IsFiniteSet(S), \A x \in S : f[x] \in Nat,
           NEW c, g[c] \in Nat, NEW T \in SUBSET (S \cup {c}),
           \A x \in T \ {c} : g[x] = f[x]
    PROVE  /\ SumFunctionOnSet(f, S) \in Nat /\ SumFunctionOnSet(g, T) \in Nat
           /\ SumFunctionOnSet(g, T) <= SumFunctionOnSet(f, S) + g[c]
<1>1. T \ {c} \in SUBSET S
  OBVIOUS
<1>2. /\ SumFunctionOnSet(f, S) \in Nat /\ SumFunctionOnSet(g, T \ {c}) \in Nat
      /\ SumFunctionOnSet(g, T \ {c}) <= SumFunctionOnSet(f, S)
  BY <1>1, SumKeep
<1>3. CASE c \in T
  <2>1. IsFiniteSet(T)
    <3>1. IsFiniteSet(S \cup {c})
      BY FS_AddElement
    <3> QED
      BY <3>1, FS_Subset
  <2>2. \A x \in T : g[x] \in Nat
    BY <1>3
  <2>3. SumFunctionOnSet(g, T) = g[c] + SumFunctionOnSet(g, T \ {c})
    BY <1>3, <2>1, <2>2, SumTake
  <2> QED
    BY <1>2, <1>3, <2>3
<1>4. CASE c \notin T
  <2>1. T \ {c} = T
    BY <1>4
  <2>2. SumFunctionOnSet(g, T \ {c}) = SumFunctionOnSet(g, T)
    BY <2>1
  <2>3. \A a, b, d \in Nat : a <= b => a <= b + d
    OBVIOUS
  <2> QED
    BY <1>2, <2>2, <2>3
<1> QED
  BY <1>3, <1>4

-----------------------------------------------------------------------------
(* Counting.                                                               *)

\* Of a set of numbers, those that have fewer than k before them are k at most.
LEMMA FirstOnes ==
    ASSUME NEW S \in SUBSET Int, IsFiniteSet(S), NEW k \in Nat, NEW T \in SUBSET S,
           \A p \in T : Cardinality({q \in S : q < p}) < k
    PROVE  IsFiniteSet(T) /\ Cardinality(T) <= k
<1>1. IsFiniteSet(T)
  BY FS_Subset
<1>2. CASE T = {}
  BY <1>1, <1>2, FS_EmptySet
<1>3. CASE T # {}
  <2>1. T \in SUBSET Int
    OBVIOUS
  <2>2. PICK m \in T : \A p \in T : p <= m
    BY <1>1, <1>3, <2>1, Greatest
  <2> DEFINE B == {q \in S : q < m}
  <2>3. IsFiniteSet(B) /\ Cardinality(B) \in Nat /\ Cardinality(B) < k
    BY <2>2, FS_Subset, FS_CardinalityType
  <2>4. T \ {m} \in SUBSET B
    BY <2>2
  <2> HIDE DEF B
  <2>5. Cardinality(T \ {m}) <= Cardinality(B)
    BY <2>3, <2>4, FS_Subset
  <2>6. Cardinality(T \ {m}) = Cardinality(T) - 1 /\ Cardinality(T) \in Nat
    BY <1>1, <2>2, FS_RemoveElement, FS_CardinalityType
  <2> QED
    BY <1>1, <2>3, <2>5, <2>6
<1> QED
  BY <1>2, <1>3
=============================================================================
