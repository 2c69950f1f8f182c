---------------------------- MODULE HoseEdgeProofs ----------------------------
(***************************************************************************)
(* Proofs about HoseEdge, for any catalogue of sites and classes: the hose *)
(* load of an edge covers every traffic matrix within the contracts, never *)
(* grows when a reservation goes, and demands are placed by priority.      *)
(***************************************************************************)
EXTENDS HoseEdge, FiniteSetTheorems, WellFoundedInduction, TLAPS

\* Zenon is the prover of every leaf that names no other.
USE Zenon

-------------------------------------------------------------------------------
(* Induction over the natural numbers and over finite sets, and what it    *)
(* gives about SumFunctionOnSet, the sum in which bandwidths are added up. *)
(* Induction is stated about a set instead of a predicate: a property is   *)
(* the set of the numbers, or of the subsets, that have it.                *)

\* Every set of natural numbers has a least element.
LEMMA NatLeast ==
    ASSUME NEW T \in SUBSET Nat, T # {}
    PROVE  \E m \in T : \A k \in T : m <= k
<1>1. PICK m \in T : \A k \in T : <<k, m>> \notin OpToRel(<, Nat)
  <2>1. IsWellFoundedOn(OpToRel(<, Nat), Nat)  BY NatLessThanWellFounded
  <2> QED  BY <2>1, WFMin
<1>2. \A k \in T : ~(k < m)  BY <1>1 DEF OpToRel
<1> QED  BY <1>2, SMT

\* What holds of 0, and of n + 1 when it holds of n, holds of every number.
LEMMA NatInductive ==
    ASSUME NEW T, 0 \in T, \A n \in Nat : n \in T => n + 1 \in T
    PROVE  Nat \subseteq T
<1> SUFFICES ASSUME Nat \ T # {}  PROVE  FALSE
  OBVIOUS
<1>1. PICK m \in Nat \ T : \A k \in Nat \ T : m <= k  BY NatLeast
<1>2. m # 0 /\ m - 1 \in Nat  BY <1>1, SMT
<1> QED  BY <1>1, <1>2, SMT

\* What holds of a subset when it holds of all the strictly smaller ones holds
\* of every subset of a finite set.
LEMMA SubsetsInductive ==
    ASSUME NEW S, IsFiniteSet(S), NEW T,
           \A s \in SUBSET S : (\A t \in SUBSET s : t # s => t \in T) => s \in T
    PROVE  \A s \in SUBSET S : s \in T
<1> DEFINE B == (SUBSET S) \ T
<1> SUFFICES ASSUME B # {}  PROVE  FALSE
  OBVIOUS
<1>1. IsWellFoundedOn(StrictSubsetOrdering(S), SUBSET S)
  <2>1. IsWellFoundedOn(StrictSubsetOrdering(S), FiniteSubsetsOf(S))
    BY FS_StrictSubsetOrderingWellFounded
  <2>2. FiniteSubsetsOf(S) = SUBSET S  BY FS_FiniteSubsetsOfFinite
  <2> QED  BY <2>1, <2>2
<1>2. PICK s \in B : \A t \in B : <<t, s>> \notin StrictSubsetOrdering(S)
  <2>1. B \subseteq SUBSET S  OBVIOUS
  <2> HIDE DEF B
  <2> QED  BY <1>1, <2>1, WFMin, SMT
<1>3. ASSUME NEW t \in SUBSET s, t # s  PROVE  t \in T
  <2>1. <<t, s>> \in StrictSubsetOrdering(S)  BY <1>3 DEF StrictSubsetOrdering
  <2> QED  BY <1>2, <2>1
<1> QED  BY <1>2, <1>3

\* What holds of the empty set, and is preserved by adding an element, holds
\* of every subset of a finite set.
LEMMA FiniteInductive ==
    ASSUME NEW S, IsFiniteSet(S), NEW T, {} \in T,
           \A s \in SUBSET S : \A x \in S \ s : s \in T => s \cup {x} \in T
    PROVE  \A s \in SUBSET S : s \in T
<1>1. ASSUME NEW s \in SUBSET S, \A t \in SUBSET s : t # s => t \in T
      PROVE  s \in T
  <2>1. CASE s = {}  BY <2>1
  <2>2. CASE s # {}
    <3>1. PICK x \in s : TRUE  BY <2>2
    <3>2. s \ {x} \in T  BY <1>1
    <3>3. (s \ {x}) \cup {x} = s  OBVIOUS
    <3>4. s \ {x} \in SUBSET S /\ x \in S \ (s \ {x})  OBVIOUS
    <3> QED  BY <3>2, <3>3, <3>4
  <2> QED  BY <2>1, <2>2
<1> QED  BY <1>1, SubsetsInductive

-------------------------------------------------------------------------------
\* The element a sum takes next, and what its recursive definition says.
Pick(s) == CHOOSE x \in s : TRUE

PartialSum(h, f, s) == IF s = {} THEN 0 ELSE f[Pick(s)] + h[s \ {Pick(s)}]

PartialSums(h, f, S) == h = [s \in SUBSET S |-> PartialSum(h, f, s)]

IsSummable(f, S) == IsFiniteSet(S) /\ \A x \in S : f[x] \in Int

\* The sum is the value at S of a function that is so defined.
LEMMA SumUnfolds ==
    \A f, S : SumFunctionOnSet(f, S) = (CHOOSE h : PartialSums(h, f, S))[S]
BY DEF SumFunctionOnSet, FoldFunctionOnSet, MapThenFoldSet, PartialSums, PartialSum, Pick

\* What a step of the recursion takes away.
LEMMA PickProperties ==
    ASSUME NEW S, IsFiniteSet(S), NEW s \in SUBSET S
    PROVE  /\ IsFiniteSet(s) /\ Cardinality(s) \in Nat /\ Cardinality(s) <= Cardinality(S)
           /\ s = {} <=> Cardinality(s) = 0
           /\ s # {} => /\ Pick(s) \in s /\ s \ {Pick(s)} \in SUBSET S
                        /\ Cardinality(s \ {Pick(s)}) = Cardinality(s) - 1
<1>1. IsFiniteSet(s) /\ Cardinality(s) \in Nat /\ Cardinality(s) <= Cardinality(S)
  BY FS_Subset, FS_CardinalityType
<1>2. s = {} <=> Cardinality(s) = 0  BY <1>1, FS_EmptySet
<1>3. s # {} => Pick(s) \in s  BY DEF Pick
<1> QED  BY <1>1, <1>2, <1>3, FS_RemoveElement

\* There is such a function.
LEMMA PartialSumsExist ==
    ASSUME NEW S, NEW f, IsSummable(f, S)
    PROVE  \E h \in [SUBSET S -> Int] : PartialSums(h, f, S)
<1> DEFINE Up(h, n) == \A s \in SUBSET S : Cardinality(s) <= n => h[s] = PartialSum(h, f, s)
           T == {n \in Nat : \E h \in [SUBSET S -> Int] : Up(h, n)}
<1>0. IsFiniteSet(S) /\ \A x \in S : f[x] \in Int  BY DEF IsSummable
<1>1. 0 \in T
  <2> DEFINE z == [s \in SUBSET S |-> 0]
  <2>1. ASSUME NEW s \in SUBSET S, Cardinality(s) <= 0  PROVE  z[s] = PartialSum(z, f, s)
    <3>1. Cardinality(s) \in Nat /\ (s = {} <=> Cardinality(s) = 0)  BY <1>0, PickProperties
    <3>2. s = {}  BY <2>1, <3>1, SMT
    <3> QED  BY <3>2 DEF PartialSum
  <2> QED  BY <2>1, SMT
<1>2. ASSUME NEW n \in Nat, n \in T  PROVE  n + 1 \in T
  <2>1. PICK h \in [SUBSET S -> Int] : Up(h, n)  BY <1>2
  <2> DEFINE g == [s \in SUBSET S |-> IF Cardinality(s) <= n THEN h[s] ELSE PartialSum(h, f, s)]
  <2>2. g \in [SUBSET S -> Int]
    BY <1>0, PickProperties, SMT DEF PartialSum
  <2>3. ASSUME NEW s \in SUBSET S, Cardinality(s) <= n + 1
        PROVE  g[s] = PartialSum(g, f, s)
    <3>1. CASE s = {}
      BY <3>1, <1>0, <2>1, PickProperties DEF PartialSum
    <3>2. CASE s # {}
      <4>1. Cardinality(s \ {Pick(s)}) <= n /\ s \ {Pick(s)} \in SUBSET S
        BY <1>0, <2>3, <3>2, PickProperties, SMT
      <4>2. g[s \ {Pick(s)}] = h[s \ {Pick(s)}]  BY <4>1
      <4>3. g[s] = PartialSum(h, f, s)  BY <2>1
      <4> QED  BY <4>2, <4>3, <3>2 DEF PartialSum
    <3> QED  BY <3>1, <3>2
  <2>4. Up(g, n + 1)  BY <2>3
  <2>5. \E k \in [SUBSET S -> Int] : Up(k, n + 1)
    <3> HIDE DEF Up, g
    <3> QED  BY <2>2, <2>4
  <2> QED  BY <2>5, SMT
<1>3. Nat \subseteq T
  <2> HIDE DEF T
  <2> QED  BY <1>1, <1>2, NatInductive
<1>4. PICK h \in [SUBSET S -> Int] : Up(h, Cardinality(S))
  <2>1. Cardinality(S) \in Nat  BY <1>0, FS_CardinalityType
  <2> QED  BY <1>3, <2>1
<1>5. \A s \in SUBSET S : h[s] = PartialSum(h, f, s)
  BY <1>0, <1>4, PickProperties
<1> QED  BY <1>5 DEF PartialSums

\* So the sum satisfies the equation of its definition, on every subset.
LEMMA SumsArePartialSums ==
    ASSUME NEW S, NEW f, IsSummable(f, S)
    PROVE  \E h \in [SUBSET S -> Int] :
              PartialSums(h, f, S) /\ \A s \in SUBSET S : h[s] = SumFunctionOnSet(f, s)
<1> DEFINE Chosen(s) == CHOOSE h : PartialSums(h, f, s)
<1>0. IsFiniteSet(S) /\ \A s \in SUBSET S : IsSummable(f, s)
  BY FS_Subset DEF IsSummable
<1>1. \A s \in SUBSET S : PartialSums(Chosen(s), f, s)
  BY <1>0, PartialSumsExist
<1>2. \A s \in SUBSET S : SumFunctionOnSet(f, s) = Chosen(s)[s]
  BY SumUnfolds
<1> HIDE DEF Chosen
<1>3. PICK h \in [SUBSET S -> Int] : PartialSums(h, f, S)
  BY <1>0, PartialSumsExist
<1>4. ASSUME NEW s \in SUBSET S  PROVE  h[s] = Chosen(s)[s]
  <2> DEFINE T == {t \in SUBSET s : h[t] = Chosen(s)[t]}
  <2>1. ASSUME NEW t \in SUBSET s, \A u \in SUBSET t : u # t => u \in T
        PROVE  t \in T
    <3>1. h[t] = PartialSum(h, f, t) /\ Chosen(s)[t] = PartialSum(Chosen(s), f, t)
      BY <1>1, <1>3 DEF PartialSums
    <3>2. CASE t = {}  BY <3>1, <3>2 DEF PartialSum
    <3>3. CASE t # {}
      <4>1. Pick(t) \in t  BY <3>3 DEF Pick
      <4>2. t \ {Pick(t)} \in T  BY <2>1, <4>1
      <4> QED  BY <3>1, <3>3, <4>2 DEF PartialSum
    <3> QED  BY <3>2, <3>3
  <2>2. IsFiniteSet(s)  BY <1>0, FS_Subset
  <2>3. \A t \in SUBSET s : t \in T
    <3> HIDE DEF T
    <3> QED  BY <2>1, <2>2, SubsetsInductive
  <2> QED  BY <2>3
<1> QED  BY <1>2, <1>3, <1>4

\* The sum over a finite set is a number, 0 for the empty one.
LEMMA SumType ==
    ASSUME NEW S, NEW f, IsSummable(f, S)
    PROVE  SumFunctionOnSet(f, S) \in Int
<1>1. PICK h \in [SUBSET S -> Int] :
         PartialSums(h, f, S) /\ \A s \in SUBSET S : h[s] = SumFunctionOnSet(f, s)
  BY SumsArePartialSums
<1>2. S \in SUBSET S  OBVIOUS
<1> QED  BY <1>1, <1>2, SMT

\* An empty sum is zero.
LEMMA SumEmpty == \A f : SumFunctionOnSet(f, {}) = 0
<1> TAKE f
<1>1. IsSummable(f, {})  BY FS_EmptySet DEF IsSummable
<1>2. PICK h \in [SUBSET {} -> Int] :
         PartialSums(h, f, {}) /\ \A s \in SUBSET {} : h[s] = SumFunctionOnSet(f, s)
  BY <1>1, SumsArePartialSums
<1>3. {} \in SUBSET {}  OBVIOUS
<1>4. h[{}] = PartialSum(h, f, {})  BY <1>2, <1>3 DEF PartialSums
<1> QED  BY <1>2, <1>3, <1>4 DEF PartialSum

\* The element that is picked is added to the sum of the others.
LEMMA SumPick ==
    ASSUME NEW S, NEW f, IsSummable(f, S), S # {}
    PROVE  SumFunctionOnSet(f, S) = f[Pick(S)] + SumFunctionOnSet(f, S \ {Pick(S)})
<1>1. PICK h \in [SUBSET S -> Int] :
         PartialSums(h, f, S) /\ \A s \in SUBSET S : h[s] = SumFunctionOnSet(f, s)
  BY SumsArePartialSums
<1>2. S \in SUBSET S /\ S \ {Pick(S)} \in SUBSET S  OBVIOUS
<1>3. h[S] = PartialSum(h, f, S)  BY <1>1, <1>2 DEF PartialSums
<1> QED  BY <1>1, <1>2, <1>3 DEF PartialSum

\* So is any other element: the order does not matter.
LEMMA SumRemove ==
    ASSUME NEW S, NEW f, IsSummable(f, S), NEW x \in S
    PROVE  SumFunctionOnSet(f, S) = f[x] + SumFunctionOnSet(f, S \ {x})
<1> DEFINE Sum(s) == SumFunctionOnSet(f, s)
           T == {s \in SUBSET S : \A y \in s : Sum(s) = f[y] + Sum(s \ {y})}
<1>0. IsFiniteSet(S) /\ \A s \in SUBSET S : IsSummable(f, s) /\ Sum(s) \in Int
  <2>1. IsFiniteSet(S) /\ \A s \in SUBSET S : IsSummable(f, s)  BY FS_Subset DEF IsSummable
  <2> QED  BY <2>1, SumType
<1>1. ASSUME NEW s \in SUBSET S, \A t \in SUBSET s : t # s => t \in T
      PROVE  s \in T
  <2> SUFFICES ASSUME NEW y \in s  PROVE  Sum(s) = f[y] + Sum(s \ {y})
    OBVIOUS
  <2> DEFINE p == Pick(s)
  <2>1. p \in s  BY DEF Pick
  <2>2. Sum(s) = f[p] + Sum(s \ {p})  BY <1>0, SumPick
  <2> HIDE DEF p
  <2>3. CASE y = p  BY <2>2, <2>3
  <2>4. CASE y # p
    <3>1. s \ {p} \in T /\ s \ {y} \in T  BY <1>1, <2>1
    <3>2. Sum(s \ {p}) = f[y] + Sum((s \ {p}) \ {y})  BY <3>1, <2>4
    <3>3. Sum(s \ {y}) = f[p] + Sum((s \ {y}) \ {p})  BY <3>1, <2>1, <2>4
    <3>4. (s \ {p}) \ {y} = (s \ {y}) \ {p}  OBVIOUS
    <3>5. f[p] \in Int /\ f[y] \in Int /\ Sum((s \ {y}) \ {p}) \in Int
      BY <1>0, <2>1 DEF IsSummable
    <3>6. Sum(s \ {p}) = f[y] + Sum((s \ {y}) \ {p})  BY <3>2, <3>4
    <3> HIDE DEF Sum, T
    <3> QED  BY <2>2, <3>3, <3>5, <3>6, SMT
  <2> QED  BY <2>3, <2>4
<1>2. S \in T
  <2> HIDE DEF T
  <2> QED  BY <1>0, <1>1, SubsetsInductive, S \in SUBSET S, SMT
<1> QED  BY <1>2

\* An element more.
LEMMA SumAdd ==
    ASSUME NEW S, NEW f, NEW x, x \notin S, IsSummable(f, S), f[x] \in Int
    PROVE  SumFunctionOnSet(f, S \cup {x}) = f[x] + SumFunctionOnSet(f, S)
<1>1. IsSummable(f, S \cup {x})  BY FS_AddElement DEF IsSummable
<1>2. (S \cup {x}) \ {x} = S  OBVIOUS
<1> QED  BY <1>1, <1>2, SumRemove, x \in S \cup {x}, SMT

\* The sum depends only on the values over the set, and grows with them.
LEMMA SumLeq ==
    ASSUME NEW S, NEW f, NEW g, IsSummable(f, S), IsSummable(g, S),
           \A x \in S : f[x] <= g[x]
    PROVE  SumFunctionOnSet(f, S) <= SumFunctionOnSet(g, S)
<1> DEFINE F(s) == SumFunctionOnSet(f, s)
           G(s) == SumFunctionOnSet(g, s)
           T == {s \in SUBSET S : F(s) <= G(s)}
<1>0. /\ IsFiniteSet(S)
      /\ \A s \in SUBSET S : IsSummable(f, s) /\ IsSummable(g, s) /\ F(s) \in Int /\ G(s) \in Int
  <2>1. IsFiniteSet(S) /\ \A s \in SUBSET S : IsSummable(f, s) /\ IsSummable(g, s)
    BY FS_Subset DEF IsSummable
  <2> QED  BY <2>1, SumType
<1>1. {} \in T  BY SumEmpty, SMT
<1>2. ASSUME NEW s \in SUBSET S, NEW x \in S \ s, s \in T  PROVE  s \cup {x} \in T
  <2>1. f[x] \in Int /\ g[x] \in Int  BY DEF IsSummable
  <2>2. F(s \cup {x}) = f[x] + F(s) /\ G(s \cup {x}) = g[x] + G(s)
    BY <1>0, <2>1, SumAdd
  <2>3. F(s) <= G(s)  BY <1>2
  <2>4. F(s \cup {x}) <= G(s \cup {x})
    <3> HIDE DEF F, G, T
    <3> QED  BY <1>0, <2>1, <2>2, <2>3, SMT
  <2> QED  BY <2>4
<1>3. S \in T
  <2> HIDE DEF T
  <2> QED  BY <1>0, <1>1, <1>2, FiniteInductive, S \in SUBSET S
<1> QED  BY <1>3

\* A sum of natural numbers is one, and no smaller over a larger set.
LEMMA SumNat ==
    ASSUME NEW S, NEW f, IsFiniteSet(S), \A x \in S : f[x] \in Nat
    PROVE  SumFunctionOnSet(f, S) \in Nat
<1> DEFINE F(s) == SumFunctionOnSet(f, s)
           T == {s \in SUBSET S : F(s) \in Nat}
<1>0. \A s \in SUBSET S : IsSummable(f, s)  BY FS_Subset, SMT DEF IsSummable
<1>1. {} \in T  BY SumEmpty, SMT
<1>2. ASSUME NEW s \in SUBSET S, NEW x \in S \ s, s \in T  PROVE  s \cup {x} \in T
  <2>1. f[x] \in Int /\ x \notin s  BY SMT
  <2>2. F(s \cup {x}) = f[x] + F(s)  BY <1>0, <2>1, SumAdd
  <2> QED  BY <1>2, <2>2, SMT
<1>3. S \in T
  <2> HIDE DEF T
  <2> QED  BY <1>1, <1>2, FiniteInductive, S \in SUBSET S
<1> QED  BY <1>3

\* Over two sets that do not meet, sums add up.
LEMMA SumUnion ==
    ASSUME NEW R, NEW S, NEW f, IsSummable(f, R), IsSummable(f, S), R \cap S = {}
    PROVE  SumFunctionOnSet(f, R \cup S) = SumFunctionOnSet(f, R) + SumFunctionOnSet(f, S)
<1> DEFINE F(s) == SumFunctionOnSet(f, s)
           T == {s \in SUBSET S : F(R \cup s) = F(R) + F(s)}
<1>0. /\ IsFiniteSet(S) /\ F(R) \in Int
      /\ \A s \in SUBSET S : IsSummable(f, s) /\ IsSummable(f, R \cup s) /\ F(s) \in Int
  <2>1. \A s \in SUBSET S : IsFiniteSet(s) /\ IsFiniteSet(R \cup s)
    BY FS_Subset, FS_Union DEF IsSummable
  <2>2. IsFiniteSet(S) /\ \A s \in SUBSET S : IsSummable(f, s) /\ IsSummable(f, R \cup s)
    BY <2>1 DEF IsSummable
  <2> QED  BY <2>2, SumType
<1>1. {} \in T
  <2>1. R \cup {} = R  OBVIOUS
  <2>2. F({}) = 0  BY SumEmpty
  <2>3. F(R \cup {}) = F(R) + F({})
    <3> HIDE DEF F
    <3> QED  BY <1>0, <2>1, <2>2, SMT
  <2> QED  BY <2>3
<1>2. ASSUME NEW s \in SUBSET S, NEW x \in S \ s, s \in T  PROVE  s \cup {x} \in T
  <2>1. f[x] \in Int /\ x \notin R \cup s  BY DEF IsSummable
  <2>2. F(s \cup {x}) = f[x] + F(s)  BY <1>0, <2>1, SumAdd
  <2>3. F((R \cup s) \cup {x}) = f[x] + F(R \cup s)  BY <1>0, <2>1, SumAdd
  <2>4. (R \cup s) \cup {x} = R \cup (s \cup {x})  OBVIOUS
  <2>5. F(R \cup s) = F(R) + F(s)  BY <1>2
  <2>6. F(R \cup (s \cup {x})) = F(R) + F(s \cup {x})
    <3>1. F(R \cup (s \cup {x})) = f[x] + F(R \cup s)  BY <2>3, <2>4
    <3> HIDE DEF F, T
    <3> QED  BY <1>0, <2>1, <2>2, <2>5, <3>1, SMT
  <2> QED  BY <2>6
<1>3. S \in T
  <2> HIDE DEF T
  <2> QED  BY <1>0, <1>1, <1>2, FiniteInductive, S \in SUBSET S
<1> QED  BY <1>3

\* A sum of naturals over a part is at most the sum over the whole.
LEMMA SumSubset ==
    ASSUME NEW R, NEW S, NEW f, R \subseteq S, IsFiniteSet(S), \A x \in S : f[x] \in Nat
    PROVE  SumFunctionOnSet(f, R) <= SumFunctionOnSet(f, S)
<1>1. IsFiniteSet(R) /\ IsFiniteSet(S \ R)  BY FS_Subset, FS_Difference
<1>2. IsSummable(f, R) /\ IsSummable(f, S \ R)  BY <1>1, SMT DEF IsSummable
<1>3. R \cup (S \ R) = S /\ R \cap (S \ R) = {}  OBVIOUS
<1>4. SumFunctionOnSet(f, S) = SumFunctionOnSet(f, R) + SumFunctionOnSet(f, S \ R)
  BY <1>2, <1>3, SumUnion, SMT
<1>5. SumFunctionOnSet(f, R) \in Nat /\ SumFunctionOnSet(f, S \ R) \in Nat
  BY <1>1, SumNat
<1> QED  BY <1>4, <1>5, SMT

\* More terms, and larger ones.
LEMMA SumGrows ==
    ASSUME NEW R, NEW S, NEW f, NEW g, R \subseteq S, IsFiniteSet(S),
           \A x \in R : f[x] \in Nat /\ f[x] <= g[x], \A x \in S : g[x] \in Nat
    PROVE  SumFunctionOnSet(f, R) <= SumFunctionOnSet(g, S)
<1>1. IsFiniteSet(R)  BY FS_Subset
<1>2. IsSummable(f, R) /\ IsSummable(g, R) /\ IsSummable(g, S)  BY <1>1, SMT DEF IsSummable
<1>3. SumFunctionOnSet(f, R) <= SumFunctionOnSet(g, R)  BY <1>2, SumLeq
<1>4. SumFunctionOnSet(g, R) <= SumFunctionOnSet(g, S)  BY SumSubset
<1>5. /\ SumFunctionOnSet(f, R) \in Int /\ SumFunctionOnSet(g, R) \in Int
      /\ SumFunctionOnSet(g, S) \in Int
  BY <1>2, SumType
<1> QED  BY <1>3, <1>4, <1>5, SMT

\* The image of a finite set.
LEMMA ImageIsFinite ==
    ASSUME NEW S, IsFiniteSet(S), NEW f
    PROVE  IsFiniteSet({f[x] : x \in S})
<1> DEFINE T == {f[x] : x \in S}
           g == [x \in S |-> f[x]]
<1>1. g \in Surjection(S, T)  BY DEF Surjection
<1> HIDE DEF T, g
<1>2. IsFiniteSet(T)  BY <1>1, FS_Surjection
<1> QED  BY <1>2 DEF T

\* A set is summed up class by class: k says which class an element is in.
LEMMA SumByClass ==
    ASSUME NEW S, NEW f, NEW k, NEW K, IsSummable(f, S), IsFiniteSet(K),
           \A x \in S : k[x] \in K
    PROVE  SumFunctionOnSet(f, S) =
             SumFunctionOnSet([y \in K |-> SumFunctionOnSet(f, {x \in S : k[x] = y})], K)
<1> DEFINE F(s) == SumFunctionOnSet(f, s)
           Class(y) == {x \in S : k[x] = y}
           Classes(C) == {x \in S : k[x] \in C}
           c == [y \in K |-> F(Class(y))]
           T == {C \in SUBSET K : F(Classes(C)) = SumFunctionOnSet(c, C)}
<1>0. \A s \in SUBSET S : IsSummable(f, s) /\ F(s) \in Int
  <2>1. \A s \in SUBSET S : IsSummable(f, s)  BY FS_Subset DEF IsSummable
  <2> QED  BY <2>1, SumType
<1>1. {} \in T
  <2>1. Classes({}) = {}  OBVIOUS
  <2> QED  BY <2>1, SumEmpty
<1>2. \A C \in SUBSET K : IsSummable(c, C)  BY <1>0, FS_Subset DEF IsSummable
<1>3. ASSUME NEW C \in SUBSET K, NEW y \in K \ C, C \in T  PROVE  C \cup {y} \in T
  <2>1. Classes(C \cup {y}) = Class(y) \cup Classes(C) /\ Class(y) \cap Classes(C) = {}
    OBVIOUS
  <2>2. IsSummable(f, Class(y)) /\ IsSummable(f, Classes(C))  BY <1>0
  <2>3. F(Class(y) \cup Classes(C)) = F(Class(y)) + F(Classes(C))
    <3> HIDE DEF Class, Classes
    <3> QED  BY <2>1, <2>2, SumUnion
  <2>4. c[y] = F(Class(y)) /\ c[y] \in Int  BY <1>0
  <2>5. SumFunctionOnSet(c, C \cup {y}) = c[y] + SumFunctionOnSet(c, C)
    <3> HIDE DEF c, T
    <3> QED  BY <1>2, <2>4, SumAdd
  <2>6. F(Classes(C)) = SumFunctionOnSet(c, C)  BY <1>3
  <2>7. F(Classes(C \cup {y})) = SumFunctionOnSet(c, C \cup {y})
    <3> HIDE DEF F, Class, Classes, c, T
    <3> QED  BY <2>1, <2>3, <2>4, <2>5, <2>6
  <2> QED  BY <2>7
<1>4. K \in T
  <2> HIDE DEF T
  <2> QED  BY <1>1, <1>3, FiniteInductive, K \in SUBSET K
<1>5. Classes(K) = S  OBVIOUS
<1> QED  BY <1>4, <1>5

-------------------------------------------------------------------------------

\* What BuildDemands guarantees of demands, and the hose load relies on: the
\* bandwidth of a source or a sink depends on tenant, label and POP only.
AreDemands(R) ==
    /\ IsFiniteSet(R)
    /\ \A r \in R : r.fromMbps \in Nat /\ r.toMbps \in Nat
    /\ \A r, q \in R : r.tenant = q.tenant /\ r.label = q.label =>
          /\ r.from = q.from => r.fromMbps = q.fromMbps
          /\ r.to = q.to => r.toMbps = q.toMbps

\* Demands of one tenant and one class.
AreOfOneClass(R) == \A r, q \in R : r.tenant = q.tenant /\ r.label = q.label

\* The sum of a function over its domain.
LEMMA SumOverDomain ==
    ASSUME NEW S, NEW f, DOMAIN f = S
    PROVE  SumFunction(f) = SumFunctionOnSet(f, S)
BY DEF SumFunction

\* Some of a set of demands are demands too.
LEMMA SubsetOfDemands ==
    ASSUME NEW R, AreDemands(R), NEW Q \in SUBSET R
    PROVE  AreDemands(Q)
BY FS_Subset DEF AreDemands

\* The bandwidth contracted at a POP.
LEMMA PopMbpsType ==
    ASSUME NEW catalogue \in SiteCatalogues, NEW tenant, NEW pop, NEW label
    PROVE  PopMbps(catalogue, tenant, pop, label) \in Nat
<1> DEFINE S == {s \in catalogue : s.tenant = tenant /\ s.attach = pop /\ label \in DOMAIN s.mbps}
           f == [s \in S |-> s.mbps[label]]
<1>1. IsFiniteSet(S) /\ \A s \in S : f[s] \in Nat  BY SiteAssumption, FS_Subset
<1>2. PopMbps(catalogue, tenant, pop, label) = SumFunctionOnSet(f, S)
  BY SumOverDomain DEF PopMbps
<1> HIDE DEF S, f
<1> QED  BY <1>1, <1>2, SumNat

\* The demands of a catalogue.
LEMMA BuildDemandsFields ==
    ASSUME NEW catalogue \in SiteCatalogues, NEW d \in BuildDemands(catalogue)
    PROVE  /\ d.tenant \in Int /\ d.tier \in Int /\ d.from \in Int /\ d.to \in Int
           /\ d.label \in DOMAIN ClassIndex
           /\ d.fromMbps = PopMbps(catalogue, d.tenant, d.from, d.label)
           /\ d.toMbps = PopMbps(catalogue, d.tenant, d.to, d.label)
           /\ d = [tenant |-> d.tenant, tier |-> d.tier, label |-> d.label, from |-> d.from,
                   to |-> d.to, fromMbps |-> d.fromMbps, toMbps |-> d.toMbps]
<1>1. PICK a \in catalogue, b \in catalogue, label \in DOMAIN ClassIndex :
         d = [tenant   |-> a.tenant, tier |-> a.tier, label |-> label,
              from     |-> a.attach, to   |-> b.attach,
              fromMbps |-> PopMbps(catalogue, a.tenant, a.attach, label),
              toMbps   |-> PopMbps(catalogue, a.tenant, b.attach, label)]
  BY SMT DEF BuildDemands
<1> QED  BY <1>1, SiteAssumption

\* Any set of demands of a catalogue is one the hose load is made for.
LEMMA CatalogueDemands ==
    ASSUME NEW catalogue \in SiteCatalogues, NEW R \in SUBSET BuildDemands(catalogue),
           IsFiniteSet(R)
    PROVE  AreDemands(R)
<1>1. \A r \in R : r.fromMbps \in Nat /\ r.toMbps \in Nat
  BY BuildDemandsFields, PopMbpsType, SMT
<1>2. \A r \in R : /\ r.fromMbps = PopMbps(catalogue, r.tenant, r.from, r.label)
                   /\ r.toMbps = PopMbps(catalogue, r.tenant, r.to, r.label)
  BY BuildDemandsFields
<1> QED  BY <1>1, <1>2 DEF AreDemands

-------------------------------------------------------------------------------
\* The smaller of two numbers.
LEMMA MinOfTwo ==
    ASSUME NEW a \in Int, NEW b \in Int
    PROVE  Min({a, b}) = IF a <= b THEN a ELSE b
<1> DEFINE m == IF a <= b THEN a ELSE b
<1>1. m \in {a, b} /\ \A y \in {a, b} : m <= y  BY SMT
<1>2. \A x \in {a, b} : (\A y \in {a, b} : x <= y) => x = m  BY SMT
<1> QED  BY <1>1, <1>2 DEF Min

\* The largest of finitely many numbers.
LEMMA MaxOfFinite ==
    ASSUME NEW S \in SUBSET Nat, IsFiniteSet(S), S # {}
    PROVE  Max(S) \in S /\ \A y \in S : Max(S) >= y
<1> DEFINE T == {s \in SUBSET S : s # {} => \E m \in s : \A y \in s : m >= y}
<1>1. {} \in T  OBVIOUS
<1>2. ASSUME NEW s \in SUBSET S, NEW x \in S \ s, s \in T  PROVE  s \cup {x} \in T
  <2>1. CASE s = {}  BY <2>1, SMT
  <2>2. CASE s # {}
    <3>1. PICK m \in s : \A y \in s : m >= y  BY <1>2, <2>2
    <3>2. CASE m >= x  BY <3>1, <3>2
    <3>3. CASE ~(m >= x)
      <4>1. \A y \in s \cup {x} : x >= y  BY <3>1, <3>3, SMT
      <4> QED  BY <4>1
    <3> QED  BY <3>2, <3>3
  <2> QED  BY <2>1, <2>2
<1> HIDE DEF T
<1>3. \A s \in SUBSET S : s \in T  BY <1>1, <1>2, FiniteInductive
<1>4. \E m \in S : \A y \in S : m >= y  BY <1>3 DEF T
<1> QED  BY <1>4 DEF Max

\* What each source POP, and each sink POP, contributes.
SourceMbps(R) == [pop \in {r.from : r \in R} |-> (CHOOSE r \in R : r.from = pop).fromMbps]
SinkMbps(R) == [pop \in {r.to : r \in R} |-> (CHOOSE r \in R : r.to = pop).toMbps]

\* The CHOOSE is harmless: every demand from the POP carries its bandwidth.
LEMMA SourceIsWellDefined ==
    ASSUME NEW R, AreDemands(R), AreOfOneClass(R)
    PROVE  /\ IsFiniteSet({r.from : r \in R})
           /\ \A r \in R : SourceMbps(R)[r.from] = r.fromMbps
           /\ \A pop \in {r.from : r \in R} : SourceMbps(R)[pop] \in Nat
           /\ SumSources(R) = SumFunctionOnSet(SourceMbps(R), {r.from : r \in R})
           /\ SumSources(R) \in Nat
<1> DEFINE P == {r.from : r \in R}
           k == [r \in R |-> r.from]
<1>1. IsFiniteSet(P)
  <2>1. IsFiniteSet({k[r] : r \in R})  BY ImageIsFinite DEF AreDemands
  <2>2. P = {k[r] : r \in R}  OBVIOUS
  <2> QED  BY <2>1, <2>2
<1>2. \A r \in R : SourceMbps(R)[r.from] = r.fromMbps
  BY DEF SourceMbps, AreDemands, AreOfOneClass
<1>3. \A pop \in P : SourceMbps(R)[pop] \in Nat  BY <1>2 DEF AreDemands
<1>4. SumSources(R) = SumFunctionOnSet(SourceMbps(R), P)
  BY SumOverDomain DEF SumSources, SourceMbps
<1> HIDE DEF P
<1>5. SumSources(R) \in Nat  BY <1>1, <1>3, <1>4, SumNat
<1> QED  BY <1>1, <1>2, <1>3, <1>4, <1>5 DEF P

\* The demands of one class to a POP agree on what is contracted there, so the
\* sinks add up to a number.
LEMMA SinkIsWellDefined ==
    ASSUME NEW R, AreDemands(R), AreOfOneClass(R)
    PROVE  /\ IsFiniteSet({r.to : r \in R})
           /\ \A r \in R : SinkMbps(R)[r.to] = r.toMbps
           /\ \A pop \in {r.to : r \in R} : SinkMbps(R)[pop] \in Nat
           /\ SumSinks(R) = SumFunctionOnSet(SinkMbps(R), {r.to : r \in R})
           /\ SumSinks(R) \in Nat
<1> DEFINE P == {r.to : r \in R}
           k == [r \in R |-> r.to]
<1>1. IsFiniteSet(P)
  <2>1. IsFiniteSet({k[r] : r \in R})  BY ImageIsFinite DEF AreDemands
  <2>2. P = {k[r] : r \in R}  OBVIOUS
  <2> QED  BY <2>1, <2>2
<1>2. \A r \in R : SinkMbps(R)[r.to] = r.toMbps
  BY DEF SinkMbps, AreDemands, AreOfOneClass
<1>3. \A pop \in P : SinkMbps(R)[pop] \in Nat  BY <1>2 DEF AreDemands
<1>4. SumSinks(R) = SumFunctionOnSet(SinkMbps(R), P)
  BY SumOverDomain DEF SumSinks, SinkMbps
<1> HIDE DEF P
<1>5. SumSinks(R) \in Nat  BY <1>1, <1>3, <1>4, SumNat
<1> QED  BY <1>1, <1>2, <1>3, <1>4, <1>5 DEF P

\* The load of a class is the smaller of the two sums.
LEMMA LabelLoadIsSmaller ==
    ASSUME NEW R, AreDemands(R), AreOfOneClass(R)
    PROVE  /\ LabelLoad(R) \in Nat
           /\ LabelLoad(R) = IF SumSources(R) <= SumSinks(R) THEN SumSources(R) ELSE SumSinks(R)
<1>1. SumSources(R) \in Nat /\ SumSinks(R) \in Nat  BY SourceIsWellDefined, SinkIsWellDefined
<1>2. LabelLoad(R) = IF SumSources(R) <= SumSinks(R) THEN SumSources(R) ELSE SumSinks(R)
  BY <1>1, MinOfTwo, SMT DEF LabelLoad
<1> QED  BY <1>1, <1>2

\* Fewer demands of a class never load the edge more.
LEMMA LabelLoadMonotone ==
    ASSUME NEW R, AreDemands(R), AreOfOneClass(R), NEW Q \in SUBSET R
    PROVE  LabelLoad(Q) <= LabelLoad(R)
<1>1. AreDemands(Q) /\ AreOfOneClass(Q)  BY SubsetOfDemands DEF AreOfOneClass
<1>2. SumSources(Q) <= SumSources(R)
  <2> DEFINE P(S) == {r.from : r \in S}
  <2>1. P(Q) \subseteq P(R) /\ \A pop \in P(Q) : SourceMbps(Q)[pop] = SourceMbps(R)[pop]
    BY <1>1, SourceIsWellDefined
  <2>2. /\ IsFiniteSet(P(R)) /\ \A pop \in P(R) : SourceMbps(R)[pop] \in Nat
        /\ SumSources(R) = SumFunctionOnSet(SourceMbps(R), P(R))
        /\ SumSources(Q) = SumFunctionOnSet(SourceMbps(Q), P(Q))
    BY <1>1, SourceIsWellDefined
  <2> HIDE DEF P
  <2>3. \A pop \in P(Q) : SourceMbps(Q)[pop] \in Nat /\ SourceMbps(Q)[pop] <= SourceMbps(R)[pop]
    BY <2>1, <2>2, SMT
  <2>4. SumFunctionOnSet(SourceMbps(Q), P(Q)) <= SumFunctionOnSet(SourceMbps(R), P(R))
    BY <2>1, <2>2, <2>3, SumGrows
  <2> QED  BY <2>2, <2>4
<1>3. SumSinks(Q) <= SumSinks(R)
  <2> DEFINE P(S) == {r.to : r \in S}
  <2>1. P(Q) \subseteq P(R) /\ \A pop \in P(Q) : SinkMbps(Q)[pop] = SinkMbps(R)[pop]
    BY <1>1, SinkIsWellDefined
  <2>2. /\ IsFiniteSet(P(R)) /\ \A pop \in P(R) : SinkMbps(R)[pop] \in Nat
        /\ SumSinks(R) = SumFunctionOnSet(SinkMbps(R), P(R))
        /\ SumSinks(Q) = SumFunctionOnSet(SinkMbps(Q), P(Q))
    BY <1>1, SinkIsWellDefined
  <2> HIDE DEF P
  <2>3. \A pop \in P(Q) : SinkMbps(Q)[pop] \in Nat /\ SinkMbps(Q)[pop] <= SinkMbps(R)[pop]
    BY <2>1, <2>2, SMT
  <2>4. SumFunctionOnSet(SinkMbps(Q), P(Q)) <= SumFunctionOnSet(SinkMbps(R), P(R))
    BY <2>1, <2>2, <2>3, SumGrows
  <2> QED  BY <2>2, <2>4
<1>4. /\ SumSources(Q) \in Nat /\ SumSinks(Q) \in Nat
      /\ SumSources(R) \in Nat /\ SumSinks(R) \in Nat
  BY <1>1, SourceIsWellDefined, SinkIsWellDefined
<1>5. /\ LabelLoad(Q) = IF SumSources(Q) <= SumSinks(Q) THEN SumSources(Q) ELSE SumSinks(Q)
      /\ LabelLoad(R) = IF SumSources(R) <= SumSinks(R) THEN SumSources(R) ELSE SumSinks(R)
  BY <1>1, LabelLoadIsSmaller
<1> QED  BY <1>2, <1>3, <1>4, <1>5, SMT

\* The demands of a tenant, by class, and all demands, by tenant.
LabelLoads(R) == [label \in {r.label : r \in R} |-> LabelLoad({r \in R : r.label = label})]
TenantLoads(R) ==
    [t \in {r.tenant : r \in R} |-> CalculateReservedBandwidth({r \in R : r.tenant = t})]

AreOfOneTenant(R) == \A r, q \in R : r.tenant = q.tenant

\* What a tenant reserves on an edge is the sum over its classes.
LEMMA TenantLoadIsSum ==
    ASSUME NEW R, AreDemands(R), AreOfOneTenant(R)
    PROVE  /\ IsFiniteSet({r.label : r \in R})
           /\ \A label \in {r.label : r \in R} : LabelLoads(R)[label] \in Nat
           /\ CalculateReservedBandwidth(R)
                = SumFunctionOnSet(LabelLoads(R), {r.label : r \in R})
           /\ CalculateReservedBandwidth(R) \in Nat
<1> DEFINE L == {r.label : r \in R}
           k == [r \in R |-> r.label]
<1>1. IsFiniteSet(L)
  <2>1. IsFiniteSet({k[r] : r \in R})  BY ImageIsFinite DEF AreDemands
  <2>2. L = {k[r] : r \in R}  OBVIOUS
  <2> QED  BY <2>1, <2>2
<1>2. ASSUME NEW label \in L  PROVE  LabelLoads(R)[label] \in Nat
  <2>1. AreDemands({r \in R : r.label = label})  BY SubsetOfDemands
  <2>2. AreOfOneClass({r \in R : r.label = label})  BY DEF AreOfOneClass, AreOfOneTenant
  <2> QED  BY <2>1, <2>2, LabelLoadIsSmaller DEF LabelLoads
<1>3. CalculateReservedBandwidth(R) = SumFunctionOnSet(LabelLoads(R), L)
  BY SumOverDomain DEF CalculateReservedBandwidth, LabelLoads
<1> HIDE DEF L
<1>4. CalculateReservedBandwidth(R) \in Nat  BY <1>1, <1>2, <1>3, SumNat
<1> QED  BY <1>1, <1>2, <1>3, <1>4 DEF L

\* A tenant with fewer demands on an edge reserves no more there.
LEMMA TenantLoadMonotone ==
    ASSUME NEW R, AreDemands(R), AreOfOneTenant(R), NEW Q \in SUBSET R
    PROVE  CalculateReservedBandwidth(Q) <= CalculateReservedBandwidth(R)
<1> DEFINE L(S) == {r.label : r \in S}
<1>1. AreDemands(Q) /\ AreOfOneTenant(Q)  BY SubsetOfDemands DEF AreOfOneTenant
<1>2. L(Q) \subseteq L(R)  OBVIOUS
<1>3. ASSUME NEW label \in L(Q)
      PROVE  LabelLoads(Q)[label] <= LabelLoads(R)[label]
  <2> DEFINE Of(S) == {r \in S : r.label = label}
  <2>1. AreDemands(Of(R)) /\ AreOfOneClass(Of(R)) /\ Of(Q) \in SUBSET Of(R)
    BY SubsetOfDemands DEF AreOfOneClass, AreOfOneTenant
  <2>2. LabelLoads(Q)[label] = LabelLoad(Of(Q)) /\ LabelLoads(R)[label] = LabelLoad(Of(R))
    BY <1>2 DEF LabelLoads
  <2> HIDE DEF Of
  <2> QED  BY <2>1, <2>2, LabelLoadMonotone
<1>4. /\ IsFiniteSet(L(R)) /\ \A label \in L(R) : LabelLoads(R)[label] \in Nat
      /\ CalculateReservedBandwidth(R) = SumFunctionOnSet(LabelLoads(R), L(R))
  BY TenantLoadIsSum
<1>5. /\ \A label \in L(Q) : LabelLoads(Q)[label] \in Nat
      /\ CalculateReservedBandwidth(Q) = SumFunctionOnSet(LabelLoads(Q), L(Q))
  BY <1>1, TenantLoadIsSum
<1> HIDE DEF L
<1>6. SumFunctionOnSet(LabelLoads(Q), L(Q)) <= SumFunctionOnSet(LabelLoads(R), L(R))
  BY <1>2, <1>3, <1>4, <1>5, SumGrows
<1> QED  BY <1>4, <1>5, <1>6

\* What an edge carries is the sum over the tenants.
LEMMA HoseLoadIsSum ==
    ASSUME NEW R, AreDemands(R)
    PROVE  /\ IsFiniteSet({r.tenant : r \in R})
           /\ \A t \in {r.tenant : r \in R} : TenantLoads(R)[t] \in Nat
           /\ HoseLoad(R) = SumFunctionOnSet(TenantLoads(R), {r.tenant : r \in R})
           /\ HoseLoad(R) \in Nat
<1> DEFINE T == {r.tenant : r \in R}
           k == [r \in R |-> r.tenant]
<1>1. IsFiniteSet(T)
  <2>1. IsFiniteSet({k[r] : r \in R})  BY ImageIsFinite DEF AreDemands
  <2>2. T = {k[r] : r \in R}  OBVIOUS
  <2> QED  BY <2>1, <2>2
<1>2. ASSUME NEW t \in T  PROVE  TenantLoads(R)[t] \in Nat
  <2>1. AreDemands({r \in R : r.tenant = t})  BY SubsetOfDemands
  <2>2. AreOfOneTenant({r \in R : r.tenant = t})  BY DEF AreOfOneTenant
  <2> QED  BY <2>1, <2>2, TenantLoadIsSum DEF TenantLoads
<1>3. HoseLoad(R) = SumFunctionOnSet(TenantLoads(R), T)
  BY SumOverDomain DEF HoseLoad, TenantLoads
<1> HIDE DEF T
<1>4. HoseLoad(R) \in Nat  BY <1>1, <1>2, <1>3, SumNat
<1> QED  BY <1>1, <1>2, <1>3, <1>4 DEF T

\* The hose load of an edge is monotone in its reservations: recomputing it
\* after a removal, as BandwidthReservation does, never finds the edge fuller.
THEOREM HoseLoadMonotone ==
    ASSUME NEW R, AreDemands(R), NEW Q \in SUBSET R
    PROVE  HoseLoad(Q) <= HoseLoad(R)
<1> DEFINE T(S) == {r.tenant : r \in S}
<1>1. AreDemands(Q)  BY SubsetOfDemands
<1>2. T(Q) \subseteq T(R)  OBVIOUS
<1>3. ASSUME NEW t \in T(Q)  PROVE  TenantLoads(Q)[t] <= TenantLoads(R)[t]
  <2> DEFINE Of(S) == {r \in S : r.tenant = t}
  <2>1. AreDemands(Of(R)) /\ AreOfOneTenant(Of(R)) /\ Of(Q) \in SUBSET Of(R)
    BY SubsetOfDemands DEF AreOfOneTenant
  <2>2. /\ TenantLoads(Q)[t] = CalculateReservedBandwidth(Of(Q))
        /\ TenantLoads(R)[t] = CalculateReservedBandwidth(Of(R))
    BY <1>2 DEF TenantLoads
  <2> HIDE DEF Of
  <2> QED  BY <2>1, <2>2, TenantLoadMonotone
<1>4. /\ IsFiniteSet(T(R)) /\ \A t \in T(R) : TenantLoads(R)[t] \in Nat
      /\ HoseLoad(R) = SumFunctionOnSet(TenantLoads(R), T(R))
  BY HoseLoadIsSum
<1>5. /\ \A t \in T(Q) : TenantLoads(Q)[t] \in Nat
      /\ HoseLoad(Q) = SumFunctionOnSet(TenantLoads(Q), T(Q))
  BY <1>1, HoseLoadIsSum
<1> HIDE DEF T
<1>6. SumFunctionOnSet(TenantLoads(Q), T(Q)) <= SumFunctionOnSet(TenantLoads(R), T(R))
  BY <1>2, <1>3, <1>4, <1>5, SumGrows
<1> QED  BY <1>4, <1>5, <1>6

-------------------------------------------------------------------------------
\* Traffic that no source and no sink of R exceeds.
Fits(traffic, R) ==
    /\ \A x \in R : traffic[x] \in Nat
    /\ \A d \in R :
          LET Same == {x \in R : x.tenant = d.tenant /\ x.label = d.label}
          IN /\ SumFunctionOnSet(traffic, {x \in Same : x.from = d.from}) <= d.fromMbps
             /\ SumFunctionOnSet(traffic, {x \in Same : x.to = d.to}) <= d.toMbps

\* Within one class the traffic passes the sources, and it passes the sinks.
LEMMA ClassCovered ==
    ASSUME NEW R, AreDemands(R), AreOfOneClass(R), NEW traffic, Fits(traffic, R)
    PROVE  SumFunctionOnSet(traffic, R) <= LabelLoad(R)
<1> DEFINE Sum(S) == SumFunctionOnSet(traffic, S)
<1>0. IsFiniteSet(R) /\ (\A x \in R : traffic[x] \in Nat) /\ IsSummable(traffic, R)
  BY SMT DEF AreDemands, Fits, IsSummable
<1>1. \A S \in SUBSET R : Sum(S) \in Nat
  <2> SUFFICES ASSUME NEW S \in SUBSET R  PROVE  Sum(S) \in Nat
    OBVIOUS
  <2>1. IsFiniteSet(S) /\ \A x \in S : traffic[x] \in Nat  BY <1>0, FS_Subset
  <2> QED  BY <2>1, SumNat
<1>2. \A d \in R : Sum({x \in R : x.from = d.from}) <= d.fromMbps
                   /\ Sum({x \in R : x.to = d.to}) <= d.toMbps
  <2> SUFFICES ASSUME NEW d \in R
               PROVE  Sum({x \in R : x.from = d.from}) <= d.fromMbps
                      /\ Sum({x \in R : x.to = d.to}) <= d.toMbps
    OBVIOUS
  <2>1. {x \in R : x.tenant = d.tenant /\ x.label = d.label} = R  BY DEF AreOfOneClass
  <2> QED  BY <2>1 DEF Fits
<1>3. Sum(R) <= SumSources(R)
  <2> DEFINE k == [r \in R |-> r.from]
             K == {r.from : r \in R}
             g == [y \in K |-> Sum({x \in R : k[x] = y})]
  <2>1. /\ IsFiniteSet(K) /\ \A pop \in K : SourceMbps(R)[pop] \in Nat
        /\ SumSources(R) = SumFunctionOnSet(SourceMbps(R), K)
    BY SourceIsWellDefined
  <2>2. \A y \in K : g[y] \in Nat /\ g[y] <= SourceMbps(R)[y]
    <3> SUFFICES ASSUME NEW d \in R
                 PROVE  g[d.from] \in Nat /\ g[d.from] <= SourceMbps(R)[d.from]
      OBVIOUS
    <3>1. {x \in R : k[x] = d.from} = {x \in R : x.from = d.from}  OBVIOUS
    <3>2. g[d.from] = Sum({x \in R : x.from = d.from})  BY <3>1
    <3>3. SourceMbps(R)[d.from] = d.fromMbps  BY SourceIsWellDefined
    <3> QED  BY <1>1, <1>2, <3>2, <3>3, {x \in R : x.from = d.from} \in SUBSET R
  <2>3. \A x \in R : k[x] \in K  OBVIOUS
  <2>4. Sum(R) = SumFunctionOnSet(g, K)
    <3> HIDE DEF k, K
    <3> QED  BY <1>0, <2>1, <2>3, SumByClass, SMT
  <2> HIDE DEF g, K
  <2>5. IsSummable(g, K) /\ IsSummable(SourceMbps(R), K)  BY <2>1, <2>2, SMT DEF IsSummable
  <2>6. SumFunctionOnSet(g, K) <= SumFunctionOnSet(SourceMbps(R), K)  BY <2>2, <2>5, SumLeq
  <2> QED  BY <2>1, <2>4, <2>6
<1>4. Sum(R) <= SumSinks(R)
  <2> DEFINE k == [r \in R |-> r.to]
             K == {r.to : r \in R}
             g == [y \in K |-> Sum({x \in R : k[x] = y})]
  <2>1. /\ IsFiniteSet(K) /\ \A pop \in K : SinkMbps(R)[pop] \in Nat
        /\ SumSinks(R) = SumFunctionOnSet(SinkMbps(R), K)
    BY SinkIsWellDefined
  <2>2. \A y \in K : g[y] \in Nat /\ g[y] <= SinkMbps(R)[y]
    <3> SUFFICES ASSUME NEW d \in R
                 PROVE  g[d.to] \in Nat /\ g[d.to] <= SinkMbps(R)[d.to]
      OBVIOUS
    <3>1. {x \in R : k[x] = d.to} = {x \in R : x.to = d.to}  OBVIOUS
    <3>2. g[d.to] = Sum({x \in R : x.to = d.to})  BY <3>1
    <3>3. SinkMbps(R)[d.to] = d.toMbps  BY SinkIsWellDefined
    <3> QED  BY <1>1, <1>2, <3>2, <3>3, {x \in R : x.to = d.to} \in SUBSET R
  <2>3. \A x \in R : k[x] \in K  OBVIOUS
  <2>4. Sum(R) = SumFunctionOnSet(g, K)
    <3> HIDE DEF k, K
    <3> QED  BY <1>0, <2>1, <2>3, SumByClass, SMT
  <2> HIDE DEF g, K
  <2>5. IsSummable(g, K) /\ IsSummable(SinkMbps(R), K)  BY <2>1, <2>2, SMT DEF IsSummable
  <2>6. SumFunctionOnSet(g, K) <= SumFunctionOnSet(SinkMbps(R), K)  BY <2>2, <2>5, SumLeq
  <2> QED  BY <2>1, <2>4, <2>6
<1> QED  BY <1>3, <1>4, LabelLoadIsSmaller

\* A subset closed under "same class" inherits the fit.
LEMMA SubsetFits ==
    ASSUME NEW R, NEW traffic, Fits(traffic, R), NEW Q \in SUBSET R,
           \A q \in Q, r \in R : r.tenant = q.tenant /\ r.label = q.label => r \in Q
    PROVE  Fits(traffic, Q)
<1> SUFFICES ASSUME NEW d \in Q
             PROVE  LET Same == {x \in Q : x.tenant = d.tenant /\ x.label = d.label}
                    IN /\ SumFunctionOnSet(traffic, {x \in Same : x.from = d.from}) <= d.fromMbps
                       /\ SumFunctionOnSet(traffic, {x \in Same : x.to = d.to}) <= d.toMbps
  BY DEF Fits
<1>1. {x \in Q : x.tenant = d.tenant /\ x.label = d.label}
        = {x \in R : x.tenant = d.tenant /\ x.label = d.label}
  OBVIOUS
<1> QED  BY <1>1 DEF Fits

\* The classes of a tenant add up.
LEMMA TenantCovered ==
    ASSUME NEW R, AreDemands(R), AreOfOneTenant(R), NEW traffic, Fits(traffic, R)
    PROVE  SumFunctionOnSet(traffic, R) <= CalculateReservedBandwidth(R)
<1> DEFINE Sum(S) == SumFunctionOnSet(traffic, S)
           k == [r \in R |-> r.label]
           K == {r.label : r \in R}
           g == [y \in K |-> Sum({x \in R : k[x] = y})]
<1>1. /\ IsFiniteSet(K) /\ \A y \in K : LabelLoads(R)[y] \in Nat
      /\ CalculateReservedBandwidth(R) = SumFunctionOnSet(LabelLoads(R), K)
  BY TenantLoadIsSum
<1>2. IsFiniteSet(R) /\ (\A x \in R : traffic[x] \in Nat) /\ IsSummable(traffic, R)
  BY SMT DEF AreDemands, Fits, IsSummable
<1>3. ASSUME NEW y \in K  PROVE  g[y] \in Nat /\ g[y] <= LabelLoads(R)[y]
  <2> DEFINE Q == {r \in R : r.label = y}
  <2>1. AreDemands(Q) /\ AreOfOneClass(Q)
    BY SubsetOfDemands DEF AreOfOneClass, AreOfOneTenant
  <2>2. \A q \in Q, r \in R : r.tenant = q.tenant /\ r.label = q.label => r \in Q  OBVIOUS
  <2>3. Q \in SUBSET R  OBVIOUS
  <2>4. {x \in R : k[x] = y} = Q  OBVIOUS
  <2>5. g[y] = Sum(Q) /\ LabelLoads(R)[y] = LabelLoad(Q)  BY <2>4 DEF LabelLoads
  <2> HIDE DEF Q, g, K
  <2>6. Fits(traffic, Q)  BY <2>2, <2>3, SubsetFits
  <2>7. Sum(Q) <= LabelLoad(Q)  BY <2>1, <2>6, ClassCovered
  <2>8. IsFiniteSet(Q) /\ \A x \in Q : traffic[x] \in Nat  BY <1>2, <2>3, FS_Subset
  <2>9. Sum(Q) \in Nat  BY <2>8, SumNat
  <2> QED  BY <2>5, <2>7, <2>9
<1>4. \A x \in R : k[x] \in K  OBVIOUS
<1>5. Sum(R) = SumFunctionOnSet(g, K)
  <2> HIDE DEF k, K
  <2> QED  BY <1>1, <1>2, <1>4, SumByClass, SMT
<1> HIDE DEF g, K
<1>6. IsSummable(g, K) /\ IsSummable(LabelLoads(R), K)  BY <1>1, <1>3, SMT DEF IsSummable
<1>7. SumFunctionOnSet(g, K) <= SumFunctionOnSet(LabelLoads(R), K)  BY <1>3, <1>6, SumLeq
<1> QED  BY <1>1, <1>5, <1>7

\* The tenants add up: traffic that fits every source and every sink is carried
\* by the bandwidth reserved, whatever the demands.
THEOREM HoseCovers ==
    ASSUME NEW R, AreDemands(R), NEW traffic, Fits(traffic, R)
    PROVE  SumFunctionOnSet(traffic, R) <= HoseLoad(R)
<1> DEFINE Sum(S) == SumFunctionOnSet(traffic, S)
           k == [r \in R |-> r.tenant]
           K == {r.tenant : r \in R}
           g == [y \in K |-> Sum({x \in R : k[x] = y})]
<1>1. /\ IsFiniteSet(K) /\ \A y \in K : TenantLoads(R)[y] \in Nat
      /\ HoseLoad(R) = SumFunctionOnSet(TenantLoads(R), K)
  BY HoseLoadIsSum
<1>2. IsFiniteSet(R) /\ (\A x \in R : traffic[x] \in Nat) /\ IsSummable(traffic, R)
  BY SMT DEF AreDemands, Fits, IsSummable
<1>3. ASSUME NEW y \in K  PROVE  g[y] \in Nat /\ g[y] <= TenantLoads(R)[y]
  <2> DEFINE Q == {r \in R : r.tenant = y}
  <2>1. AreDemands(Q) /\ AreOfOneTenant(Q)  BY SubsetOfDemands DEF AreOfOneTenant
  <2>2. \A q \in Q, r \in R : r.tenant = q.tenant /\ r.label = q.label => r \in Q  OBVIOUS
  <2>3. Q \in SUBSET R  OBVIOUS
  <2>4. {x \in R : k[x] = y} = Q  OBVIOUS
  <2>5. g[y] = Sum(Q) /\ TenantLoads(R)[y] = CalculateReservedBandwidth(Q)
    BY <2>4 DEF TenantLoads
  <2> HIDE DEF Q, g, K
  <2>6. Fits(traffic, Q)  BY <2>2, <2>3, SubsetFits
  <2>7. Sum(Q) <= CalculateReservedBandwidth(Q)  BY <2>1, <2>6, TenantCovered
  <2>8. IsFiniteSet(Q) /\ \A x \in Q : traffic[x] \in Nat  BY <1>2, <2>3, FS_Subset
  <2>9. Sum(Q) \in Nat  BY <2>8, SumNat
  <2> QED  BY <2>5, <2>7, <2>9
<1>4. \A x \in R : k[x] \in K  OBVIOUS
<1>5. Sum(R) = SumFunctionOnSet(g, K)
  <2> HIDE DEF k, K
  <2> QED  BY <1>1, <1>2, <1>4, SumByClass, SMT
<1> HIDE DEF g, K
<1>6. IsSummable(g, K) /\ IsSummable(TenantLoads(R), K)  BY <1>1, <1>3, SMT DEF IsSummable
<1>7. SumFunctionOnSet(g, K) <= SumFunctionOnSet(TenantLoads(R), K)  BY <1>3, <1>6, SumLeq
<1> QED  BY <1>1, <1>5, <1>7

-------------------------------------------------------------------------------
\* A catalogue has finitely many demands.
LEMMA BuildDemandsFinite ==
    ASSUME NEW catalogue \in SiteCatalogues
    PROVE  IsFiniteSet(BuildDemands(catalogue))
<1> DEFINE Demand(a, b, label) ==
             [tenant   |-> a.tenant, tier |-> a.tier, label |-> label,
              from     |-> a.attach, to   |-> b.attach,
              fromMbps |-> PopMbps(catalogue, a.tenant, a.attach, label),
              toMbps   |-> PopMbps(catalogue, a.tenant, b.attach, label)]
           S == (catalogue \X catalogue) \X DOMAIN ClassIndex
           f == [x \in S |-> Demand(x[1][1], x[1][2], x[2])]
<1>1. IsFiniteSet(S)
  BY SiteAssumption, ClassAssumption, FS_Product
<1>2. BuildDemands(catalogue) \subseteq {f[x] : x \in S}
  <2> SUFFICES ASSUME NEW d \in BuildDemands(catalogue)  PROVE  \E x \in S : d = f[x]
    OBVIOUS
  <2>1. PICK a \in catalogue, b \in catalogue, label \in DOMAIN ClassIndex :
           d = Demand(a, b, label)
    BY SMT DEF BuildDemands
  <2>2. <<<<a, b>>, label>> \in S /\ f[<<<<a, b>>, label>>] = Demand(a, b, label)  OBVIOUS
  <2> QED  BY <2>1, <2>2
<1> HIDE DEF S, f
<1>3. IsFiniteSet({f[x] : x \in S})  BY <1>1, ImageIsFinite
<1> QED  BY <1>2, <1>3, FS_Subset

\* The sort key tells two demands of a catalogue apart.
LEMMA SortKeyInjective ==
    ASSUME NEW catalogue \in SiteCatalogues,
           NEW a \in BuildDemands(catalogue), NEW b \in BuildDemands(catalogue),
           \A i \in 1..6 : SortKey(a)[i] = SortKey(b)[i]
    PROVE  a = b
<1>1. /\ -a.tier = -b.tier /\ -ClassIndex[a.label] = -ClassIndex[b.label]
      /\ a.tenant = b.tenant /\ a.from = b.from /\ a.to = b.to
  <2>1. /\ SortKey(a)[2] = SortKey(b)[2] /\ SortKey(a)[3] = SortKey(b)[3]
        /\ SortKey(a)[4] = SortKey(b)[4] /\ SortKey(a)[5] = SortKey(b)[5]
        /\ SortKey(a)[6] = SortKey(b)[6]
    BY SMT
  <2> QED  BY <2>1 DEF SortKey
<1>2. a.label = b.label /\ a.tier = b.tier
  BY <1>1, BuildDemandsFields, ClassAssumption, SMT
<1> QED  BY <1>1, <1>2, BuildDemandsFields, SMT

\* Sort keys are six integers.
LEMMA SortKeyType ==
    ASSUME NEW catalogue \in SiteCatalogues, NEW d \in BuildDemands(catalogue)
    PROVE  \A i \in 1..6 : SortKey(d)[i] \in Int
<1>1. /\ d.tier \in Int /\ d.tenant \in Int /\ d.from \in Int /\ d.to \in Int
      /\ d.label \in DOMAIN ClassIndex /\ ClassIndex[d.label] \in Nat
  BY BuildDemandsFields, ClassAssumption
<1>2. IsLabelDefault(d.label) \in Int  BY SMT DEF IsLabelDefault
<1>3. -d.tier \in Int /\ -ClassIndex[d.label] \in Int  BY <1>1, SMT
<1> QED  BY <1>1, <1>2, <1>3, SMT DEF SortKey

\* The comparator of the sort is a strict total order of a catalogue's demands,
\* so the outcome of the sort does not depend on the algorithm.
THEOREM PrecedesIsTotalOrder ==
    ASSUME NEW catalogue \in SiteCatalogues
    PROVE  LET D == BuildDemands(catalogue)
           IN /\ \A a \in D : ~ Precedes(a, a)
              /\ \A a, b, c \in D : Precedes(a, b) /\ Precedes(b, c) => Precedes(a, c)
              /\ \A a, b \in D : a = b \/ Precedes(a, b) \/ Precedes(b, a)
<1> DEFINE D == BuildDemands(catalogue)
<1>0. \A d \in D : \A i \in 1..6 : SortKey(d)[i] \in Int  BY SortKeyType
<1>1. ASSUME NEW a \in D  PROVE  ~ Precedes(a, a)
  BY <1>0, SMT DEF Precedes
<1>2. ASSUME NEW a \in D, NEW b \in D, NEW c \in D, Precedes(a, b), Precedes(b, c)
      PROVE  Precedes(a, c)
  <2>1. PICK i \in 1..6 : /\ SortKey(a)[i] < SortKey(b)[i]
                          /\ \A j \in 1..(i - 1) : SortKey(a)[j] = SortKey(b)[j]
    BY <1>2 DEF Precedes
  <2>2. PICK k \in 1..6 : /\ SortKey(b)[k] < SortKey(c)[k]
                          /\ \A j \in 1..(k - 1) : SortKey(b)[j] = SortKey(c)[j]
    BY <1>2 DEF Precedes
  <2> DEFINE m == IF i <= k THEN i ELSE k
  <2>3. m \in 1..6 /\ m <= i /\ m <= k  BY SMT
  <2>4. \A j \in 1..(m - 1) : SortKey(a)[j] = SortKey(c)[j]
    <3> TAKE j \in 1..(m - 1)
    <3>1. j \in 1..(i - 1) /\ j \in 1..(k - 1)  BY <2>3, SMT
    <3> QED  BY <2>1, <2>2, <3>1
  <2>5. SortKey(a)[m] < SortKey(c)[m]
    <3>1. CASE i < k
      <4>1. m = i /\ i \in 1..(k - 1)  BY <3>1, SMT
      <4>2. SortKey(b)[i] = SortKey(c)[i]  BY <2>2, <4>1
      <4> QED  BY <2>1, <4>1, <4>2
    <3>2. CASE k < i
      <4>1. m = k /\ k \in 1..(i - 1)  BY <3>2, SMT
      <4>2. SortKey(a)[k] = SortKey(b)[k]  BY <2>1, <4>1
      <4> QED  BY <2>2, <4>1, <4>2
    <3>3. CASE i = k
      <4>1. m = i  BY <3>3
      <4>2. SortKey(a)[i] \in Int /\ SortKey(b)[i] \in Int /\ SortKey(c)[i] \in Int  BY <1>0
      <4> QED  BY <2>1, <2>2, <3>3, <4>1, <4>2, SMT
    <3> QED  BY <3>1, <3>2, <3>3, SMT
  <2> HIDE DEF m
  <2> QED  BY <2>3, <2>4, <2>5 DEF Precedes
<1>3. ASSUME NEW a \in D, NEW b \in D, a # b  PROVE  Precedes(a, b) \/ Precedes(b, a)
  <2> DEFINE X == {i \in 1..6 : SortKey(a)[i] # SortKey(b)[i]}
  <2>1. X \in SUBSET Nat /\ X # {}  BY <1>3, SortKeyInjective, SMT
  <2>2. PICK m \in X : \A k \in X : m <= k
    <3> HIDE DEF X
    <3> QED  BY <2>1, NatLeast
  <2>3. \A j \in 1..(m - 1) : SortKey(a)[j] = SortKey(b)[j]
    <3> TAKE j \in 1..(m - 1)
    <3>1. j \in 1..6 /\ ~(m <= j)  BY SMT
    <3> QED  BY <2>2, <3>1
  <2>4. SortKey(a)[m] < SortKey(b)[m] \/ SortKey(b)[m] < SortKey(a)[m]
    <3>1. SortKey(a)[m] \in Int /\ SortKey(b)[m] \in Int  BY <1>0
    <3> QED  BY <3>1, SMT
  <2>5. m \in 1..6  OBVIOUS
  <2> HIDE DEF X
  <2> QED  BY <2>3, <2>4, <2>5 DEF Precedes
<1> QED  BY <1>1, <1>2, <1>3

\* The place of a demand in the order, counted from 0.
Rank(D) == [d \in D |-> Cardinality({x \in D : Precedes(x, d)})]

\* Ranks are the places 0 .. n - 1, each taken once, in the order of Precedes.
LEMMA RankIsPlace ==
    ASSUME NEW catalogue \in SiteCatalogues
    PROVE  LET D == BuildDemands(catalogue)
           IN /\ Cardinality(D) \in Nat
              /\ Rank(D) \in Injection(D, 0..(Cardinality(D) - 1))
              /\ Rank(D) \in Surjection(D, 0..(Cardinality(D) - 1))
              /\ \A a, b \in D : Rank(D)[a] < Rank(D)[b] => Precedes(a, b)
<1> DEFINE D == BuildDemands(catalogue)
           n == Cardinality(D)
           Below(d) == {x \in D : Precedes(x, d)}
<1>1. IsFiniteSet(D) /\ n \in Nat  BY BuildDemandsFinite, FS_CardinalityType
<1>2. /\ \A a \in D : ~ Precedes(a, a)
      /\ \A a, b, c \in D : Precedes(a, b) /\ Precedes(b, c) => Precedes(a, c)
      /\ \A a, b \in D : a = b \/ Precedes(a, b) \/ Precedes(b, a)
  BY PrecedesIsTotalOrder
<1> HIDE DEF D
<1>3. \A d \in D : IsFiniteSet(Below(d)) /\ Cardinality(Below(d)) \in Nat
  <2> TAKE d \in D
  <2>1. Below(d) \in SUBSET D  OBVIOUS
  <2>2. IsFiniteSet(Below(d))  BY <1>1, <2>1, FS_Subset
  <2> QED  BY <2>2, FS_CardinalityType
<1>4. \A d \in D : Cardinality(Below(d)) \in 0..(n - 1)
  <2> TAKE d \in D
  <2>1. Below(d) \in SUBSET D /\ Below(d) # D  BY <1>2
  <2>2. Cardinality(Below(d)) <= n /\ Cardinality(Below(d)) # n  BY <1>1, <2>1, FS_Subset
  <2> QED  BY <1>1, <1>3, <2>2, SMT
<1>5. ASSUME NEW a \in D, NEW b \in D, Precedes(a, b)
      PROVE  Cardinality(Below(a)) < Cardinality(Below(b))
  <2>1. Below(a) \in SUBSET Below(b) /\ Below(a) # Below(b)  BY <1>2, <1>5
  <2>2. /\ Cardinality(Below(a)) <= Cardinality(Below(b))
        /\ Cardinality(Below(a)) # Cardinality(Below(b))
    BY <1>3, <2>1, FS_Subset
  <2>3. Cardinality(Below(a)) \in Nat /\ Cardinality(Below(b)) \in Nat  BY <1>3
  <2> HIDE DEF Below
  <2> QED  BY <2>2, <2>3, SMT
<1>6. \A d \in D : Rank(D)[d] = Cardinality(Below(d))  BY DEF Rank
<1>7. Rank(D) \in [D -> 0..(n - 1)]  BY <1>4 DEF Rank
<1> HIDE DEF Below
<1>8. \A a, b \in D : Rank(D)[a] = Rank(D)[b] => a = b
  BY <1>2, <1>3, <1>5, <1>6, SMT
<1>9. Rank(D) \in Injection(D, 0..(n - 1))  BY <1>7, <1>8 DEF Injection, IsInjective
<1>10. Rank(D) \in Surjection(D, 0..(n - 1))
  <2>1. IsFiniteSet(0..(n - 1)) /\ Cardinality(0..(n - 1)) = n
    BY <1>1, FS_Interval, SMT
  <2> QED  BY <1>9, <2>1, FS_Injection
<1>11. \A a, b \in D : Rank(D)[a] < Rank(D)[b] => Precedes(a, b)
  BY <1>2, <1>3, <1>5, <1>6, SMT
<1> QED  BY <1>1, <1>9, <1>10, <1>11 DEF D

\* The sorted list holds every demand once, each before those it precedes.
LEMMA DemandOrderIsSorted ==
    ASSUME NEW catalogue \in SiteCatalogues
    PROVE  LET D == BuildDemands(catalogue)
               o == DemandOrder(D)
           IN /\ o \in [1..Cardinality(D) -> D]
              /\ \A d \in D : \E i \in DOMAIN o : o[i] = d
              /\ \A i, j \in DOMAIN o : i < j => Precedes(o[i], o[j])
<1> DEFINE D == BuildDemands(catalogue)
           n == Cardinality(D)
           o == DemandOrder(D)
<1>1. /\ n \in Nat
      /\ Rank(D) \in [D -> 0..(n - 1)]
      /\ \A a, b \in D : Rank(D)[a] = Rank(D)[b] => a = b
      /\ \A k \in 0..(n - 1) : \E d \in D : Rank(D)[d] = k
      /\ \A a, b \in D : Rank(D)[a] < Rank(D)[b] => Precedes(a, b)
  BY RankIsPlace DEF Injection, IsInjective, Surjection
<1> HIDE DEF D
<1>2. \A i \in 1..n : o[i] = CHOOSE d \in D : Rank(D)[d] = i - 1
  BY DEF DemandOrder, Rank
<1>3. DOMAIN o = 1..n  BY DEF DemandOrder
<1>4. \A i \in 1..n : o[i] \in D /\ Rank(D)[o[i]] = i - 1
  <2> TAKE i \in 1..n
  <2>1. i - 1 \in 0..(n - 1)  BY <1>1, SMT
  <2>2. \E d \in D : Rank(D)[d] = i - 1  BY <1>1, <2>1
  <2> QED  BY <1>2, <2>2
<1>5. o \in [1..n -> D]  BY <1>4 DEF DemandOrder
<1>6. \A d \in D : \E i \in DOMAIN o : o[i] = d
  <2> TAKE d \in D
  <2>1. Rank(D)[d] + 1 \in 1..n  BY <1>1, SMT
  <2>2. Rank(D)[o[Rank(D)[d] + 1]] = Rank(D)[d]  BY <1>1, <1>4, <2>1, SMT
  <2>3. o[Rank(D)[d] + 1] = d  BY <1>1, <1>4, <2>1, <2>2
  <2> QED  BY <1>3, <2>1, <2>3
<1>7. \A i, j \in DOMAIN o : i < j => Precedes(o[i], o[j])
  <2> SUFFICES ASSUME NEW i \in 1..n, NEW j \in 1..n, i < j  PROVE  Precedes(o[i], o[j])
    BY <1>3
  <2>1. Rank(D)[o[i]] < Rank(D)[o[j]]  BY <1>1, <1>4, SMT
  <2> QED  BY <1>1, <1>4, <2>1
<1> QED  BY <1>5, <1>6, <1>7 DEF D

-------------------------------------------------------------------------------
\* What BandwidthReservation assumes of the load of an edge holds of the hose
\* load, for the demands of any catalogue.
THEOREM HoseLoadMeetsAssumptions ==
    ASSUME NEW catalogue \in SiteCatalogues
    PROVE  /\ \A R \in SUBSET BuildDemands(catalogue) :
                 /\ HoseLoad(R) \in Nat
                 /\ \A d \in BuildDemands(catalogue) : HoseLoad(R \ {d}) <= HoseLoad(R)
           /\ HoseLoad({}) = 0
<1>1. ASSUME NEW R \in SUBSET BuildDemands(catalogue)  PROVE  AreDemands(R)
  BY BuildDemandsFinite, FS_Subset, CatalogueDemands
<1>2. ASSUME NEW R \in SUBSET BuildDemands(catalogue)
      PROVE  /\ HoseLoad(R) \in Nat
             /\ \A d \in BuildDemands(catalogue) : HoseLoad(R \ {d}) <= HoseLoad(R)
  BY <1>1, HoseLoadIsSum, HoseLoadMonotone
<1>3. HoseLoad({}) = 0
  <2>1. AreDemands({})  BY FS_EmptySet DEF AreDemands
  <2>2. HoseLoad({}) = SumFunctionOnSet(TenantLoads({}), {r.tenant : r \in {}})
    BY <2>1, HoseLoadIsSum
  <2>3. {r.tenant : r \in {}} = {}  OBVIOUS
  <2> QED  BY <2>2, <2>3, SumEmpty
<1> QED  BY <1>2, <1>3

\* The inductive invariant: the list is the sorted list of the catalogue's
\* demands, and only they are booked.
OrderInv ==
    /\ sites \in SiteCatalogues
    /\ order = DemandOrder(BuildDemands(sites))
    /\ booked \subseteq BuildDemands(sites)

\* Every booking and release keeps the demands in the order they are placed.
LEMMA OrderInvHolds == Spec => []OrderInv
<1>1. Init => OrderInv  BY DEF Init, OrderInv
<1>2. OrderInv /\ [Next]_vars => OrderInv'
  <2> SUFFICES ASSUME OrderInv, [Next]_vars  PROVE  OrderInv'
    OBVIOUS
  <2>1. ASSUME NEW d \in Demanded, Book(d)  PROVE  OrderInv'
    <3>1. order \in [1..Cardinality(BuildDemands(sites)) -> BuildDemands(sites)]
      BY DemandOrderIsSorted DEF OrderInv
    <3>2. d \in BuildDemands(sites)  BY <3>1 DEF Demanded
    <3> QED  BY <2>1, <3>2 DEF Book, OrderInv
  <2>2. ASSUME NEW d \in Demanded, Release(d)  PROVE  OrderInv'
    BY <2>2 DEF Release, OrderInv
  <2>3. CASE UNCHANGED vars  BY <2>3 DEF vars, OrderInv
  <2> QED  BY <2>1, <2>2, <2>3 DEF Next
<1> QED  BY <1>1, <1>2, PTL DEF Spec

\* Type correctness.
THEOREM HoseEdgeTyped == Spec => []TypeOK
<1>1. OrderInv => TypeOK  BY DemandOrderIsSorted DEF OrderInv, TypeOK
<1> QED  BY <1>1, OrderInvHolds, PTL

\* Demands are placed in the order of their priority, each once, for any
\* catalogue of sites and of classes.
THEOREM PlacedByPriority == Spec => []OrderIsPriority
<1>1. ASSUME OrderInv  PROVE  OrderIsPriority
  <2> DEFINE D == BuildDemands(sites)
  <2>0. sites \in SiteCatalogues  BY <1>1 DEF OrderInv
  <2>1. /\ order \in [1..Cardinality(D) -> D]
        /\ \A d \in D : \E i \in DOMAIN order : order[i] = d
        /\ \A i, j \in DOMAIN order : i < j => Precedes(order[i], order[j])
    BY <1>1, DemandOrderIsSorted DEF OrderInv
  <2>2. Demanded = D  BY <2>1 DEF Demanded
  <2>3. ASSUME NEW a \in D, NEW b \in D, Precedes(a, b), b.label # DefaultClassLabel
        PROVE  a.label # DefaultClassLabel /\ a.tier >= b.tier
    <3>1. \A i \in 1..6 : SortKey(a)[i] \in Int /\ SortKey(b)[i] \in Int
      BY <2>0, SortKeyType
    <3>2. /\ SortKey(a)[1] <= SortKey(b)[1]
          /\ SortKey(a)[1] = SortKey(b)[1] => SortKey(a)[2] <= SortKey(b)[2]
      <4>1. PICK i \in 1..6 : /\ SortKey(a)[i] < SortKey(b)[i]
                              /\ \A j \in 1..(i - 1) : SortKey(a)[j] = SortKey(b)[j]
        BY <2>3 DEF Precedes
      <4>2. CASE i = 1  BY <3>1, <4>1, <4>2, SMT
      <4>3. CASE i = 2
        <5>1. SortKey(a)[1] = SortKey(b)[1]  BY <4>1, <4>3, SMT
        <5> QED  BY <3>1, <4>1, <4>3, <5>1, SMT
      <4>4. CASE i > 2
        <5>1. 1 \in 1..(i - 1) /\ 2 \in 1..(i - 1)  BY <4>4, SMT
        <5> QED  BY <3>1, <4>1, <5>1, SMT
      <4> QED  BY <4>2, <4>3, <4>4, SMT
    <3>3. /\ SortKey(a)[1] = IsLabelDefault(a.label) /\ SortKey(b)[1] = IsLabelDefault(b.label)
          /\ SortKey(a)[2] = -a.tier /\ SortKey(b)[2] = -b.tier
      BY DEF SortKey
    <3>4. a.tier \in Int /\ b.tier \in Int  BY <2>0, BuildDemandsFields
    <3> QED  BY <2>3, <3>2, <3>3, <3>4, SMT DEF IsLabelDefault
  <2> HIDE DEF D
  <2>4. \A i, j \in DOMAIN order : i < j =>
           /\ order[j].label # DefaultClassLabel =>
                 /\ order[i].label # DefaultClassLabel
                 /\ order[i].tier >= order[j].tier
    BY <2>1, <2>3
  <2> QED  BY <2>2, <2>4 DEF OrderIsPriority, D
<1> QED  BY <1>1, OrderInvHolds, PTL

\* Every traffic matrix within the contracts fits in the bandwidth reserved for
\* it, whatever is booked on the edge.
THEOREM ContractsCovered == Spec => []HoseCoversContracts
<1>1. ASSUME OrderInv  PROVE  HoseCoversContracts
  <2>0. sites \in SiteCatalogues /\ booked \in SUBSET BuildDemands(sites)
    BY <1>1 DEF OrderInv
  <2>1. AreDemands(booked)  BY <2>0, BuildDemandsFinite, FS_Subset, CatalogueDemands
  <2> SUFFICES ASSUME NEW traffic \in TrafficMatrices, WithinContract(traffic)
               PROVE  SumFunctionOnSet(traffic, booked) <= HoseLoad(booked)
    BY DEF HoseCoversContracts
  <2>2. \A x \in booked : traffic[x] \in Nat
    <3> DEFINE k == [d \in booked |-> d.fromMbps]
               S == {k[d] : d \in booked}
    <3>1. IsFiniteSet(booked) /\ S \subseteq Nat  BY <2>1 DEF AreDemands
    <3>2. S = {d.fromMbps : d \in booked}  OBVIOUS
    <3>3. IsFiniteSet(S)  BY <3>1, ImageIsFinite
    <3> HIDE DEF S
    <3>4. IsFiniteSet({0} \cup S)  BY <3>3, FS_Singleton, FS_Union
    <3>5. {0} \cup S \in SUBSET Nat /\ {0} \cup S # {}  BY <3>1, SMT
    <3>6. Max({0} \cup S) \in Nat  BY <3>4, <3>5, MaxOfFinite
    <3> QED  BY <3>2, <3>6, SMT DEF TrafficMatrices
  <2>3. \A d \in booked : /\ d.fromMbps = PopMbps(sites, d.tenant, d.from, d.label)
                          /\ d.toMbps = PopMbps(sites, d.tenant, d.to, d.label)
    BY <2>0, BuildDemandsFields
  <2>4. Fits(traffic, booked)  BY <2>2, <2>3 DEF Fits, WithinContract
  <2> QED  BY <2>1, <2>4, HoseCovers
<1> QED  BY <1>1, OrderInvHolds, PTL

\* Releasing a reservation never raises the load of the edge.
THEOREM ReleaseOnlyFrees == Spec => ReleaseNeverRaisesLoad
<1>1. ASSUME OrderInv, [Next]_vars
      PROVE  [HoseLoad(booked') > HoseLoad(booked) => booked \subseteq booked']_vars
  <2>1. AreDemands(booked)
    BY <1>1, BuildDemandsFinite, FS_Subset, CatalogueDemands DEF OrderInv
  <2>2. ASSUME NEW d \in Demanded, Book(d)  PROVE  booked \subseteq booked'
    BY <2>2 DEF Book
  <2>3. ASSUME NEW d \in Demanded, Release(d)  PROVE  ~(HoseLoad(booked') > HoseLoad(booked))
    <3>1. booked' \in SUBSET booked  BY <2>3 DEF Release
    <3>2. HoseLoad(booked') <= HoseLoad(booked)  BY <2>1, <3>1, HoseLoadMonotone
    <3>3. HoseLoad(booked') \in Nat /\ HoseLoad(booked) \in Nat
      BY <2>1, <3>1, SubsetOfDemands, HoseLoadIsSum
    <3> QED  BY <3>2, <3>3, SMT
  <2> QED  BY <1>1, <2>2, <2>3 DEF Next
<1> QED  BY <1>1, OrderInvHolds, PTL DEF Spec, ReleaseNeverRaisesLoad
===============================================================================
