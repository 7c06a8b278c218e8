------------------------------ MODULE SumFacts ------------------------------
(***************************************************************************)
(* Induction over numbers and finite sets, and sums over finite sets.       *)
(* No prover here takes an induction rule with a predicate as its           *)
(* parameter, so induction is stated with sets: a set of numbers that has 0 *)
(* and the successors of its members has every number.  It comes from the   *)
(* well-foundedness of the numbers.  Sums and folds are recursive functions *)
(* over the subsets of a finite set; that there are such functions is       *)
(* proved here as well.                                                     *)
(***************************************************************************)
EXTENDS Integers, FiniteSets, Functions, FiniteSetTheorems, WellFoundedInduction, TLAPS

LEMMA LeastNumber ==
  ASSUME NEW T \in SUBSET Nat, T # {}
  PROVE  \E x \in T : \A y \in T : x <= y
<1>1. PICK x \in T : \A y \in T : <<y, x>> \notin OpToRel(<, Nat)
  BY NatLessThanWellFounded, WFMin
<1>2. \A y \in T : ~(y < x)
  BY <1>1 DEF OpToRel
<1> QED
  BY <1>2

LEMMA NumberInduction ==
  ASSUME NEW T, 0 \in T, \A n \in Nat : n \in T => n + 1 \in T
  PROVE  Nat \subseteq T
<1> SUFFICES ASSUME Nat \ T # {} PROVE FALSE
  OBVIOUS
<1>1. PICK x \in Nat \ T : \A y \in Nat \ T : x <= y
  BY LeastNumber
<1>2. x # 0 /\ x - 1 \in Nat
  BY <1>1
<1>3. x - 1 \in T
  BY <1>1, <1>2
<1> QED
  BY <1>2, <1>3

(* A family of sets that has the empty set, and with a set every set with   *)
(* one more member, has every finite set.                                   *)
LEMMA SetInduction ==
  ASSUME NEW S, IsFiniteSet(S), NEW F, {} \in F,
         \A s \in SUBSET S : \A x \in S \ s : s \in F => s \cup {x} \in F
  PROVE  \A s \in SUBSET S : s \in F
<1> DEFINE T == {n \in Nat : \A s \in SUBSET S : Cardinality(s) = n => s \in F}
<1>0. \A s \in SUBSET S : IsFiniteSet(s) /\ Cardinality(s) \in Nat
  BY FS_Subset, FS_CardinalityType
<1>1. 0 \in T
  BY <1>0, FS_EmptySet
<1>2. ASSUME NEW n \in Nat, n \in T PROVE n + 1 \in T
  <2>1. SUFFICES ASSUME NEW s \in SUBSET S, Cardinality(s) = n + 1 PROVE s \in F
    OBVIOUS
  <2>2. PICK x \in s : TRUE
    BY <2>1, <1>0, FS_EmptySet
  <2>3. Cardinality(s \ {x}) = Cardinality(s) - 1
    BY <1>0, FS_RemoveElement
  <2>4. s \ {x} \in F
    BY <2>1, <2>3, <1>2
  <2> QED
    BY <2>4, (s \ {x}) \cup {x} = s
<1> HIDE DEF T
<1>3. Nat \subseteq T
  BY <1>1, <1>2, NumberInduction
<1> QED
  BY <1>3, <1>0 DEF T

(* A function may be defined on the subsets of a finite set by taking one   *)
(* member away at a time, in whatever order.                                *)
Picks(S, pick) == \A s \in SUBSET S : s # {} => pick[s] \in s

StepsIn(S, V, step) == \A x \in S, v \in V : step[x][v] \in V

FoldsTo(S, V, base, pick, step, g) ==
  /\ g \in [SUBSET S -> V]
  /\ g[{}] = base
  /\ \A s \in SUBSET S : s # {} => g[s] = step[pick[s]][g[s \ {pick[s]}]]

LEMMA FoldExists ==
  ASSUME NEW S, IsFiniteSet(S), NEW V, NEW base \in V, NEW pick, NEW step,
         Picks(S, pick), StepsIn(S, V, step)
  PROVE  \E g : FoldsTo(S, V, base, pick, step, g)
<1> USE DEF Picks, StepsIn, FoldsTo
<1> DEFINE D(n) == {s \in SUBSET S : Cardinality(s) <= n}
<1> DEFINE Fits(g, n) ==
     /\ g \in [D(n) -> V] /\ g[{}] = base
     /\ \A s \in D(n) : s # {} => g[s] = step[pick[s]][g[s \ {pick[s]}]]
<1> DEFINE T == {n \in Nat : \E g : Fits(g, n)}
<1>0. \A s \in SUBSET S : IsFiniteSet(s) /\ Cardinality(s) \in Nat
  BY FS_Subset, FS_CardinalityType
<1>1. 0 \in T
  <2>1. D(0) = {{}}
    BY <1>0, FS_EmptySet
  <2>2. Fits([s \in D(0) |-> base], 0)
    BY <2>1
  <2> QED
    BY <2>2
<1>2. ASSUME NEW n \in Nat, n \in T PROVE n + 1 \in T
  <2>1. PICK g : Fits(g, n)
    BY <1>2
  <2>2. \A s \in D(n + 1) : s # {} => pick[s] \in S /\ s \ {pick[s]} \in D(n)
    <3>1. SUFFICES ASSUME NEW s \in D(n + 1), s # {}
                   PROVE  pick[s] \in S /\ s \ {pick[s]} \in D(n)
      OBVIOUS
    <3>2. pick[s] \in s
      BY <3>1
    <3>3. Cardinality(s \ {pick[s]}) = Cardinality(s) - 1
      BY <3>2, <1>0, FS_RemoveElement
    <3> QED
      BY <3>1, <3>2, <3>3, <1>0
  <2>3. D(n) \subseteq D(n + 1) /\ {} \in D(n)
    BY <1>0, FS_EmptySet
  <2> DEFINE h == [s \in D(n + 1) |-> IF s = {} THEN base ELSE step[pick[s]][g[s \ {pick[s]}]]]
  <2>4. h \in [D(n + 1) -> V]
    BY <2>1, <2>2
  <2>5. \A s \in D(n) : h[s] = g[s]
    BY <2>1, <2>3
  <2>6. Fits(h, n + 1)
    BY <2>2, <2>3, <2>4, <2>5
  <2> HIDE DEF Fits, h
  <2> QED
    BY <2>6
<1> HIDE DEF T
<1>3. Nat \subseteq T
  BY <1>1, <1>2, NumberInduction
<1>4. PICK g : Fits(g, Cardinality(S))
  BY <1>0, <1>3 DEF T
<1>5. D(Cardinality(S)) = SUBSET S
  BY <1>0, FS_Subset
<1> QED
  BY <1>4, <1>5

-----------------------------------------------------------------------------
(* Sums.                                                                    *)
AnyOf(s) == CHOOSE x \in s : TRUE

Adds(f, S, g) ==
  g = [s \in SUBSET S |-> IF s = {} THEN 0 ELSE f[AnyOf(s)] + g[s \ {AnyOf(s)}]]

LEMMA SumDef ==
  ASSUME NEW f, NEW S
  PROVE  SumFunctionOnSet(f, S) = (CHOOSE g : Adds(f, S, g))[S]
BY DEF SumFunctionOnSet, FoldFunctionOnSet, MapThenFoldSet, AnyOf, Adds

LEMMA AddsExists ==
  ASSUME NEW S, IsFiniteSet(S), NEW f, \A x \in S : f[x] \in Int
  PROVE  \E g : Adds(f, S, g)
<1> DEFINE pick == [s \in SUBSET S |-> AnyOf(s)]
<1> DEFINE step == [x \in S |-> [v \in Int |-> f[x] + v]]
<1>1. Picks(S, pick)
  BY DEF Picks, AnyOf
<1>2. StepsIn(S, Int, step)
  BY DEF StepsIn
<1>3. PICK g : FoldsTo(S, Int, 0, pick, step, g)
  <2>1. 0 \in Int
    OBVIOUS
  <2> HIDE DEF pick, step
  <2> QED
    BY <1>1, <1>2, <2>1, FoldExists
<1>4. \A s \in SUBSET S : s # {} => g[s] = f[AnyOf(s)] + g[s \ {AnyOf(s)}]
  <2>1. SUFFICES ASSUME NEW s \in SUBSET S, s # {}
                 PROVE  g[s] = f[AnyOf(s)] + g[s \ {AnyOf(s)}]
    OBVIOUS
  <2>2. AnyOf(s) \in S /\ s \ {AnyOf(s)} \in SUBSET S
    BY <2>1 DEF AnyOf
  <2>3. g[s \ {AnyOf(s)}] \in Int
    BY <2>2, <1>3 DEF FoldsTo
  <2>4. g[s] = step[AnyOf(s)][g[s \ {AnyOf(s)}]]
    BY <2>1, <1>3 DEF FoldsTo
  <2> QED
    BY <2>2, <2>3, <2>4
<1>5. Adds(f, S, g)
  BY <1>3, <1>4 DEF Adds, FoldsTo
<1> QED
  BY <1>5

(* Two such functions agree wherever both are defined.                      *)
LEMMA AddsUnique ==
  ASSUME NEW f, NEW S, IsFiniteSet(S), NEW g, Adds(f, S, g), NEW R \in SUBSET S, NEW h, Adds(f, R, h)
  PROVE  \A s \in SUBSET R : g[s] = h[s]
<1> DEFINE T == {n \in Nat : \A s \in SUBSET R : Cardinality(s) = n => g[s] = h[s]}
<1>0. \A s \in SUBSET R : IsFiniteSet(s) /\ Cardinality(s) \in Nat
  BY FS_Subset, FS_CardinalityType
<1>1. 0 \in T
  BY <1>0, FS_EmptySet DEF Adds
<1>2. ASSUME NEW n \in Nat, n \in T PROVE n + 1 \in T
  <2>1. SUFFICES ASSUME NEW s \in SUBSET R, Cardinality(s) = n + 1 PROVE g[s] = h[s]
    OBVIOUS
  <2>2. s # {} /\ AnyOf(s) \in s
    BY <2>1, <1>0, FS_EmptySet DEF AnyOf
  <2>3. Cardinality(s \ {AnyOf(s)}) = Cardinality(s) - 1
    BY <2>2, <1>0, FS_RemoveElement
  <2>4. g[s \ {AnyOf(s)}] = h[s \ {AnyOf(s)}]
    BY <2>1, <2>3, <1>2
  <2> QED
    BY <2>2, <2>4 DEF Adds
<1> HIDE DEF T
<1>3. Nat \subseteq T
  BY <1>1, <1>2, NumberInduction
<1> QED
  BY <1>3, <1>0 DEF T

LEMMA SumAny ==
  ASSUME NEW S, IsFiniteSet(S), NEW f, \A x \in S : f[x] \in Int
  PROVE  /\ SumFunctionOnSet(f, {}) = 0
         /\ S # {} => SumFunctionOnSet(f, S) =
                        f[AnyOf(S)] + SumFunctionOnSet(f, S \ {AnyOf(S)})
<1> DEFINE A(R) == CHOOSE g : Adds(f, R, g)
<1>1. \A R \in SUBSET S : Adds(f, R, A(R)) /\ SumFunctionOnSet(f, R) = A(R)[R]
  <2>1. SUFFICES ASSUME NEW R \in SUBSET S
                 PROVE  Adds(f, R, A(R)) /\ SumFunctionOnSet(f, R) = A(R)[R]
    OBVIOUS
  <2>2. \E g : Adds(f, R, g)
    BY AddsExists, FS_Subset
  <2> QED
    BY <2>2, SumDef
<1> HIDE DEF A
<1>2. SumFunctionOnSet(f, {}) = 0
  <2>1. {} \in SUBSET S /\ {} \in SUBSET {}
    OBVIOUS
  <2> QED
    BY <1>1, <2>1 DEF Adds
<1>3. ASSUME S # {}
      PROVE  SumFunctionOnSet(f, S) = f[AnyOf(S)] + SumFunctionOnSet(f, S \ {AnyOf(S)})
  <2> DEFINE R == S \ {AnyOf(S)}
  <2>1. R \in SUBSET S /\ R \in SUBSET R /\ S \in SUBSET S
    OBVIOUS
  <2>2. Adds(f, S, A(S)) /\ Adds(f, R, A(R))
    BY <1>1, <2>1
  <2>3. A(S)[S] = f[AnyOf(S)] + A(S)[R]
    BY <1>3, <2>1, <2>2 DEF Adds
  <2> HIDE DEF R
  <2>4. A(S)[R] = A(R)[R]
    BY <2>1, <2>2, AddsUnique
  <2> QED
    BY <1>1, <2>1, <2>3, <2>4 DEF R
<1> QED
  BY <1>2, <1>3

LEMMA SumInt ==
  ASSUME NEW S, IsFiniteSet(S), NEW f, \A x \in S : f[x] \in Int
  PROVE  SumFunctionOnSet(f, S) \in Int
<1> DEFINE T == {n \in Nat : \A s \in SUBSET S : Cardinality(s) = n =>
                                SumFunctionOnSet(f, s) \in Int}
<1>0. \A s \in SUBSET S : IsFiniteSet(s) /\ Cardinality(s) \in Nat
  BY FS_Subset, FS_CardinalityType
<1>1. 0 \in T
  BY <1>0, SumAny, FS_EmptySet
<1>2. ASSUME NEW n \in Nat, n \in T PROVE n + 1 \in T
  <2>1. SUFFICES ASSUME NEW s \in SUBSET S, Cardinality(s) = n + 1
                 PROVE  SumFunctionOnSet(f, s) \in Int
    OBVIOUS
  <2>2. s # {} /\ AnyOf(s) \in s
    BY <2>1, <1>0, FS_EmptySet DEF AnyOf
  <2>3. Cardinality(s \ {AnyOf(s)}) = Cardinality(s) - 1
    BY <2>2, <1>0, FS_RemoveElement
  <2>4. SumFunctionOnSet(f, s \ {AnyOf(s)}) \in Int
    BY <2>1, <2>3, <1>2
  <2>5. SumFunctionOnSet(f, s) = f[AnyOf(s)] + SumFunctionOnSet(f, s \ {AnyOf(s)})
    BY <2>2, <1>0, SumAny
  <2> QED
    BY <2>2, <2>4, <2>5
<1> HIDE DEF T
<1>3. Nat \subseteq T
  BY <1>1, <1>2, NumberInduction
<1> QED
  BY <1>3, <1>0 DEF T

(* The order of the members does not matter.                                *)
LEMMA SumTakeOut ==
  ASSUME NEW S, IsFiniteSet(S), NEW f, \A x \in S : f[x] \in Int
  PROVE  \A s \in SUBSET S :
           /\ SumFunctionOnSet(f, s) \in Int
           /\ \A y \in s : SumFunctionOnSet(f, s) = f[y] + SumFunctionOnSet(f, s \ {y})
<1> DEFINE Sum(s) == SumFunctionOnSet(f, s)
<1> DEFINE T == {n \in Nat : \A s \in SUBSET S : Cardinality(s) = n =>
                    Sum(s) \in Int /\ \A y \in s : Sum(s) = f[y] + Sum(s \ {y})}
<1>0. \A s \in SUBSET S : IsFiniteSet(s) /\ Cardinality(s) \in Nat
  BY FS_Subset, FS_CardinalityType
<1>a. /\ Sum({}) = 0
      /\ \A s \in SUBSET S : s # {} => Sum(s) = f[AnyOf(s)] + Sum(s \ {AnyOf(s)})
  BY <1>0, SumAny
<1> HIDE DEF Sum
<1>1. 0 \in T
  BY <1>a, <1>0, FS_EmptySet
<1>2. ASSUME NEW n \in Nat, n \in T PROVE n + 1 \in T
  <2>1. SUFFICES ASSUME NEW s \in SUBSET S, Cardinality(s) = n + 1
                 PROVE  Sum(s) \in Int /\ \A y \in s : Sum(s) = f[y] + Sum(s \ {y})
    OBVIOUS
  <2>2. \A y \in s : Cardinality(s \ {y}) = n
    <3>1. \A y \in s : Cardinality(s \ {y}) = Cardinality(s) - 1
      BY <1>0, FS_RemoveElement
    <3> QED
      BY <3>1, <2>1
  <2>3. \A y \in s : /\ Sum(s \ {y}) \in Int
                     /\ \A z \in s \ {y} : Sum(s \ {y}) = f[z] + Sum((s \ {y}) \ {z})
    <3>1. \A y \in s : s \ {y} \in SUBSET S
      OBVIOUS
    <3> QED
      BY <3>1, <2>2, <1>2
  <2> DEFINE x == AnyOf(s)
  <2>4. x \in s /\ Sum(s) = f[x] + Sum(s \ {x})
    <3>1. s # {}
      BY <2>1, FS_EmptySet
    <3> QED
      BY <3>1, <1>a DEF AnyOf
  <2> HIDE DEF x
  <2>5. Sum(s) \in Int
    BY <2>3, <2>4
  <2>6. ASSUME NEW y \in s, y # x PROVE Sum(s) = f[y] + Sum(s \ {y})
    <3>1. (s \ {y}) \ {x} = (s \ {x}) \ {y}
      OBVIOUS
    <3>2. Sum(s \ {y}) = f[x] + Sum((s \ {x}) \ {y})
      BY <2>3, <2>4, <2>6, <3>1
    <3>3. Sum(s \ {x}) = f[y] + Sum((s \ {x}) \ {y})
      BY <2>3, <2>4, <2>6
    <3>4. f[x] \in Int /\ f[y] \in Int /\ Sum(s \ {x}) \in Int /\ Sum(s \ {y}) \in Int
      BY <2>3, <2>4
    <3> DEFINE rest == Sum((s \ {x}) \ {y})
    <3>5. rest \in Int
      BY SumInt, <1>0 DEF Sum
    <3> HIDE DEF rest
    <3> QED
      BY <2>4, <3>2, <3>3, <3>4, <3>5 DEF rest
  <2> QED
    BY <2>4, <2>5, <2>6
<1> HIDE DEF T
<1>3. Nat \subseteq T
  BY <1>1, <1>2, NumberInduction
<1> QED
  BY <1>3, <1>0 DEF T, Sum

LEMMA SumEmpty ==
  ASSUME NEW f
  PROVE  SumFunctionOnSet(f, {}) = 0
BY SumAny, FS_EmptySet

LEMMA SumWith ==
  ASSUME NEW S, IsFiniteSet(S), NEW x, x \notin S, NEW f, \A y \in S \cup {x} : f[y] \in Int
  PROVE  SumFunctionOnSet(f, S \cup {x}) = SumFunctionOnSet(f, S) + f[x]
<1> DEFINE R == S \cup {x}
<1>1. IsFiniteSet(R) /\ x \in R /\ R \in SUBSET R /\ S = R \ {x} /\ \A y \in R : f[y] \in Int
  BY FS_AddElement
<1> HIDE DEF R
<1>2. SumFunctionOnSet(f, R) = f[x] + SumFunctionOnSet(f, S)
  BY <1>1, SumTakeOut
<1>3. SumFunctionOnSet(f, S) \in Int /\ f[x] \in Int
  BY SumInt
<1> QED
  BY <1>2, <1>3 DEF R

(* Numbers that agree on a set have the same sum there.                     *)
LEMMA SumEqual ==
  ASSUME NEW S, IsFiniteSet(S), NEW f, NEW g, \A x \in S : f[x] \in Int /\ f[x] = g[x]
  PROVE  SumFunctionOnSet(f, S) = SumFunctionOnSet(g, S)
<1> DEFINE F == {s \in SUBSET S : SumFunctionOnSet(f, s) = SumFunctionOnSet(g, s)}
<1>1. {} \in F
  BY SumEmpty
<1>2. ASSUME NEW s \in SUBSET S, NEW x \in S \ s, s \in F PROVE s \cup {x} \in F
  <2>1. IsFiniteSet(s)
    BY FS_Subset
  <2>2. /\ SumFunctionOnSet(f, s \cup {x}) = SumFunctionOnSet(f, s) + f[x]
        /\ SumFunctionOnSet(g, s \cup {x}) = SumFunctionOnSet(g, s) + g[x]
    BY <2>1, SumWith
  <2> QED
    BY <1>2, <2>2
<1> HIDE DEF F
<1>3. S \in F
  BY <1>1, <1>2, SetInduction
<1> QED
  BY <1>3 DEF F

LEMMA SumPlus ==
  ASSUME NEW S, IsFiniteSet(S), NEW f, NEW g, NEW h,
         \A x \in S : g[x] \in Int /\ h[x] \in Int /\ f[x] = g[x] + h[x]
  PROVE  SumFunctionOnSet(f, S) = SumFunctionOnSet(g, S) + SumFunctionOnSet(h, S)
<1> DEFINE F == {s \in SUBSET S : SumFunctionOnSet(f, s) =
                                    SumFunctionOnSet(g, s) + SumFunctionOnSet(h, s)}
<1>1. {} \in F
  BY SumEmpty
<1>2. ASSUME NEW s \in SUBSET S, NEW x \in S \ s, s \in F PROVE s \cup {x} \in F
  <2>1. IsFiniteSet(s)
    BY FS_Subset
  <2>2. /\ SumFunctionOnSet(f, s \cup {x}) = SumFunctionOnSet(f, s) + f[x]
        /\ SumFunctionOnSet(g, s \cup {x}) = SumFunctionOnSet(g, s) + g[x]
        /\ SumFunctionOnSet(h, s \cup {x}) = SumFunctionOnSet(h, s) + h[x]
    <3>1. \A y \in s \cup {x} : f[y] \in Int /\ g[y] \in Int /\ h[y] \in Int
      OBVIOUS
    <3> QED
      BY <2>1, <3>1, SumWith
  <2>3. SumFunctionOnSet(g, s) \in Int /\ SumFunctionOnSet(h, s) \in Int
    BY <2>1, SumInt
  <2> QED
    BY <1>2, <2>2, <2>3
<1> HIDE DEF F
<1>3. S \in F
  BY <1>1, <1>2, SetInduction
<1> QED
  BY <1>3 DEF F

LEMMA SumUnion ==
  ASSUME NEW R, IsFiniteSet(R), NEW S, IsFiniteSet(S), R \cap S = {},
         NEW f, \A x \in R \cup S : f[x] \in Int
  PROVE  SumFunctionOnSet(f, R \cup S) = SumFunctionOnSet(f, R) + SumFunctionOnSet(f, S)
<1> DEFINE F == {s \in SUBSET S : SumFunctionOnSet(f, R \cup s) =
                                    SumFunctionOnSet(f, R) + SumFunctionOnSet(f, s)}
<1>0. SumFunctionOnSet(f, R) \in Int
  BY SumInt
<1>1. {} \in F
  <2>1. R \cup {} = R
    OBVIOUS
  <2> QED
    BY <1>0, <2>1, SumEmpty
<1>2. ASSUME NEW s \in SUBSET S, NEW x \in S \ s, s \in F PROVE s \cup {x} \in F
  <2>1. IsFiniteSet(s) /\ IsFiniteSet(R \cup s)
    BY FS_Subset, FS_Union
  <2>2. SumFunctionOnSet(f, s \cup {x}) = SumFunctionOnSet(f, s) + f[x]
    <3>1. \A y \in s \cup {x} : f[y] \in Int
      OBVIOUS
    <3> QED
      BY <2>1, <3>1, SumWith
  <2>3. SumFunctionOnSet(f, (R \cup s) \cup {x}) = SumFunctionOnSet(f, R \cup s) + f[x]
    <3> DEFINE Rs == R \cup s
    <3>1. IsFiniteSet(Rs) /\ x \notin Rs /\ \A y \in Rs \cup {x} : f[y] \in Int
      BY <2>1
    <3> HIDE DEF Rs
    <3>2. SumFunctionOnSet(f, Rs \cup {x}) = SumFunctionOnSet(f, Rs) + f[x]
      BY <3>1, SumWith
    <3> QED
      BY <3>2 DEF Rs
  <2>4. SumFunctionOnSet(f, s) \in Int /\ f[x] \in Int
    BY <2>1, SumInt
  <2>5. (R \cup s) \cup {x} = R \cup (s \cup {x})
    OBVIOUS
  <2>6. SumFunctionOnSet(f, R \cup (s \cup {x})) =
          SumFunctionOnSet(f, R) + SumFunctionOnSet(f, s \cup {x})
    <3>1. SumFunctionOnSet(f, R \cup s) = SumFunctionOnSet(f, R) + SumFunctionOnSet(f, s)
      BY <1>2
    <3>2. SumFunctionOnSet(f, R \cup (s \cup {x})) = SumFunctionOnSet(f, R \cup s) + f[x]
      BY <2>3, <2>5
    <3> QED
      BY <1>0, <2>2, <2>4, <3>1, <3>2
  <2> QED
    BY <2>6
<1> HIDE DEF F
<1>3. S \in F
  BY <1>1, <1>2, SetInduction
<1> QED
  BY <1>3 DEF F

LEMMA SumNat ==
  ASSUME NEW S, IsFiniteSet(S), NEW f, \A x \in S : f[x] \in Nat
  PROVE  SumFunctionOnSet(f, S) \in Nat
<1> DEFINE F == {s \in SUBSET S : SumFunctionOnSet(f, s) \in Nat}
<1>1. {} \in F
  BY SumEmpty
<1>2. ASSUME NEW s \in SUBSET S, NEW x \in S \ s, s \in F PROVE s \cup {x} \in F
  <2>1. IsFiniteSet(s)
    BY FS_Subset
  <2>2. SumFunctionOnSet(f, s \cup {x}) = SumFunctionOnSet(f, s) + f[x]
    BY <2>1, SumWith
  <2> QED
    BY <1>2, <2>2
<1> HIDE DEF F
<1>3. S \in F
  BY <1>1, <1>2, SetInduction
<1> QED
  BY <1>3 DEF F

(* One number changes.                                                      *)
LEMMA SumChanged ==
  ASSUME NEW S, IsFiniteSet(S), NEW z \in S, NEW f, NEW g,
         \A x \in S : f[x] \in Int /\ g[x] \in Int /\ (x # z => f[x] = g[x])
  PROVE  SumFunctionOnSet(g, S) = SumFunctionOnSet(f, S) + (g[z] - f[z])
<1> DEFINE R == S \ {z}
<1>1. /\ SumFunctionOnSet(f, S) = f[z] + SumFunctionOnSet(f, R)
      /\ SumFunctionOnSet(g, S) = g[z] + SumFunctionOnSet(g, R)
  BY SumTakeOut
<1>2. IsFiniteSet(R)
  BY FS_Subset
<1>3. SumFunctionOnSet(f, R) = SumFunctionOnSet(g, R) /\ SumFunctionOnSet(f, R) \in Int
  BY <1>2, SumEqual, SumInt
<1> QED
  BY <1>1, <1>3

LEMMA SumZero ==
  ASSUME NEW S, IsFiniteSet(S), NEW f, \A x \in S : f[x] = 0
  PROVE  SumFunctionOnSet(f, S) = 0
<1> DEFINE F == {s \in SUBSET S : SumFunctionOnSet(f, s) = 0}
<1>1. {} \in F
  BY SumEmpty
<1>2. ASSUME NEW s \in SUBSET S, NEW x \in S \ s, s \in F PROVE s \cup {x} \in F
  <2>1. IsFiniteSet(s)
    BY FS_Subset
  <2>2. SumFunctionOnSet(f, s \cup {x}) = SumFunctionOnSet(f, s) + f[x]
    <3>1. \A y \in s \cup {x} : f[y] \in Int
      OBVIOUS
    <3> QED
      BY <2>1, <3>1, SumWith
  <2> QED
    BY <1>2, <2>2
<1> HIDE DEF F
<1>3. S \in F
  BY <1>1, <1>2, SetInduction
<1> QED
  BY <1>3 DEF F
=============================================================================
