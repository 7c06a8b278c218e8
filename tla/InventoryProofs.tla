-------------------------- MODULE InventoryProofs --------------------------
(***************************************************************************)
(* What the operators of Inventory compute, for every bag and every list of *)
(* lines; the inductions and sums they rest on are in SumFacts.             *)
(***************************************************************************)
EXTENDS Inventory, SumFacts

(* Sequences, bags and lines.                                               *)
LEMMA SeqFacts ==
  ASSUME NEW q, IsSeq(q)
  PROVE  Len(q) \in Nat /\ DOMAIN q = 1..Len(q) /\ IsFiniteSet(DOMAIN q)
<1>1. Len(q) \in Nat /\ DOMAIN q = 1..Len(q)
  BY DEF IsSeq
<1> QED
  BY <1>1, FS_Interval

LEMMA FunctionIsSeq ==
  ASSUME NEW n \in Nat, NEW q, q = [i \in 1..n |-> q[i]]
  PROVE  IsSeq(q) /\ Len(q) = n
BY DEF IsSeq, Range

LEMMA AppendIs ==
  ASSUME NEW q, IsSeq(q), NEW e
  PROVE  /\ IsSeq(Append(q, e)) /\ Len(Append(q, e)) = Len(q) + 1
         /\ DOMAIN Append(q, e) = 1..(Len(q) + 1)
         /\ Append(q, e)[Len(q) + 1] = e
         /\ \A i \in 1..Len(q) : Append(q, e)[i] = q[i]
<1> DEFINE R == Range(q) \cup {e}
<1>1. q \in Seq(R) /\ e \in R
  BY DEF IsSeq, Range
<1> HIDE DEF R
<1>2. /\ Append(q, e) \in Seq(R) /\ Len(Append(q, e)) = Len(q) + 1
      /\ DOMAIN Append(q, e) = 1..(Len(q) + 1)
      /\ Append(q, e)[Len(q) + 1] = e
      /\ \A i \in 1..Len(q) : Append(q, e)[i] = q[i]
  BY <1>1
<1>3. IsSeq(Append(q, e))
  BY <1>2 DEF IsSeq, Range
<1> QED
  BY <1>2, <1>3

IsLines(lines) == IsSeq(lines) /\ \A i \in DOMAIN lines : lines[i].num \in Nat

LEMMA BagFacts ==
  ASSUME NEW bag, IsBag(bag)
  PROVE  /\ Len(bag) \in Nat /\ DOMAIN bag = 1..Len(bag)
         /\ DOMAIN Nums(bag) = DOMAIN bag
         /\ \A i \in DOMAIN bag : Nums(bag)[i] = bag[i].num /\ bag[i].num \in Nat
         /\ \A c : /\ IsFiniteSet(Rows(bag, c)) /\ Rows(bag, c) \subseteq DOMAIN bag
                   /\ Total(bag, c) \in Nat
<1>1. IsSeq(bag)
  BY DEF IsBag
<1>2. \A i \in DOMAIN bag : Nums(bag)[i] = bag[i].num /\ bag[i].num \in Nat
  BY DEF IsBag, Nums
<1>3. ASSUME NEW c
      PROVE  /\ IsFiniteSet(Rows(bag, c)) /\ Rows(bag, c) \subseteq DOMAIN bag
             /\ Total(bag, c) \in Nat
  <2>1. Rows(bag, c) \subseteq DOMAIN bag
    BY DEF Rows
  <2>2. IsFiniteSet(Rows(bag, c))
    BY <1>1, <2>1, SeqFacts, FS_Subset
  <2> QED
    BY <1>2, <2>1, <2>2, SumNat DEF Total
<1> QED
  BY <1>1, <1>2, <1>3, SeqFacts DEF Nums

(* Lines of a positive number are all that counts.                          *)
LEMMA LinesFacts ==
  ASSUME NEW lines, IsLines(lines), NEW id
  PROVE  /\ Worth(lines, id) \in Nat /\ Asked(lines, id) = Worth(lines, id)
         /\ id \notin Named(lines) => Worth(lines, id) = 0
<1> DEFINE f == Nums(lines)
<1> DEFINE P == {i \in DOMAIN lines : lines[i].id = id /\ lines[i].num > 0}
<1> DEFINE Z == {i \in DOMAIN lines : lines[i].id = id /\ lines[i].num = 0}
<1>1. \A i \in DOMAIN lines : f[i] = lines[i].num /\ f[i] \in Nat
  BY DEF IsLines, Nums
<1>2. IsFiniteSet(P) /\ IsFiniteSet(Z) /\ P \cap Z = {}
  <2>1. P \subseteq DOMAIN lines /\ Z \subseteq DOMAIN lines /\ P \cap Z = {}
    OBVIOUS
  <2>2. IsFiniteSet(DOMAIN lines)
    BY SeqFacts DEF IsLines
  <2> QED
    BY <2>1, <2>2, FS_Subset
<1>3. {i \in DOMAIN lines : lines[i].id = id} = P \cup Z
  BY <1>1
<1>4. (\A i \in P : f[i] \in Nat) /\ (\A i \in Z : f[i] = 0) /\ (\A i \in P \cup Z : f[i] \in Int)
  BY <1>1
<1>5. id \notin Named(lines) => P = {}
  BY DEF Named
<1> HIDE DEF P, Z, f
<1>6. SumFunctionOnSet(f, Z) = 0 /\ SumFunctionOnSet(f, P) \in Nat
  BY <1>2, <1>4, SumZero, SumNat
<1>7. SumFunctionOnSet(f, P \cup Z) = SumFunctionOnSet(f, P) + SumFunctionOnSet(f, Z)
  BY <1>2, <1>4, SumUnion
<1>8. Worth(lines, id) = SumFunctionOnSet(f, P) /\ Asked(lines, id) = SumFunctionOnSet(f, P)
  BY <1>3, <1>6, <1>7 DEF Worth, Asked, P, f
<1> QED
  BY <1>5, <1>6, <1>8, SumEmpty

LEMMA MaxZero ==
  ASSUME NEW a \in Int
  PROVE  Max({0, a}) = IF a > 0 THEN a ELSE 0
<1> DEFINE m == IF a > 0 THEN a ELSE 0
<1>1. m \in {0, a} /\ \A y \in {0, a} : m >= y
  OBVIOUS
<1>2. \A x \in {0, a} : (\A y \in {0, a} : x >= y) => x = m
  OBVIOUS
<1> QED
  BY <1>1, <1>2 DEF Max

LEMMA MaxTwo ==
  ASSUME NEW a \in Int, NEW b \in Int
  PROVE  Max({a, b}) = IF a >= b THEN a ELSE b
<1> DEFINE m == IF a >= b THEN a ELSE b
<1>1. m \in {a, b} /\ \A y \in {a, b} : m >= y
  OBVIOUS
<1>2. \A x \in {a, b} : (\A y \in {a, b} : x >= y) => x = m
  OBVIOUS
<1> QED
  BY <1>1, <1>2 DEF Max

LEMMA MinTwo ==
  ASSUME NEW a \in Int, NEW b \in Int
  PROVE  Min({a, b}) = IF a <= b THEN a ELSE b
<1> DEFINE m == IF a <= b THEN a ELSE b
<1>1. m \in {a, b} /\ \A y \in {a, b} : m <= y
  OBVIOUS
<1>2. \A x \in {a, b} : (\A y \in {a, b} : x <= y) => x = m
  OBVIOUS
<1> QED
  BY <1>1, <1>2 DEF Min

-----------------------------------------------------------------------------
(* consume_cids takes of every cid exactly what was asked for: after the    *)
(* first k rows it has taken all that was asked for or all there was.       *)
LEMMA ConsumedRows ==
  ASSUME NEW bag, IsBag(bag), NEW costs, IsLines(costs)
  PROVE  LET new == ConsumedCids(bag, costs)
         IN /\ IsBag(new) /\ DOMAIN new = DOMAIN bag
            /\ \A i \in DOMAIN bag :
                 LET room == Asked(costs, bag[i].cid) - Before(bag, i)
                     left == bag[i].num - (IF room > 0 THEN room ELSE 0)
                 IN /\ new[i].id = bag[i].id /\ new[i].cid = bag[i].cid
                    /\ room \in Int
                    /\ new[i].num = IF left > 0 THEN left ELSE 0
<1> DEFINE new == ConsumedCids(bag, costs)
<1> DEFINE room(i) == Asked(costs, bag[i].cid) - Before(bag, i)
<1> DEFINE missing(i) == Max({0, room(i)})
<1>1. /\ Len(bag) \in Nat /\ DOMAIN bag = 1..Len(bag)
      /\ \A i \in DOMAIN bag : bag[i].num \in Nat
  BY BagFacts
<1>2. DOMAIN new = DOMAIN bag /\ \A i \in DOMAIN bag :
        new[i] = [bag[i] EXCEPT !.num = @ - Min({@, missing(i)})]
  BY DEF ConsumedCids
<1>3. ASSUME NEW i \in DOMAIN bag
      PROVE  room(i) \in Int
  <2>1. Asked(costs, bag[i].cid) \in Int
    BY LinesFacts
  <2>2. Before(bag, i) \in Int
    <3> DEFINE S == {j \in 1..(i - 1) : bag[j].cid = bag[i].cid}
    <3>1. S \subseteq DOMAIN bag
      BY <1>1
    <3>2. IsFiniteSet(S)
      BY <3>1, <1>1, FS_Interval, FS_Subset
    <3>3. \A j \in S : Nums(bag)[j] \in Int
      BY <3>1, BagFacts
    <3> HIDE DEF S
    <3>4. SumFunctionOnSet(Nums(bag), S) \in Int
      BY <3>2, <3>3, SumInt
    <3> QED
      BY <3>4 DEF Before, S
  <2> QED
    BY <2>1, <2>2
<1> HIDE DEF room
<1>4. ASSUME NEW i \in DOMAIN bag
      PROVE  LET left == bag[i].num - (IF room(i) > 0 THEN room(i) ELSE 0)
             IN new[i] = Stack(bag[i].id, bag[i].cid, IF left > 0 THEN left ELSE 0)
  <2>1. missing(i) = IF room(i) > 0 THEN room(i) ELSE 0
    BY <1>3, MaxZero
  <2> HIDE DEF missing
  <2>2. missing(i) \in Int /\ bag[i].num \in Int
    BY <1>1, <1>3, <2>1
  <2>3. Min({bag[i].num, missing(i)}) = IF bag[i].num <= missing(i) THEN bag[i].num ELSE missing(i)
    BY <2>2, MinTwo
  <2>4. bag[i] = Stack(bag[i].id, bag[i].cid, bag[i].num)
    BY DEF IsBag
  <2>5. new[i] = Stack(bag[i].id, bag[i].cid, bag[i].num - Min({bag[i].num, missing(i)}))
    BY <1>2, <2>4 DEF Stack
  <2>6. bag[i].num - Min({bag[i].num, missing(i)}) =
          IF bag[i].num - missing(i) > 0 THEN bag[i].num - missing(i) ELSE 0
    BY <2>2, <2>3
  <2> QED
    BY <2>1, <2>5, <2>6
<1>5. IsBag(new)
  <2>1. IsSeq(new)
    BY <1>1, <1>2, FunctionIsSeq DEF ConsumedCids
  <2>2. ASSUME NEW i \in DOMAIN bag
        PROVE  new[i] = Stack(new[i].id, new[i].cid, new[i].num) /\ new[i].num \in Nat
    <3> DEFINE left == bag[i].num - (IF room(i) > 0 THEN room(i) ELSE 0)
    <3>1. left \in Int
      BY <1>1, <1>3, <2>2
    <3>2. new[i] = Stack(bag[i].id, bag[i].cid, IF left > 0 THEN left ELSE 0)
      BY <1>4, <2>2
    <3> HIDE DEF left, new
    <3> QED
      BY <3>1, <3>2 DEF Stack
  <2> QED
    BY <1>2, <2>1, <2>2 DEF IsBag
<1> HIDE DEF new, missing
<1> QED
  BY <1>2, <1>3, <1>4, <1>5 DEF Stack, new, room

LEMMA ConsumedTotal ==
  ASSUME NEW bag, IsBag(bag), NEW costs, IsLines(costs), NEW c,
         Asked(costs, c) <= Total(bag, c)
  PROVE  Total(ConsumedCids(bag, costs), c) = Total(bag, c) - Asked(costs, c)
<1> DEFINE new == ConsumedCids(bag, costs)
<1> DEFINE n == Len(bag)
<1> DEFINE A == Asked(costs, c)
<1> DEFINE R(k) == {i \in 1..k : bag[i].cid = c}
<1> DEFINE b == Nums(bag)
<1> DEFINE d == Nums(new)
<1> DEFINE B(k) == SumFunctionOnSet(b, R(k))
<1> DEFINE C(k) == SumFunctionOnSet(d, R(k))
<1> DEFINE T == {k \in Nat : k <= n => C(k) = IF B(k) > A THEN B(k) - A ELSE 0}
<1>1. /\ n \in Nat /\ DOMAIN bag = 1..n
      /\ \A i \in DOMAIN bag : b[i] = bag[i].num /\ b[i] \in Nat
  BY BagFacts
<1>2. /\ IsBag(new) /\ DOMAIN new = DOMAIN bag
      /\ \A i \in DOMAIN bag : new[i].cid = bag[i].cid
      /\ \A i \in DOMAIN bag :
           LET room == Asked(costs, bag[i].cid) - Before(bag, i)
               left == bag[i].num - (IF room > 0 THEN room ELSE 0)
           IN new[i].num = IF left > 0 THEN left ELSE 0
  BY ConsumedRows
<1>3. A \in Nat
  BY LinesFacts
<1> HIDE DEF new
<1>4. \A i \in DOMAIN bag : d[i] = new[i].num /\ d[i] \in Nat
  BY <1>2, BagFacts
<1> HIDE DEF n, A, b, d, R, B, C
<1>5. Rows(bag, c) = R(n) /\ Rows(new, c) = R(n)
  BY <1>1, <1>2 DEF Rows, R
<1>6. \A k \in Nat : k <= n => /\ R(k) \subseteq DOMAIN bag /\ IsFiniteSet(R(k))
                               /\ B(k) \in Nat /\ C(k) \in Nat
  <2>1. SUFFICES ASSUME NEW k \in Nat, k <= n
                 PROVE  /\ R(k) \subseteq DOMAIN bag /\ IsFiniteSet(R(k))
                        /\ B(k) \in Nat /\ C(k) \in Nat
    OBVIOUS
  <2>2. R(k) \subseteq DOMAIN bag /\ R(k) \subseteq 1..k
    BY <1>1, <2>1 DEF R
  <2>3. IsFiniteSet(R(k))
    BY <2>2, FS_Interval, FS_Subset
  <2>4. \A i \in R(k) : b[i] \in Nat /\ d[i] \in Nat
    BY <2>2, <1>1, <1>4
  <2> QED
    BY <2>2, <2>3, <2>4, SumNat DEF B, C
<1>7. 0 \in T
  <2>1. R(0) = {}
    BY DEF R
  <2>2. B(0) = 0 /\ C(0) = 0
    BY <2>1, SumEmpty DEF B, C
  <2> QED
    BY <2>2, <1>3
<1>8. ASSUME NEW k \in Nat, k \in T PROVE k + 1 \in T
  <2>1. SUFFICES ASSUME k + 1 <= n
                 PROVE  C(k + 1) = IF B(k + 1) > A THEN B(k + 1) - A ELSE 0
    OBVIOUS
  <2>2. k <= n /\ k + 1 \in DOMAIN bag
    BY <1>1, <2>1
  <2>3. C(k) = IF B(k) > A THEN B(k) - A ELSE 0
    BY <1>8, <2>2
  <2>4. CASE bag[k + 1].cid # c
    <3>1. R(k + 1) = R(k)
      BY <2>4 DEF R
    <3> QED
      BY <2>3, <3>1 DEF B, C
  <2>5. CASE bag[k + 1].cid = c
    <3>1. R(k + 1) = R(k) \cup {k + 1} /\ k + 1 \notin R(k)
      BY <2>5 DEF R
    <3>2. Before(bag, k + 1) = B(k)
      <4>1. {j \in 1..((k + 1) - 1) : bag[j].cid = bag[k + 1].cid} = R(k)
        BY <2>5 DEF R
      <4> QED
        BY <4>1 DEF Before, b, B
    <3>3. /\ IsFiniteSet(R(k)) /\ B(k) \in Nat /\ C(k) \in Nat
          /\ \A i \in R(k) \cup {k + 1} : b[i] \in Int /\ d[i] \in Int
      BY <1>1, <1>4, <1>6, <2>2
    <3>4. B(k + 1) = B(k) + b[k + 1] /\ C(k + 1) = C(k) + d[k + 1]
      BY <3>1, <3>3, SumWith DEF B, C
    <3> DEFINE room == A - B(k)
    <3> DEFINE left == b[k + 1] - (IF room > 0 THEN room ELSE 0)
    <3>5. d[k + 1] = IF left > 0 THEN left ELSE 0
      BY <1>1, <1>2, <1>4, <2>2, <2>5, <3>2 DEF A
    <3>6. b[k + 1] \in Nat
      BY <1>1, <2>2
    <3> QED
      BY <1>3, <2>3, <3>3, <3>4, <3>5, <3>6
  <2> QED
    BY <2>4, <2>5
<1> HIDE DEF T
<1>9. n \in T
  BY <1>1, <1>7, <1>8, NumberInduction
<1>10. C(n) = IF B(n) > A THEN B(n) - A ELSE 0
  BY <1>1, <1>9 DEF T
<1>11. Total(bag, c) = B(n) /\ Total(new, c) = C(n)
  BY <1>5 DEF Total, b, d, B, C
<1>12. A <= B(n) /\ B(n) \in Nat
  BY <1>1, <1>6, <1>11 DEF A
<1> QED
  BY <1>3, <1>10, <1>11, <1>12 DEF A, new

-----------------------------------------------------------------------------
(* add_item: nothing is lost, the ids stay distinct, and one cid has more.  *)
BagIds(bag) == {bag[i].id : i \in DOMAIN bag}
BagCids(bag) == {bag[i].cid : i \in DOMAIN bag}

LEMMA FreshIdIs ==
  ASSUME NEW bag, IsBag(bag), NEW c
  PROVE  FreshId(bag, c) \notin BagIds(bag) /\ FreshId(bag, c) \in {c} \X Nat
<1> DEFINE n == Len(bag)
<1> DEFINE free == {k \in 1..(n + 1) : ~\E i \in DOMAIN bag : bag[i].id = <<c, k>>}
<1>1. n \in Nat /\ DOMAIN bag = 1..n
  BY BagFacts
<1> HIDE DEF n
<1>2. free # {}
  <2>1. SUFFICES ASSUME \A k \in 1..(n + 1) : \E i \in DOMAIN bag : bag[i].id = <<c, k>>
                 PROVE  FALSE
    OBVIOUS
  <2> DEFINE f == [k \in 1..(n + 1) |-> CHOOSE i \in DOMAIN bag : bag[i].id = <<c, k>>]
  <2>2. \A k \in 1..(n + 1) : f[k] \in 1..n /\ bag[f[k]].id = <<c, k>>
    BY <1>1, <2>1
  <2>3. f \in [1..(n + 1) -> 1..n]
    BY <2>2
  <2>4. /\ IsFiniteSet(1..n) /\ IsFiniteSet(1..(n + 1))
        /\ Cardinality(1..n) = n /\ Cardinality(1..(n + 1)) = n + 1
    BY <1>1, FS_Interval
  <2> HIDE DEF f
  <2>5. PICK x, y \in 1..(n + 1) : x # y /\ f[x] = f[y]
    BY <1>1, <2>3, <2>4, FS_PigeonHole
  <2>6. <<c, x>> = <<c, y>>
    BY <2>2, <2>5
  <2> QED
    BY <2>5, <2>6
<1>3. free \in SUBSET Nat
  OBVIOUS
<1>4. PICK m \in free : \A k \in free : m <= k
  BY <1>2, <1>3, LeastNumber
<1>5. Min(free) \in free
  BY <1>4 DEF Min
<1>6. FreshId(bag, c) = <<c, Min(free)>>
  BY DEF FreshId, n
<1>7. Min(free) \in Nat /\ ~\E i \in DOMAIN bag : bag[i].id = <<c, Min(free)>>
  BY <1>3, <1>5
<1> HIDE DEF free
<1> QED
  BY <1>6, <1>7 DEF BagIds

(* Onto the first stack.                                                    *)
LEMMA AddToStack ==
  ASSUME NEW bag, IsBag(bag), NEW c, NEW n \in Nat, Rows(bag, c) # {}
  PROVE  LET new == AddItem(bag, c, n)
         IN /\ IsBag(new) /\ DOMAIN new = DOMAIN bag
            /\ \A i \in DOMAIN bag : new[i].id = bag[i].id /\ new[i].cid = bag[i].cid
            /\ \A d : Total(new, d) = Total(bag, d) + (IF d = c THEN n ELSE 0)
<1> DEFINE new == AddItem(bag, c, n)
<1> DEFINE m == Min(Rows(bag, c))
<1>1. /\ Len(bag) \in Nat /\ DOMAIN bag = 1..Len(bag)
      /\ \A i \in DOMAIN bag : Nums(bag)[i] = bag[i].num /\ bag[i].num \in Nat
  BY BagFacts
<1>2. m \in Rows(bag, c)
  <2>1. Rows(bag, c) \in SUBSET Nat
    BY <1>1 DEF Rows
  <2>2. PICK x \in Rows(bag, c) : \A y \in Rows(bag, c) : x <= y
    BY <2>1, LeastNumber
  <2> QED
    BY <2>2 DEF Min
<1>3. m \in DOMAIN bag /\ bag[m].cid = c
  BY <1>2 DEF Rows
<1> HIDE DEF m
<1>4. new = [bag EXCEPT ![m].num = @ + n]
  BY DEF AddItem, m
<1>5. \A i \in DOMAIN bag : bag[i] = Stack(bag[i].id, bag[i].cid, bag[i].num)
  BY DEF IsBag
<1>6. DOMAIN new = DOMAIN bag /\ \A i \in DOMAIN bag :
        new[i] = Stack(bag[i].id, bag[i].cid, bag[i].num + (IF i = m THEN n ELSE 0))
  <2>1. DOMAIN new = DOMAIN bag /\ \A i \in DOMAIN bag :
          new[i] = IF i = m THEN [bag[m] EXCEPT !.num = @ + n] ELSE bag[i]
    BY <1>3, <1>4
  <2>2. \A i \in DOMAIN bag : i # m =>
          new[i] = Stack(bag[i].id, bag[i].cid, bag[i].num + 0)
    BY <1>1, <1>5, <2>1
  <2>3. new[m] = Stack(bag[m].id, bag[m].cid, bag[m].num + n)
    <3>1. new[m] = [bag[m] EXCEPT !.num = @ + n]
      BY <1>3, <2>1
    <3>2. bag[m] = [id |-> bag[m].id, cid |-> bag[m].cid, num |-> bag[m].num]
      BY <1>3, <1>5 DEF Stack
    <3> HIDE DEF new
    <3> QED
      BY <3>1, <3>2 DEF Stack
  <2> HIDE DEF new
  <2> QED
    BY <2>1, <2>2, <2>3
<1>7. IsSeq(new)
  <2>1. new = [i \in 1..Len(bag) |-> new[i]]
    BY <1>1, <1>4
  <2> QED
    BY <1>1, <2>1, FunctionIsSeq
<1> HIDE DEF new
<1>8. \A i \in DOMAIN bag : /\ new[i].id = bag[i].id /\ new[i].cid = bag[i].cid
                            /\ new[i].num = bag[i].num + (IF i = m THEN n ELSE 0)
  BY <1>6 DEF Stack
<1>9. IsBag(new)
  <2>1. \A i \in DOMAIN bag : new[i] = Stack(new[i].id, new[i].cid, new[i].num)
    BY <1>6, <1>8
  <2>2. \A i \in DOMAIN bag : new[i].num \in Nat
    BY <1>1, <1>8
  <2> QED
    BY <1>6, <1>7, <2>1, <2>2 DEF IsBag
<1>10. ASSUME NEW d PROVE Total(new, d) = Total(bag, d) + (IF d = c THEN n ELSE 0)
  <2>1. Rows(new, d) = Rows(bag, d)
    BY <1>6, <1>8 DEF Rows
  <2>2. IsFiniteSet(Rows(bag, d)) /\ Rows(bag, d) \subseteq DOMAIN bag /\ Total(bag, d) \in Nat
    BY BagFacts
  <2> DEFINE f == Nums(bag)
  <2> DEFINE g == Nums(new)
  <2>3. \A i \in Rows(bag, d) : f[i] \in Int /\ g[i] \in Int /\ (i # m => f[i] = g[i])
    <3>1. \A i \in DOMAIN bag : g[i] = new[i].num /\ g[i] \in Nat
      BY <1>6, <1>9, BagFacts
    <3> QED
      BY <1>1, <1>8, <2>2, <3>1
  <2>4. g[m] = f[m] + n
    BY <1>1, <1>3, <1>6, <1>8, <1>9, BagFacts
  <2>5. f[m] \in Int
    BY <1>1, <1>3
  <2> HIDE DEF f, g
  <2>6. CASE d = c
    <3>1. m \in Rows(bag, d)
      BY <1>2, <2>6
    <3>2. SumFunctionOnSet(g, Rows(bag, d)) = SumFunctionOnSet(f, Rows(bag, d)) + (g[m] - f[m])
      BY <2>2, <2>3, <3>1, SumChanged
    <3> QED
      BY <2>1, <2>2, <2>4, <2>5, <2>6, <3>2 DEF Total, f, g
  <2>7. CASE d # c
    <3>1. m \notin Rows(bag, d)
      BY <1>3, <2>7 DEF Rows
    <3>2. SumFunctionOnSet(f, Rows(bag, d)) = SumFunctionOnSet(g, Rows(bag, d))
      BY <2>2, <2>3, <3>1, SumEqual
    <3> QED
      BY <2>1, <2>2, <2>7, <3>2 DEF Total, f, g
  <2> QED
    BY <2>6, <2>7
<1> QED
  BY <1>6, <1>8, <1>9, <1>10 DEF new

(* Onto a stack of its own.                                                 *)
LEMMA AddStack ==
  ASSUME NEW bag, IsBag(bag), NEW id, NEW c, NEW n \in Nat
  PROVE  LET new == Append(bag, Stack(id, c, n))
         IN /\ IsBag(new) /\ BagIds(new) = BagIds(bag) \cup {id}
            /\ BagCids(new) = BagCids(bag) \cup {c}
            /\ id \notin BagIds(bag) /\ DistinctIds(bag) => DistinctIds(new)
            /\ \A d : Total(new, d) = Total(bag, d) + (IF d = c THEN n ELSE 0)
<1> DEFINE e == Stack(id, c, n)
<1> DEFINE new == Append(bag, e)
<1> DEFINE l == Len(bag)
<1>1. /\ l \in Nat /\ DOMAIN bag = 1..l
      /\ \A i \in DOMAIN bag : Nums(bag)[i] = bag[i].num /\ bag[i].num \in Nat
  BY BagFacts
<1>2. /\ IsSeq(new) /\ DOMAIN new = 1..(l + 1)
      /\ new[l + 1] = e /\ \A i \in 1..l : new[i] = bag[i]
  BY AppendIs DEF IsBag
<1>3. e.id = id /\ e.cid = c /\ e.num = n /\ e = Stack(e.id, e.cid, e.num)
  BY DEF Stack
<1> HIDE DEF new, e, l
<1>4. DOMAIN new = DOMAIN bag \cup {l + 1} /\ l + 1 \notin DOMAIN bag
  BY <1>1, <1>2
<1>5. IsBag(new)
  BY <1>1, <1>2, <1>3, <1>4 DEF IsBag
<1>6. BagIds(new) = BagIds(bag) \cup {id} /\ BagCids(new) = BagCids(bag) \cup {c}
  BY <1>1, <1>2, <1>3, <1>4 DEF BagIds, BagCids
<1>7. id \notin BagIds(bag) /\ DistinctIds(bag) => DistinctIds(new)
  BY <1>1, <1>2, <1>3, <1>4 DEF BagIds, DistinctIds
<1>8. ASSUME NEW d PROVE Total(new, d) = Total(bag, d) + (IF d = c THEN n ELSE 0)
  <2> DEFINE R == Rows(bag, d)
  <2> DEFINE f == Nums(bag)
  <2> DEFINE g == Nums(new)
  <2>1. IsFiniteSet(R) /\ R \subseteq DOMAIN bag /\ Total(bag, d) \in Nat
    BY BagFacts
  <2>2. \A i \in DOMAIN new : g[i] = new[i].num /\ g[i] \in Nat
    BY <1>5, BagFacts
  <2>3. \A i \in R : f[i] \in Int /\ g[i] \in Int /\ f[i] = g[i]
    BY <1>1, <1>2, <1>4, <2>1, <2>2
  <2>4. g[l + 1] = n
    BY <1>2, <1>3, <1>4, <2>2
  <2>5. Rows(new, d) = IF d = c THEN R \cup {l + 1} ELSE R
    BY <1>1, <1>2, <1>3, <1>4 DEF Rows
  <2>6. l + 1 \notin R
    BY <1>4, <2>1
  <2> HIDE DEF R, f, g
  <2>7. SumFunctionOnSet(f, R) = SumFunctionOnSet(g, R)
    BY <2>1, <2>3, SumEqual
  <2>8. SumFunctionOnSet(g, R \cup {l + 1}) = SumFunctionOnSet(g, R) + g[l + 1]
    <3>1. \A y \in R \cup {l + 1} : g[y] \in Int
      BY <2>3, <2>4
    <3> QED
      BY <2>1, <2>6, <3>1, SumWith
  <2>9. Total(bag, d) = SumFunctionOnSet(f, R)
    BY DEF Total, f, R
  <2>10. Total(new, d) = IF d = c THEN SumFunctionOnSet(g, R \cup {l + 1}) ELSE SumFunctionOnSet(g, R)
    BY <2>5 DEF Total, g
  <2> QED
    BY <2>1, <2>4, <2>7, <2>8, <2>9, <2>10
<1> QED
  BY <1>5, <1>6, <1>7, <1>8 DEF new, e

(* What an operation on a bag may do: rows stay, with their ids and cids,   *)
(* and new ones have ids of their own.                                      *)
Follows(bag, new) ==
  /\ IsBag(new)
  /\ BagIds(bag) \subseteq BagIds(new)
  /\ BagCids(bag) \subseteq BagCids(new)
  /\ DistinctIds(bag) => DistinctIds(new)

LEMMA AddItemIs ==
  ASSUME NEW bag, IsBag(bag), NEW c, NEW n \in Nat
  PROVE  /\ Follows(bag, AddItem(bag, c, n))
         /\ BagIds(AddItem(bag, c, n)) \subseteq BagIds(bag) \cup ({c} \X Nat)
         /\ BagCids(AddItem(bag, c, n)) = BagCids(bag) \cup {c}
         /\ \A d : Total(AddItem(bag, c, n), d) = Total(bag, d) + (IF d = c THEN n ELSE 0)
<1> DEFINE new == AddItem(bag, c, n)
<1>1. CASE Rows(bag, c) # {}
  <2>1. /\ IsBag(new) /\ DOMAIN new = DOMAIN bag
        /\ \A i \in DOMAIN bag : new[i].id = bag[i].id /\ new[i].cid = bag[i].cid
        /\ \A d : Total(new, d) = Total(bag, d) + (IF d = c THEN n ELSE 0)
    BY <1>1, AddToStack
  <2> HIDE DEF new
  <2>2. BagIds(new) = BagIds(bag) /\ BagCids(new) = BagCids(bag) /\ c \in BagCids(bag)
    BY <1>1, <2>1 DEF BagIds, BagCids, Rows
  <2>3. DistinctIds(bag) => DistinctIds(new)
    BY <2>1 DEF DistinctIds
  <2> QED
    BY <2>1, <2>2, <2>3 DEF Follows, new
<1>2. CASE Rows(bag, c) = {}
  <2>1. new = Append(bag, Stack(FreshId(bag, c), c, n))
    BY <1>2 DEF AddItem
  <2>2. FreshId(bag, c) \notin BagIds(bag) /\ FreshId(bag, c) \in {c} \X Nat
    BY FreshIdIs
  <2> HIDE DEF new
  <2> QED
    BY <2>1, <2>2, AddStack DEF Follows, new
<1> QED
  BY <1>1, <1>2

-----------------------------------------------------------------------------
(* grant_rewards hands out what the lines say, cid by cid.                  *)
LEMMA ShrinkInduction ==
  ASSUME NEW S, IsFiniteSet(S), NEW F, {} \in F,
         \A s \in SUBSET S : s # {} /\ (\A x \in s : s \ {x} \in F) => s \in F
  PROVE  \A s \in SUBSET S : s \in F
<1> DEFINE T == {n \in Nat : \A s \in SUBSET S : Cardinality(s) = n => s \in F}
<1>0. \A s \in SUBSET S : IsFiniteSet(s) /\ Cardinality(s) \in Nat
  BY FS_Subset, FS_CardinalityType
<1>1. 0 \in T
  BY <1>0, FS_EmptySet
<1>2. ASSUME NEW n \in Nat, n \in T PROVE n + 1 \in T
  <2>1. SUFFICES ASSUME NEW s \in SUBSET S, Cardinality(s) = n + 1 PROVE s \in F
    OBVIOUS
  <2>2. s # {}
    BY <2>1, <1>0, FS_EmptySet
  <2>3. ASSUME NEW x \in s PROVE s \ {x} \in F
    <3>1. Cardinality(s \ {x}) = Cardinality(s) - 1
      BY <1>0, FS_RemoveElement
    <3> QED
      BY <2>1, <3>1, <1>2
  <2> QED
    BY <2>2, <2>3
<1> HIDE DEF T
<1>3. Nat \subseteq T
  BY <1>1, <1>2, NumberInduction
<1> QED
  BY <1>3, <1>0 DEF T

LEMMA FiniteMax ==
  ASSUME NEW S \in SUBSET Int, IsFiniteSet(S), S # {}
  PROVE  Max(S) \in S /\ \A y \in S : y <= Max(S)
<1> DEFINE F == {s \in SUBSET S : s # {} => \E x \in s : \A y \in s : x >= y}
<1>1. {} \in F
  OBVIOUS
<1>2. ASSUME NEW s \in SUBSET S, NEW x \in S \ s, s \in F PROVE s \cup {x} \in F
  <2>1. CASE s = {}
    BY <2>1
  <2>2. CASE s # {}
    <3>1. PICK m \in s : \A y \in s : m >= y
      BY <1>2, <2>2
    <3>2. m \in Int /\ x \in Int /\ s \subseteq Int
      OBVIOUS
    <3>3. CASE x > m
      BY <3>1, <3>2, <3>3
    <3>4. CASE ~(x > m)
      BY <3>1, <3>2, <3>4
    <3> QED
      BY <3>3, <3>4
  <2> QED
    BY <2>1, <2>2
<1> HIDE DEF F
<1>3. S \in F
  BY <1>1, <1>2, SetInduction
<1>4. PICK m \in S : \A y \in S : m >= y
  BY <1>3 DEF F
<1>5. Max(S) \in S /\ \A y \in S : Max(S) >= y
  BY <1>4 DEF Max
<1> QED
  BY <1>5

(* Lines that name items.                                                   *)
IsRewards(lines) == IsLines(lines) /\ \A i \in DOMAIN lines : lines[i].id \in Int

GrantSteps(bag, rewards, g) ==
  g = [C \in SUBSET Named(rewards) |->
         IF C = {} THEN bag
         ELSE AddItem(g[C \ {Max(C)}], Max(C), Asked(rewards, Max(C)))]

LEMMA GrantDef ==
  ASSUME NEW bag, NEW rewards
  PROVE  Granted(bag, rewards) = (CHOOSE g : GrantSteps(bag, rewards, g))[Named(rewards)]
BY DEF Granted, GrantSteps

LEMMA ImageFinite ==
  ASSUME NEW S, IsFiniteSet(S), NEW f
  PROVE  IsFiniteSet({f[x] : x \in S})
<1> DEFINE g == [x \in S |-> f[x]]
<1>1. g \in Surjection(S, {f[x] : x \in S})
  BY DEF Surjection
<1> QED
  BY <1>1, FS_Surjection

LEMMA NamedFinite ==
  ASSUME NEW lines, IsLines(lines)
  PROVE  IsFiniteSet(Named(lines))
<1> DEFINE P == {j \in DOMAIN lines : lines[j].num > 0}
<1>1. IsFiniteSet(P)
  BY SeqFacts, FS_Subset DEF IsLines
<1> DEFINE f == [i \in DOMAIN lines |-> lines[i].id]
<1>2. IsFiniteSet({f[i] : i \in P})
  BY <1>1, ImageFinite
<1>3. {f[i] : i \in P} = {lines[i].id : i \in P}
  OBVIOUS
<1> QED
  BY <1>2, <1>3 DEF Named

(* The bags with row ids of I and items of C.                               *)
BagsOf(I, C) == {bag \in Seq([id : I, cid : C, num : Nat]) : IsBag(bag)}

LEMMA BagsOfIs ==
  ASSUME NEW I, NEW C, NEW bag, IsBag(bag)
  PROVE  bag \in BagsOf(I, C) <=> BagIds(bag) \subseteq I /\ BagCids(bag) \subseteq C
<1> DEFINE Row == [id : I, cid : C, num : Nat]
<1>1. bag \in Seq(Row) <=> \A i \in DOMAIN bag : bag[i] \in Row
  <2>1. bag \in Seq(Range(bag)) /\ Len(bag) \in Nat /\ DOMAIN bag = 1..Len(bag)
    BY BagFacts DEF IsBag, IsSeq
  <2> HIDE DEF Row
  <2> QED
    BY <2>1
<1>2. ASSUME NEW i \in DOMAIN bag
      PROVE  bag[i] \in Row <=> bag[i].id \in I /\ bag[i].cid \in C
  BY DEF IsBag, Stack
<1>3. bag \in BagsOf(I, C) <=> bag \in Seq(Row)
  BY DEF BagsOf
<1> HIDE DEF Row
<1> QED
  BY <1>1, <1>2, <1>3 DEF BagIds, BagCids

LEMMA GrantExists ==
  ASSUME NEW bag, IsBag(bag), NEW rewards, IsRewards(rewards)
  PROVE  \E g : GrantSteps(bag, rewards, g)
<1> DEFINE S == Named(rewards)
<1> DEFINE V == BagsOf(BagIds(bag) \cup (Int \X Nat), BagCids(bag) \cup Int)
<1> DEFINE pick == [C \in SUBSET S |-> Max(C)]
<1> DEFINE step == [c \in S |-> [v \in V |-> AddItem(v, c, Asked(rewards, c))]]
<1>1. IsFiniteSet(S) /\ S \subseteq Int
  BY NamedFinite DEF IsRewards, IsLines, Named
<1>2. Picks(S, pick)
  <2>1. SUFFICES ASSUME NEW C \in SUBSET S, C # {} PROVE Max(C) \in C
    BY DEF Picks
  <2>2. IsFiniteSet(C) /\ C \in SUBSET Int
    BY <1>1, FS_Subset
  <2> HIDE DEF S
  <2> QED
    BY <2>1, <2>2, FiniteMax
<1>5. StepsIn(S, V, step)
  <2>1. SUFFICES ASSUME NEW c \in S, NEW v \in V
                 PROVE  AddItem(v, c, Asked(rewards, c)) \in V
    BY DEF StepsIn
  <2>2. Asked(rewards, c) \in Nat /\ c \in Int
    BY <1>1, LinesFacts DEF IsRewards
  <2> DEFINE new == AddItem(v, c, Asked(rewards, c))
  <2>3. IsBag(v) /\ BagIds(v) \subseteq BagIds(bag) \cup (Int \X Nat)
        /\ BagCids(v) \subseteq BagCids(bag) \cup Int
    <3>1. IsBag(v)
      BY DEF BagsOf
    <3> QED
      BY <3>1, BagsOfIs
  <2>4. /\ IsBag(new) /\ BagIds(new) \subseteq BagIds(v) \cup ({c} \X Nat)
        /\ BagCids(new) = BagCids(v) \cup {c}
    BY <2>2, <2>3, AddItemIs DEF Follows
  <2> HIDE DEF new, S
  <2>5. {c} \X Nat \subseteq Int \X Nat
    BY <2>2
  <2>6. /\ BagIds(new) \subseteq BagIds(bag) \cup (Int \X Nat)
        /\ BagCids(new) \subseteq BagCids(bag) \cup Int
    BY <2>2, <2>3, <2>4, <2>5
  <2>7. new \in V
    BY <2>4, <2>6, BagsOfIs
  <2> QED
    BY <2>7 DEF new
<1>6. bag \in V
  BY BagsOfIs
<1> HIDE DEF V, pick, step, S
<1>7. PICK g : FoldsTo(S, V, bag, pick, step, g)
  BY <1>1, <1>2, <1>5, <1>6, FoldExists
<1>8. g \in [SUBSET S -> V] /\ g[{}] = bag
  BY <1>7 DEF FoldsTo
<1>9. ASSUME NEW C \in SUBSET S, C # {}
      PROVE  g[C] = AddItem(g[C \ {Max(C)}], Max(C), Asked(rewards, Max(C)))
  <2>1. pick[C] = Max(C) /\ Max(C) \in S
    BY <1>2, <1>9 DEF pick, Picks
  <2>2. g[C \ {Max(C)}] \in V
    BY <1>8
  <2>3. g[C] = step[Max(C)][g[C \ {Max(C)}]]
    BY <1>7, <1>9, <2>1 DEF FoldsTo
  <2> QED
    BY <2>1, <2>2, <2>3 DEF step
<1>10. GrantSteps(bag, rewards, g)
  BY <1>8, <1>9 DEF GrantSteps, S
<1> QED
  BY <1>10

LEMMA GrantedIs ==
  ASSUME NEW bag, IsBag(bag), NEW rewards, IsRewards(rewards)
  PROVE  /\ Follows(bag, Granted(bag, rewards))
         /\ BagIds(Granted(bag, rewards)) \subseteq BagIds(bag) \cup (Int \X Nat)
         /\ BagCids(Granted(bag, rewards)) \subseteq BagCids(bag) \cup Named(rewards)
         /\ \A d : Total(Granted(bag, rewards), d) = Total(bag, d) + Worth(rewards, d)
<1> DEFINE S == Named(rewards)
<1> DEFINE g == CHOOSE g : GrantSteps(bag, rewards, g)
<1> DEFINE F == {C \in SUBSET S :
     /\ Follows(bag, g[C])
     /\ BagIds(g[C]) \subseteq BagIds(bag) \cup (Int \X Nat)
     /\ BagCids(g[C]) \subseteq BagCids(bag) \cup C
     /\ \A d : Total(g[C], d) = Total(bag, d) + (IF d \in C THEN Asked(rewards, d) ELSE 0)}
<1>1. IsFiniteSet(S) /\ S \subseteq Int
  BY NamedFinite DEF IsRewards, IsLines, Named
<1>2. GrantSteps(bag, rewards, g)
  BY GrantExists
<1>3. Granted(bag, rewards) = g[S]
  BY GrantDef
<1> HIDE DEF g
<1>4. /\ g[{}] = bag
      /\ \A C \in SUBSET S : C # {} =>
           g[C] = AddItem(g[C \ {Max(C)}], Max(C), Asked(rewards, Max(C)))
  BY <1>2 DEF GrantSteps
<1> HIDE DEF S
<1>5. {} \in F
  <2>1. \A d : Total(bag, d) \in Nat
    BY BagFacts
  <2> QED
    BY <1>4, <2>1 DEF Follows
<1>6. ASSUME NEW C \in SUBSET S, C # {}, C \ {Max(C)} \in F PROVE C \in F
  <2> DEFINE m == Max(C)
  <2> DEFINE old == g[C \ {m}]
  <2> DEFINE n == Asked(rewards, m)
  <2>1. m \in C
    <3>1. IsFiniteSet(C) /\ C \in SUBSET Int
      BY <1>1, FS_Subset
    <3> QED
      BY <1>6, <3>1, FiniteMax
  <2>2. g[C] = AddItem(old, m, n)
    BY <1>4, <1>6
  <2>3. /\ Follows(bag, old) /\ BagIds(old) \subseteq BagIds(bag) \cup (Int \X Nat)
        /\ BagCids(old) \subseteq BagCids(bag) \cup (C \ {m})
        /\ \A d : Total(old, d) = Total(bag, d) + (IF d \in C \ {m} THEN Asked(rewards, d) ELSE 0)
    BY <1>6
  <2>4. n \in Nat /\ \A d : Asked(rewards, d) \in Nat /\ Total(bag, d) \in Nat
    BY LinesFacts, BagFacts DEF IsRewards
  <2>5. IsBag(old)
    BY <2>3 DEF Follows
  <2> HIDE DEF old
  <2>6. /\ Follows(old, g[C]) /\ BagCids(g[C]) = BagCids(old) \cup {m}
        /\ BagIds(g[C]) \subseteq BagIds(old) \cup ({m} \X Nat)
        /\ \A d : Total(g[C], d) = Total(old, d) + (IF d = m THEN n ELSE 0)
    BY <2>2, <2>4, <2>5, AddItemIs
  <2> HIDE DEF m
  <2>7. Follows(bag, g[C])
    BY <2>3, <2>6 DEF Follows
  <2>8. BagCids(g[C]) \subseteq BagCids(bag) \cup C
    BY <2>1, <2>3, <2>6
  <2>9. ASSUME NEW d
        PROVE  Total(g[C], d) = Total(bag, d) + (IF d \in C THEN Asked(rewards, d) ELSE 0)
    <3>1. CASE d = m
      BY <2>1, <2>3, <2>4, <2>6, <3>1
    <3>2. CASE d # m
      BY <2>1, <2>3, <2>4, <2>6, <3>2
    <3> QED
      BY <3>1, <3>2
  <2>10. BagIds(g[C]) \subseteq BagIds(bag) \cup (Int \X Nat)
    <3>1. {m} \X Nat \subseteq Int \X Nat
      BY <1>1, <2>1
    <3> QED
      BY <2>3, <2>6, <3>1
  <2> QED
    BY <2>7, <2>8, <2>9, <2>10
<1>7. \A C \in SUBSET S : C # {} /\ (\A x \in C : C \ {x} \in F) => C \in F
  <2>1. SUFFICES ASSUME NEW C \in SUBSET S, C # {}, \A x \in C : C \ {x} \in F PROVE C \in F
    OBVIOUS
  <2>2. IsFiniteSet(C) /\ C \in SUBSET Int
    BY <1>1, FS_Subset
  <2>3. Max(C) \in C
    BY <2>1, <2>2, FiniteMax
  <2> QED
    BY <1>6, <2>1, <2>3
<1> HIDE DEF F
<1>8. S \in F
  BY <1>1, <1>5, <1>7, ShrinkInduction
<1>9. /\ Follows(bag, g[S]) /\ BagIds(g[S]) \subseteq BagIds(bag) \cup (Int \X Nat)
      /\ BagCids(g[S]) \subseteq BagCids(bag) \cup S
      /\ \A d : Total(g[S], d) = Total(bag, d) + (IF d \in S THEN Asked(rewards, d) ELSE 0)
  BY <1>8 DEF F
<1>10. \A d : Worth(rewards, d) = IF d \in S THEN Asked(rewards, d) ELSE 0
  BY LinesFacts DEF IsRewards, S
<1> QED
  BY <1>3, <1>9, <1>10 DEF S

-----------------------------------------------------------------------------
(* Sums over the rows that other rows point to.                             *)
PointsTo(J, h, i) == {j \in J : h[j] = i}
PointsInto(J, h, I) == {j \in J : h[j] \in I}

LEMMA SumFibers ==
  ASSUME NEW I, IsFiniteSet(I), NEW J, IsFiniteSet(J), NEW h, NEW f, NEW a,
         \A j \in J : f[j] \in Int,
         \A i \in I : a[i] = SumFunctionOnSet(f, PointsTo(J, h, i))
  PROVE  SumFunctionOnSet(a, I) = SumFunctionOnSet(f, PointsInto(J, h, I))
<1> DEFINE P(s) == PointsInto(J, h, s)
<1> DEFINE Q(x) == PointsTo(J, h, x)
<1> USE DEF PointsTo, PointsInto
<1> DEFINE F == {s \in SUBSET I : SumFunctionOnSet(a, s) = SumFunctionOnSet(f, P(s))}
<1>1. {} \in F
  <2>1. P({}) = {}
    OBVIOUS
  <2> HIDE DEF P
  <2> QED
    BY <2>1, SumEmpty
<1>2. ASSUME NEW s \in SUBSET I, NEW x \in I \ s, s \in F PROVE s \cup {x} \in F
  <2>1. P(s \cup {x}) = P(s) \cup Q(x) /\ P(s) \cap Q(x) = {}
    OBVIOUS
  <2>2. IsFiniteSet(s) /\ IsFiniteSet(P(s)) /\ IsFiniteSet(Q(x))
    BY FS_Subset
  <2>3. \A j \in P(s) \cup Q(x) : f[j] \in Int
    OBVIOUS
  <2>4. \A y \in s \cup {x} : a[y] \in Int
    <3>1. SUFFICES ASSUME NEW y \in I PROVE a[y] \in Int
      OBVIOUS
    <3>2. IsFiniteSet(Q(y)) /\ \A j \in Q(y) : f[j] \in Int
      BY FS_Subset
    <3>3. a[y] = SumFunctionOnSet(f, Q(y))
      OBVIOUS
    <3> HIDE DEF Q
    <3> QED
      BY <3>2, <3>3, SumInt
  <2>5. a[x] = SumFunctionOnSet(f, Q(x)) /\ x \notin s
    OBVIOUS
  <2>6. SumFunctionOnSet(a, s) = SumFunctionOnSet(f, P(s))
    BY <1>2
  <2> HIDE DEF P, Q
  <2>7. SumFunctionOnSet(a, s \cup {x}) = SumFunctionOnSet(a, s) + a[x]
    BY <2>2, <2>4, <2>5, SumWith
  <2>8. SumFunctionOnSet(f, P(s) \cup Q(x)) = SumFunctionOnSet(f, P(s)) + SumFunctionOnSet(f, Q(x))
    BY <2>1, <2>2, <2>3, SumUnion
  <2>9. SumFunctionOnSet(a, s \cup {x}) = SumFunctionOnSet(f, P(s \cup {x}))
    BY <2>1, <2>5, <2>6, <2>7, <2>8
  <2> QED
    BY <2>9
<1> HIDE DEF F
<1>3. I \in F
  BY <1>1, <1>2, SetInduction
<1> QED
  BY <1>3 DEF F

(* consume_items takes of every cid exactly what its named rows give.       *)
Given(bag, req) ==
  [i \in DOMAIN req |-> Line(bag[RowOf(bag, req[i].id)].cid, req[i].num)]

LEMMA ConsumedIdsIs ==
  ASSUME NEW bag, IsBag(bag), DistinctIds(bag), NEW req, IsLines(req),
         CanConsumeIds(bag, req), \A i \in DOMAIN req : req[i].num > 0
  PROVE  LET new == ConsumedIds(bag, req)
         IN /\ Follows(bag, new) /\ BagCids(new) = BagCids(bag)
            /\ \A c : Total(bag, c) = Total(new, c) + Worth(Given(bag, req), c)
            /\ \A c : Worth(Given(bag, req), c) \in Nat
<1> DEFINE new == ConsumedIds(bag, req)
<1> DEFINE J == DOMAIN req
<1> DEFINE h == [j \in J |-> RowOf(bag, req[j].id)]
<1> DEFINE f == Nums(req)
<1>1. /\ Len(bag) \in Nat /\ DOMAIN bag = 1..Len(bag)
      /\ \A i \in DOMAIN bag : Nums(bag)[i] = bag[i].num /\ bag[i].num \in Nat
  BY BagFacts
<1>2. \A i \in DOMAIN bag : RowOf(bag, bag[i].id) = i
  BY DEF DistinctIds, RowOf
<1>3. \A j \in J : req[j].id \in Named(req) /\ HasRow(bag, req[j].id)
  BY DEF Named, CanConsumeIds
<1>4. \A j \in J : h[j] \in DOMAIN bag /\ bag[h[j]].id = req[j].id
  BY <1>3 DEF RowOf, HasRow
<1>5. \A j \in J : f[j] = req[j].num /\ f[j] \in Nat
  BY DEF IsLines, Nums
<1>6. IsFiniteSet(J)
  BY SeqFacts DEF IsLines
<1> DEFINE a == [i \in DOMAIN bag |-> Asked(req, bag[i].id)]
<1>7. \A i \in DOMAIN bag : a[i] = SumFunctionOnSet(f, PointsTo(J, h, i))
  <2>1. SUFFICES ASSUME NEW i \in DOMAIN bag
                 PROVE  a[i] = SumFunctionOnSet(f, PointsTo(J, h, i))
    OBVIOUS
  <2>2. {j \in DOMAIN req : req[j].id = bag[i].id} = PointsTo(J, h, i)
    BY <1>2, <1>4 DEF PointsTo
  <2>3. Asked(req, bag[i].id) = Worth(req, bag[i].id)
    BY LinesFacts
  <2> QED
    BY <2>2, <2>3 DEF Worth
<1>8. \A i \in DOMAIN bag : a[i] \in Nat /\ a[i] <= bag[i].num
  <2>1. SUFFICES ASSUME NEW i \in DOMAIN bag PROVE a[i] \in Nat /\ a[i] <= bag[i].num
    OBVIOUS
  <2>2. a[i] \in Nat /\ (bag[i].id \notin Named(req) => a[i] = 0)
    BY LinesFacts
  <2>3. bag[i].id \in Named(req) => a[i] <= bag[i].num
    BY <1>2 DEF CanConsumeIds
  <2> QED
    BY <1>1, <2>2, <2>3
<1>9. DOMAIN new = DOMAIN bag /\ \A i \in DOMAIN bag :
        new[i] = Stack(bag[i].id, bag[i].cid, bag[i].num - a[i])
  <2>1. DOMAIN new = DOMAIN bag
    BY DEF ConsumedIds
  <2>2. ASSUME NEW i \in DOMAIN bag
        PROVE  new[i] = Stack(bag[i].id, bag[i].cid, bag[i].num - a[i])
    <3>1. new[i] = [bag[i] EXCEPT !.num = @ - a[i]]
      BY DEF ConsumedIds
    <3>2. bag[i] = [id |-> bag[i].id, cid |-> bag[i].cid, num |-> bag[i].num]
      BY DEF IsBag, Stack
    <3> HIDE DEF new, a
    <3> QED
      BY <3>1, <3>2 DEF Stack
  <2> QED
    BY <2>1, <2>2
<1>10. IsSeq(new)
  <2>1. new = [i \in 1..Len(bag) |-> new[i]]
    BY <1>1 DEF ConsumedIds
  <2> QED
    BY <1>1, <2>1, FunctionIsSeq
<1> HIDE DEF new, a
<1>11. \A i \in DOMAIN bag : /\ new[i].id = bag[i].id /\ new[i].cid = bag[i].cid
                             /\ new[i].num = bag[i].num - a[i] /\ new[i].num \in Nat
                             /\ new[i] = Stack(new[i].id, new[i].cid, new[i].num)
  BY <1>1, <1>8, <1>9 DEF Stack
<1>12. IsBag(new)
  BY <1>9, <1>10, <1>11 DEF IsBag
<1>13. Follows(bag, new) /\ BagCids(new) = BagCids(bag)
  BY <1>9, <1>11, <1>12 DEF Follows, BagIds, BagCids, DistinctIds
<1>14. ASSUME NEW c
       PROVE  /\ Total(bag, c) = Total(new, c) + Worth(Given(bag, req), c)
              /\ Worth(Given(bag, req), c) \in Nat
  <2> DEFINE I == Rows(bag, c)
  <2>1. IsFiniteSet(I) /\ I \subseteq DOMAIN bag
    BY BagFacts
  <2>2. Rows(new, c) = I
    BY <1>9, <1>11 DEF Rows
  <2>3. \A i \in I : /\ Nums(new)[i] \in Int /\ a[i] \in Int
                     /\ Nums(bag)[i] = Nums(new)[i] + a[i]
    BY <1>1, <1>8, <1>9, <1>11, <1>12, <2>1, BagFacts
  <2>4. SumFunctionOnSet(a, I) = SumFunctionOnSet(f, PointsInto(J, h, I))
    <3>1. \A i \in I : a[i] = SumFunctionOnSet(f, PointsTo(J, h, i))
      BY <1>7, <2>1
    <3>2. \A j \in J : f[j] \in Int
      BY <1>5
    <3> HIDE DEF I, J, f, h
    <3> QED
      BY <1>6, <2>1, <3>1, <3>2, SumFibers
  <2>5. Worth(Given(bag, req), c) = SumFunctionOnSet(f, PointsInto(J, h, I))
    <3> DEFINE given == Given(bag, req)
    <3>1. DOMAIN given = J /\ \A j \in J : given[j].id = bag[h[j]].cid /\ given[j].num = req[j].num
      BY DEF Given, Line
    <3>2. {j \in DOMAIN given : given[j].id = c} = PointsInto(J, h, I)
      BY <1>4, <3>1 DEF Rows, PointsInto
    <3>3. Nums(given) = f
      BY <3>1 DEF Nums
    <3> QED
      BY <3>2, <3>3 DEF Worth
  <2>6. \A i \in I : a[i] \in Nat
    BY <1>8, <2>1
  <2> DEFINE b == Nums(bag)
  <2> DEFINE d == Nums(new)
  <2> HIDE DEF I, f, h, J, b, d
  <2>7. SumFunctionOnSet(b, I) = SumFunctionOnSet(d, I) + SumFunctionOnSet(a, I)
    <3>1. \A i \in I : d[i] \in Int /\ a[i] \in Int /\ b[i] = d[i] + a[i]
      BY <2>3 DEF b, d
    <3> QED
      BY <2>1, <3>1, SumPlus
  <2>8. SumFunctionOnSet(a, I) \in Nat
    BY <2>1, <2>6, SumNat
  <2>9. SumFunctionOnSet(d, I) \in Int
    <3>1. \A i \in I : d[i] \in Int
      BY <2>3 DEF d
    <3> QED
      BY <2>1, <3>1, SumInt
  <2> QED
    BY <2>2, <2>4, <2>5, <2>7, <2>8, <2>9 DEF Total, I, b, d
<1> QED
  BY <1>13, <1>14 DEF new

-----------------------------------------------------------------------------
(* FoldLeft goes through a list from its first member: there is a walk over *)
(* values of V, one for every prefix, that ends with the fold.  A function  *)
(* LeftSteps can be made; any function that LeftUnfolds makes such a walk.  *)
LeftSteps(n, V, base, step, g) ==
  /\ g = [s \in SUBSET (1..n) |-> g[s]]
  /\ g[{}] = base
  /\ \A s \in SUBSET (1..n) : s # {} =>
       /\ Max(s) \in 1..n /\ g[s \ {Max(s)}] \in V
       /\ g[s] = step[Max(s)][g[s \ {Max(s)}]]

LeftUnfolds(n, V, base, step, g) ==
  /\ g[{}] = base
  /\ \A s \in SUBSET (1..n) :
       s # {} /\ Max(s) \in 1..n /\ g[s \ {Max(s)}] \in V =>
         g[s] = step[Max(s)][g[s \ {Max(s)}]]

Walk(n, V, base, step, p) ==
  /\ p \in [0..n -> V]
  /\ p[0] = base
  /\ \A k \in 1..n : p[k] = step[k][p[k - 1]]

WalksTo(n, V, base, step, end) == \E p : Walk(n, V, base, step, p) /\ p[n] = end

LEMMA LastOfPrefix ==
  ASSUME NEW n \in Nat
  PROVE  /\ IsFiniteSet(1..n) /\ 1..0 = {}
         /\ \A s \in SUBSET (1..n) : s # {} => Max(s) \in s
         /\ \A k \in 1..n : Max(1..k) = k /\ (1..k) \ {k} = 1..(k - 1)
<1>1. IsFiniteSet(1..n)
  BY FS_Interval
<1>2. ASSUME NEW s \in SUBSET (1..n), s # {}
      PROVE  Max(s) \in s /\ \A y \in s : y <= Max(s)
  <2>1. s \in SUBSET Int
    OBVIOUS
  <2>2. IsFiniteSet(s)
    BY <1>1, FS_Subset
  <2> QED
    BY <1>2, <2>1, <2>2, FiniteMax
<1>3. ASSUME NEW k \in 1..n PROVE Max(1..k) = k /\ (1..k) \ {k} = 1..(k - 1)
  <2>1. 1..k \in SUBSET (1..n) /\ k \in 1..k
    OBVIOUS
  <2>2. Max(1..k) \in 1..k /\ k <= Max(1..k)
    BY <1>2, <2>1
  <2> QED
    BY <2>2
<1> QED
  BY <1>1, <1>2, <1>3

LEMMA LeftFoldExists ==
  ASSUME NEW n \in Nat, NEW V, NEW base \in V, NEW step, StepsIn(1..n, V, step)
  PROVE  \E g : LeftSteps(n, V, base, step, g)
<1> DEFINE S == 1..n
<1> DEFINE pick == [s \in SUBSET S |-> Max(s)]
<1>1. IsFiniteSet(S) /\ Picks(S, pick)
  BY LastOfPrefix DEF Picks
<1>2. \A s \in SUBSET S : pick[s] = Max(s)
  OBVIOUS
<1> HIDE DEF pick
<1>3. PICK g : FoldsTo(S, V, base, pick, step, g)
  BY <1>1, FoldExists
<1>4. ASSUME NEW s \in SUBSET (1..n), s # {}
      PROVE  /\ Max(s) \in 1..n /\ g[s \ {Max(s)}] \in V
             /\ g[s] = step[Max(s)][g[s \ {Max(s)}]]
  <2>1. Max(s) \in 1..n
    BY <1>4, LastOfPrefix
  <2> QED
    BY <1>2, <1>3, <1>4, <2>1 DEF FoldsTo
<1>5. LeftSteps(n, V, base, step, g)
  <2>1. g = [s \in SUBSET (1..n) |-> g[s]] /\ g[{}] = base
    BY <1>3 DEF FoldsTo
  <2> QED
    BY <1>4, <2>1 DEF LeftSteps
<1> QED
  BY <1>5

LEMMA LeftFoldWalks ==
  ASSUME NEW n \in Nat, NEW V, NEW base \in V, NEW step, StepsIn(1..n, V, step),
         NEW g, LeftUnfolds(n, V, base, step, g)
  PROVE  WalksTo(n, V, base, step, g[1..n])
<1>0. /\ g[{}] = base
      /\ \A s \in SUBSET (1..n) :
           s # {} /\ Max(s) \in 1..n /\ g[s \ {Max(s)}] \in V =>
             g[s] = step[Max(s)][g[s \ {Max(s)}]]
  BY DEF LeftUnfolds
<1> DEFINE p == [k \in 0..n |-> g[1..k]]
<1> DEFINE T == {k \in Nat : k <= n => p[k] \in V /\ (k > 0 => p[k] = step[k][p[k - 1]])}
<1>1. 0 \in T
  BY <1>0, LastOfPrefix
<1>2. ASSUME NEW k \in Nat, k \in T PROVE k + 1 \in T
  <2>1. SUFFICES ASSUME k + 1 <= n
                 PROVE  p[k + 1] \in V /\ p[k + 1] = step[k + 1][p[k]]
    OBVIOUS
  <2>2. p[k] \in V /\ k + 1 \in 1..n
    BY <1>2, <2>1
  <2> DEFINE s == 1..(k + 1)
  <2>3. s \in SUBSET (1..n) /\ s # {} /\ Max(s) = k + 1 /\ s \ {k + 1} = 1..k
    <3>1. Max(s) = k + 1 /\ s \ {k + 1} = 1..((k + 1) - 1)
      BY <2>2, LastOfPrefix
    <3>2. (k + 1) - 1 = k /\ s \in SUBSET (1..n) /\ k + 1 \in s
      BY <2>2
    <3> HIDE DEF s
    <3> QED
      BY <3>1, <3>2
  <2>4. p[k] = g[1..k] /\ p[k + 1] = g[s]
    BY <2>1
  <2> HIDE DEF s, p
  <2>5. g[s] = step[k + 1][p[k]]
    <3>1. g[s \ {Max(s)}] = p[k]
      BY <2>3, <2>4
    <3> QED
      BY <1>0, <2>2, <2>3, <3>1
  <2>6. step[k + 1][p[k]] \in V
    BY <2>2 DEF StepsIn
  <2> QED
    BY <2>4, <2>5, <2>6
<1> HIDE DEF T
<1>3. Nat \subseteq T
  BY <1>1, <1>2, NumberInduction
<1>4. \A k \in 0..n : p[k] \in V /\ (k > 0 => p[k] = step[k][p[k - 1]])
  BY <1>3 DEF T
<1>5. p[0] = base /\ p[n] = g[1..n]
  <2>1. p[0] = g[1..0] /\ p[n] = g[1..n]
    OBVIOUS
  <2>2. 1..0 = {}
    OBVIOUS
  <2> HIDE DEF p
  <2> QED
    BY <1>0, <2>1, <2>2
<1>6. p \in [0..n -> V]
  BY <1>4
<1> HIDE DEF p
<1>7. Walk(n, V, base, step, p)
  <2>1. ASSUME NEW k \in 1..n PROVE p[k] = step[k][p[k - 1]]
    BY <1>4
  <2> QED
    BY <1>5, <1>6, <2>1 DEF Walk
<1> QED
  BY <1>5, <1>7 DEF WalksTo

-----------------------------------------------------------------------------
(* Sequences, and lines about the items C.                                  *)
LEMMA SeqMembers ==
  ASSUME NEW S, NEW q \in Seq(S)
  PROVE  /\ IsSeq(q) /\ Len(q) \in Nat /\ DOMAIN q = 1..Len(q)
         /\ \A i \in DOMAIN q : q[i] \in S
         /\ q = [i \in 1..Len(q) |-> q[i]]
BY DEF IsSeq, Range

LEMMA SeqFrom ==
  ASSUME NEW S, NEW n \in Nat, NEW q, q = [i \in 1..n |-> q[i]], \A i \in 1..n : q[i] \in S
  PROVE  q \in Seq(S) /\ Len(q) = n
OBVIOUS

LEMMA SeqEqual ==
  ASSUME NEW S, NEW T, NEW q \in Seq(S), NEW r \in Seq(T), Len(q) = Len(r),
         \A i \in 1..Len(q) : q[i] = r[i]
  PROVE  q = r
<1>1. q = [i \in 1..Len(q) |-> q[i]] /\ r = [i \in 1..Len(r) |-> r[i]]
  OBVIOUS
<1> QED
  BY <1>1

LEMMA SeqGrows ==
  ASSUME NEW S
  PROVE  /\ <<>> \in Seq(S)
         /\ \A q, r \in Seq(S) : q \o r \in Seq(S)
         /\ \A q \in Seq(S), x \in S : Append(q, x) \in Seq(S)
OBVIOUS

LEMMA JoinedIs ==
  ASSUME NEW S, NEW q \in Seq(S), NEW r \in Seq(S)
  PROVE  /\ Len(q \o r) = Len(q) + Len(r)
         /\ \A i \in 1..(Len(q) + Len(r)) :
              (q \o r)[i] = IF i <= Len(q) THEN q[i] ELSE r[i - Len(q)]
OBVIOUS

LEMMA LinesMembers ==
  ASSUME NEW C, NEW lines \in Lines(C)
  PROVE  /\ IsSeq(lines) /\ Len(lines) \in Nat /\ DOMAIN lines = 1..Len(lines)
         /\ \A i \in DOMAIN lines : lines[i].id \in C /\ lines[i].num \in Nat
<1> DEFINE L == [id : C, num : Nat]
<1>1. \A l \in L : l.id \in C /\ l.num \in Nat
  OBVIOUS
<1>2. lines \in Seq(L)
  BY DEF Lines
<1> HIDE DEF L
<1> QED
  BY <1>1, <1>2, SeqMembers

LEMMA TimesLines ==
  ASSUME NEW C, NEW lines \in Lines(C), NEW k \in Nat
  PROVE  Times(lines, k) \in Lines(C)
<1> DEFINE L == [id : C, num : Nat]
<1> DEFINE new == Times(lines, k)
<1>1. /\ Len(lines) \in Nat /\ DOMAIN lines = 1..Len(lines)
      /\ \A i \in DOMAIN lines : lines[i].id \in C /\ lines[i].num \in Nat
  BY LinesMembers
<1>2. \A i \in 1..Len(lines) : new[i] \in L
  BY <1>1 DEF Line, Times
<1>3. new = [i \in 1..Len(lines) |-> new[i]]
  BY <1>1 DEF Times
<1> HIDE DEF L, new
<1>4. new \in Seq(L)
  BY <1>1, <1>2, <1>3, SeqFrom
<1> QED
  BY <1>4 DEF Lines, L, new

LEMMA LinesTyped ==
  ASSUME NEW C, NEW lines \in Lines(C)
  PROVE  IsLines(lines) /\ Named(lines) \subseteq C
BY LinesMembers DEF IsLines, Named

-----------------------------------------------------------------------------
(* Lists without some of their members.                                     *)
OnlySteps(q, keep, g) ==
  g = [s \in SUBSET DOMAIN q |->
         IF s = {} THEN <<>>
         ELSE IF q[Max(s)] \in keep THEN Append(g[s \ {Max(s)}], q[Max(s)]) ELSE g[s \ {Max(s)}]]

OnlyRuns(q, keep, p) ==
  /\ p \in [0..Len(q) -> Seq(Range(q) \cap keep)] /\ p[0] = <<>>
  /\ \A k \in 1..Len(q) :
       p[k] = IF q[k] \in keep THEN Append(p[k - 1], q[k]) ELSE p[k - 1]
  /\ p[Len(q)] = Only(q, keep)

LEMMA OnlyWalk ==
  ASSUME NEW q, IsSeq(q), NEW keep
  PROVE  \E p : OnlyRuns(q, keep, p)
<1> DEFINE n == Len(q)
<1> DEFINE R == Range(q) \cap keep
<1> DEFINE V == Seq(R)
<1> DEFINE base == <<>>
<1> DEFINE step == [i \in 1..n |-> [v \in V |-> IF q[i] \in keep THEN Append(v, q[i]) ELSE v]]
<1> DEFINE h == CHOOSE g : OnlySteps(q, keep, g)
<1>1. n \in Nat /\ DOMAIN q = 1..n
  BY SeqFacts
<1>2. base \in V
  BY SeqGrows
<1>3. StepsIn(1..n, V, step)
  <2>1. \A i \in 1..n : q[i] \in keep => q[i] \in R
    BY <1>1 DEF Range
  <2> HIDE DEF R
  <2> QED
    BY <2>1, SeqGrows DEF StepsIn
<1>4. \A i \in 1..n : \A v \in V :
        step[i][v] = IF q[i] \in keep THEN Append(v, q[i]) ELSE v
  OBVIOUS
<1>5. Only(q, keep) = h[1..n]
  BY <1>1 DEF Only, FoldLeft, MapThenFoldSet, OnlySteps
<1> HIDE DEF n, V, step, base
<1>6. PICK g : LeftSteps(n, V, base, step, g)
  BY <1>1, <1>2, <1>3, LeftFoldExists
<1>7. OnlySteps(q, keep, g)
  <2>1. ASSUME NEW s \in SUBSET (1..n), s # {}
        PROVE  g[s] = IF q[Max(s)] \in keep THEN Append(g[s \ {Max(s)}], q[Max(s)])
                      ELSE g[s \ {Max(s)}]
    BY <1>4, <1>6, <2>1 DEF LeftSteps
  <2> QED
    BY <1>1, <1>6, <2>1 DEF LeftSteps, OnlySteps, base
<1>8. OnlySteps(q, keep, h)
  BY <1>7
<1> HIDE DEF h
<1>9. LeftUnfolds(n, V, base, step, h)
  BY <1>1, <1>4, <1>8 DEF LeftUnfolds, OnlySteps, base
<1>10. WalksTo(n, V, base, step, h[1..n])
  BY <1>1, <1>2, <1>3, <1>9, LeftFoldWalks
<1>11. PICK p : Walk(n, V, base, step, p) /\ p[n] = h[1..n]
  BY <1>10 DEF WalksTo
<1>12. ASSUME NEW k \in 1..n
       PROVE  p[k] = IF q[k] \in keep THEN Append(p[k - 1], q[k]) ELSE p[k - 1]
  <2>1. p[k - 1] \in V /\ p[k] = step[k][p[k - 1]]
    BY <1>1, <1>11 DEF Walk
  <2> QED
    BY <1>4, <2>1
<1>13. p \in [0..n -> V] /\ p[0] = base
  BY <1>11 DEF Walk
<1>14. OnlyRuns(q, keep, p)
  BY <1>5, <1>11, <1>12, <1>13 DEF OnlyRuns, n, V, base
<1> QED
  BY <1>14

LEMMA OnlyIs ==
  ASSUME NEW q, IsSeq(q), NEW keep
  PROVE  /\ Only(q, keep) \in Seq(Range(q) \cap keep)
         /\ (\A i \in DOMAIN q : q[i] \in keep) => Only(q, keep) = q
<1> DEFINE n == Len(q)
<1>1. n \in Nat /\ DOMAIN q = 1..n
  BY SeqFacts
<1>2. PICK p : OnlyRuns(q, keep, p)
  BY OnlyWalk
<1> DEFINE R == Range(q) \cap keep
<1>3. Only(q, keep) \in Seq(R)
  BY <1>1, <1>2 DEF OnlyRuns
<1>4. ASSUME \A i \in DOMAIN q : q[i] \in keep PROVE Only(q, keep) = q
  <2> DEFINE T == {k \in Nat : k <= n => Len(p[k]) = k /\ \A i \in 1..k : p[k][i] = q[i]}
  <2>1. 0 \in T
    BY <1>2 DEF OnlyRuns
  <2>2. ASSUME NEW k \in Nat, k \in T PROVE k + 1 \in T
    <3>1. SUFFICES ASSUME k + 1 <= n
                   PROVE  Len(p[k + 1]) = k + 1 /\ \A i \in 1..(k + 1) : p[k + 1][i] = q[i]
      OBVIOUS
    <3>2. Len(p[k]) = k /\ \A i \in 1..k : p[k][i] = q[i]
      BY <2>2, <3>1
    <3>3. k + 1 \in 1..n /\ k \in 0..n /\ (k + 1) - 1 = k /\ q[k + 1] \in keep
      BY <1>1, <1>4, <3>1
    <3>4. p[k] \in Seq(R) /\ p[k + 1] = Append(p[k], q[k + 1])
      BY <1>2, <3>3 DEF OnlyRuns
    <3> HIDE DEF R
    <3>5. IsSeq(p[k])
      BY <3>4, SeqMembers
    <3> QED
      BY <3>2, <3>4, <3>5, AppendIs
  <2> HIDE DEF T
  <2>3. n \in T
    BY <1>1, <2>1, <2>2, NumberInduction
  <2>4. Len(p[n]) = n /\ \A i \in 1..n : p[n][i] = q[i]
    BY <1>1, <2>3 DEF T
  <2>5. p[n] = Only(q, keep)
    BY <1>2 DEF OnlyRuns
  <2> HIDE DEF R
  <2> QED
    BY <1>1, <1>3, <2>4, <2>5, SeqEqual DEF IsSeq
<1> QED
  BY <1>3, <1>4

FirstsSteps(q, keep, g) ==
  g = [s \in SUBSET DOMAIN q |->
         IF s = {} THEN <<>>
         ELSE IF q[Max(s)] \in keep /\ ~Contains(g[s \ {Max(s)}], q[Max(s)])
         THEN Append(g[s \ {Max(s)}], q[Max(s)]) ELSE g[s \ {Max(s)}]]

FirstsRuns(q, keep, p) ==
  /\ p \in [0..Len(q) -> Seq(Range(q) \cap keep)] /\ p[0] = <<>>
  /\ \A k \in 1..Len(q) :
       p[k] = IF q[k] \in keep /\ ~Contains(p[k - 1], q[k]) THEN Append(p[k - 1], q[k])
              ELSE p[k - 1]
  /\ p[Len(q)] = Firsts(q, keep)

LEMMA FirstsWalk ==
  ASSUME NEW q, IsSeq(q), NEW keep
  PROVE  \E p : FirstsRuns(q, keep, p)
<1> DEFINE n == Len(q)
<1> DEFINE R == Range(q) \cap keep
<1> DEFINE V == Seq(R)
<1> DEFINE base == <<>>
<1> DEFINE step == [i \in 1..n |-> [v \in V |->
                      IF q[i] \in keep /\ ~Contains(v, q[i]) THEN Append(v, q[i]) ELSE v]]
<1> DEFINE h == CHOOSE g : FirstsSteps(q, keep, g)
<1>1. n \in Nat /\ DOMAIN q = 1..n
  BY SeqFacts
<1>2. base \in V
  BY SeqGrows
<1>3. StepsIn(1..n, V, step)
  <2>1. \A i \in 1..n : q[i] \in keep => q[i] \in R
    BY <1>1 DEF Range
  <2> HIDE DEF R
  <2> QED
    BY <2>1, SeqGrows DEF StepsIn
<1>4. \A i \in 1..n : \A v \in V :
        step[i][v] = IF q[i] \in keep /\ ~Contains(v, q[i]) THEN Append(v, q[i]) ELSE v
  OBVIOUS
<1>5. Firsts(q, keep) = h[1..n]
  BY <1>1 DEF Firsts, FoldLeft, MapThenFoldSet, FirstsSteps
<1> HIDE DEF n, V, step, base
<1>6. PICK g : LeftSteps(n, V, base, step, g)
  BY <1>1, <1>2, <1>3, LeftFoldExists
<1>7. FirstsSteps(q, keep, g)
  <2>1. ASSUME NEW s \in SUBSET (1..n), s # {}
        PROVE  g[s] = IF q[Max(s)] \in keep /\ ~Contains(g[s \ {Max(s)}], q[Max(s)])
                      THEN Append(g[s \ {Max(s)}], q[Max(s)]) ELSE g[s \ {Max(s)}]
    BY <1>4, <1>6, <2>1 DEF LeftSteps
  <2> QED
    BY <1>1, <1>6, <2>1 DEF LeftSteps, FirstsSteps, base
<1>8. FirstsSteps(q, keep, h)
  BY <1>7
<1> HIDE DEF h
<1>9. LeftUnfolds(n, V, base, step, h)
  BY <1>1, <1>4, <1>8 DEF LeftUnfolds, FirstsSteps, base
<1>10. WalksTo(n, V, base, step, h[1..n])
  BY <1>1, <1>2, <1>3, <1>9, LeftFoldWalks
<1>11. PICK p : Walk(n, V, base, step, p) /\ p[n] = h[1..n]
  BY <1>10 DEF WalksTo
<1>12. ASSUME NEW k \in 1..n
       PROVE  p[k] = IF q[k] \in keep /\ ~Contains(p[k - 1], q[k]) THEN Append(p[k - 1], q[k])
                     ELSE p[k - 1]
  <2>1. p[k - 1] \in V /\ p[k] = step[k][p[k - 1]]
    BY <1>1, <1>11 DEF Walk
  <2> QED
    BY <1>4, <2>1
<1>13. p \in [0..n -> V] /\ p[0] = base
  BY <1>11 DEF Walk
<1>14. FirstsRuns(q, keep, p)
  BY <1>5, <1>11, <1>12, <1>13 DEF FirstsRuns, n, V, base
<1> QED
  BY <1>14

(* Members(q) without repetitions: no two places hold the same.             *)
Once(q) == \A i, j \in DOMAIN q : q[i] = q[j] => i = j

LEMMA FirstsIs ==
  ASSUME NEW q, IsSeq(q), NEW keep
  PROVE  /\ Firsts(q, keep) \in Seq(Range(q) \cap keep)
         /\ Range(Firsts(q, keep)) = Range(q) \cap keep
         /\ Once(Firsts(q, keep))
         /\ (\A i \in DOMAIN q : q[i] \in keep) /\ Once(q) => Firsts(q, keep) = q
<1> DEFINE n == Len(q)
<1>1. n \in Nat /\ DOMAIN q = 1..n
  BY SeqFacts
<1>2. PICK p : FirstsRuns(q, keep, p)
  BY FirstsWalk
<1> DEFINE R == Range(q) \cap keep
<1>3. Firsts(q, keep) \in Seq(R) /\ p[n] = Firsts(q, keep)
  BY <1>1, <1>2 DEF FirstsRuns
<1> HIDE DEF n, R
<1> DEFINE All(k) == (\A i \in DOMAIN q : q[i] \in keep) /\ Once(q) =>
                       Len(p[k]) = k /\ \A i \in 1..k : p[k][i] = q[i]
<1> DEFINE T == {k \in Nat : k <= n => /\ Once(p[k]) /\ All(k)
                                       /\ Range(p[k]) = {q[i] : i \in 1..k} \cap keep}
<1>4. 0 \in T
  BY <1>2 DEF FirstsRuns, Range, Once
<1>5. ASSUME NEW k \in Nat, k \in T PROVE k + 1 \in T
  <2>1. SUFFICES ASSUME k + 1 <= n
                 PROVE  /\ Once(p[k + 1]) /\ All(k + 1)
                        /\ Range(p[k + 1]) = {q[i] : i \in 1..(k + 1)} \cap keep
    OBVIOUS
  <2>2. Once(p[k]) /\ All(k) /\ Range(p[k]) = {q[i] : i \in 1..k} \cap keep
    <3>1. k <= n
      BY <1>1, <2>1
    <3> HIDE DEF All
    <3> QED
      BY <1>5, <3>1
  <2>3. k + 1 \in 1..n /\ k \in 0..n /\ (k + 1) - 1 = k /\ k + 1 \in DOMAIN q
    BY <1>1, <2>1
  <2>4. p[k] \in Seq(R)
    BY <1>2, <2>3 DEF FirstsRuns, n, R
  <2>5. p[k + 1] = IF q[k + 1] \in keep /\ ~Contains(p[k], q[k + 1]) THEN Append(p[k], q[k + 1])
                   ELSE p[k]
    BY <1>2, <2>3 DEF FirstsRuns, n
  <2> DEFINE v == p[k]
  <2> DEFINE e == q[k + 1]
  <2> DEFINE w == p[k + 1]
  <2>6. IsSeq(v) /\ Len(v) \in Nat /\ DOMAIN v = 1..Len(v)
    BY <2>4, SeqMembers
  <2>7. Contains(v, e) <=> e \in Range(v)
    BY <2>6 DEF Contains, Range
  <2>8. {q[i] : i \in 1..(k + 1)} = {q[i] : i \in 1..k} \cup {e}
    BY <2>3
  <2>9. CASE e \in keep /\ e \notin Range(v)
    <3>1. w = Append(v, e)
      BY <2>5, <2>7, <2>9
    <3>2. /\ Len(w) = Len(v) + 1 /\ DOMAIN w = 1..(Len(v) + 1)
          /\ w[Len(v) + 1] = e /\ \A i \in 1..Len(v) : w[i] = v[i]
      BY <2>6, <3>1, AppendIs
    <3> HIDE DEF v, w, e
    <3>3. \A i \in 1..Len(v) : v[i] \in Range(v)
      BY <2>6 DEF Range
    <3>4. Range(w) = Range(v) \cup {e}
      BY <2>6, <3>2 DEF Range
    <3>5. Once(w)
      <4>1. Once(v)
        BY <2>2 DEF v
      <4> QED
        BY <2>6, <2>9, <3>2, <3>3, <4>1 DEF Once
    <3>6. All(k + 1)
      <4>1. SUFFICES ASSUME \A i \in DOMAIN q : q[i] \in keep, Once(q)
                     PROVE  Len(w) = k + 1 /\ \A i \in 1..(k + 1) : w[i] = q[i]
        BY DEF w
      <4>2. Len(v) = k /\ \A i \in 1..k : v[i] = q[i]
        BY <2>2, <4>1 DEF v
      <4> QED
        BY <3>2, <4>2 DEF e
    <3> QED
      BY <2>2, <2>8, <2>9, <3>4, <3>5, <3>6 DEF v, w
  <2>10. CASE ~(e \in keep /\ e \notin Range(v))
    <3>1. w = v
      BY <2>5, <2>7, <2>10
    <3>2. Range(w) = {q[i] : i \in 1..(k + 1)} \cap keep
      BY <2>2, <2>8, <2>10, <3>1
    <3>3. ~((\A i \in DOMAIN q : q[i] \in keep) /\ Once(q))
      <4>1. SUFFICES ASSUME \A i \in DOMAIN q : q[i] \in keep, Once(q) PROVE FALSE
        OBVIOUS
      <4>2. e \in {q[i] : i \in 1..k}
        BY <2>2, <2>3, <2>10, <4>1
      <4>3. PICK i \in 1..k : q[k + 1] = q[i]
        BY <4>2
      <4>4. i \in DOMAIN q /\ i # k + 1
        BY <1>1, <2>3
      <4> QED
        BY <2>3, <4>1, <4>3, <4>4 DEF Once
    <3>4. Once(w)
      BY <2>2, <3>1
    <3> HIDE DEF v, e
    <3> QED
      BY <3>2, <3>3, <3>4
  <2> QED
    BY <2>9, <2>10
<1> HIDE DEF T
<1>6. n \in T
  BY <1>1, <1>4, <1>5, NumberInduction
<1>7. Once(p[n]) /\ All(n) /\ Range(p[n]) = {q[i] : i \in 1..n} \cap keep
  BY <1>1, <1>6 DEF T
<1>8. Range(p[n]) = R
  BY <1>1, <1>7 DEF Range, R
<1>9. (\A i \in DOMAIN q : q[i] \in keep) /\ Once(q) => Firsts(q, keep) = q
  BY <1>1, <1>3, <1>7, SeqEqual DEF IsSeq, n
<1> QED
  BY <1>3, <1>7, <1>8, <1>9 DEF R
=============================================================================
