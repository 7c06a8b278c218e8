---------------------------- MODULE CombatProofs ----------------------------
(***************************************************************************)
(* Proofs about Combat for every table of stages, prices and drops, every   *)
(* set of connections, with and without overlap and failing writes.         *)
(*                                                                         *)
(* The argument is about one copy of the save: each rule of FightRules      *)
(* keeps the type Save and the invariant SaveInv of the copy it changes,    *)
(* and connections only ever copy whole saves to and from the file.         *)
(***************************************************************************)
EXTENDS CombatLedger, SumFacts

(* The entrances of the steps a player has been at who has won n stages of  *)
(* line d; a town row that is where n wins lead (a row names no step as long *)
(* as nothing has moved it), and the same of all lines.  A stage is won by   *)
(* settling a fight, so the wins are no more than the fights that are over.  *)
DoneBy(d, n) ==
  {e \in Entrances : \E m \in 0..(n - 1) :
     \E i \in DOMAIN Steps[d][StepAfter[d][m]].events :
        Steps[d][StepAfter[d][m]].events[i] = e}

TownGood(row, d, n) ==
  /\ row.step \in {0, Steps[d][StepAfter[d][n]].id}
  /\ row.step = 0 => StepAfter[d][n] = 1
  /\ row.done \subseteq DoneBy(d, n)

FightsOver(s) == IF s.active = NoFight THEN s.seq ELSE s.seq - 1

TownsGood(s) ==
  \A d \in Lines : /\ s.walked[d] <= FightsOver(s)
                   /\ Steps[d] # <<>> => TownGood(s.lines[d], d, s.walked[d])

(* The ledger has no payment of a fight that is not settled.                 *)
UnpaidIsNothing(s) ==
  \A n \in Fights : s.ledger[n].times = 0 => s.ledger[n].pay = Nothing

(* The inductive invariant of one copy.  FirstPlot \in s.passed is needed    *)
(* for BonusExact: were it missing, a win of the opening stage would pay.    *)
(* UnpaidIsNothing is needed for ExpBalance: settling a fight adds its EXP   *)
(* to the sum over the ledger only if its line held none before.             *)
SaveInv(s) ==
  /\ FirstPlot \in s.passed
  /\ WinAgrees(s)
  /\ BonusExact(s)
  /\ OncePerFight(s)
  /\ AnswerTrue(s)
  /\ s.lvl <= MaxLevel
  /\ ExpBalance(s)
  /\ UnpaidIsNothing(s)
  /\ TownsGood(s)

IInv == \A s \in Copies : SaveInv(s)

-----------------------------------------------------------------------------
(* The fields of a save have their types.                                    *)
LEMMA SaveFields ==
  ASSUME NEW s \in Save
  PROVE  /\ s.stamina \in Nat /\ s.bag \in Nat /\ s.lvl \in Nat \ {0} /\ s.exp \in Nat
         /\ s.passed \in SUBSET Levels /\ s.mainLine \in Nat
         /\ s.rows \in [Levels -> Row \cup {NoRow}]
         /\ s.seq \in 0..MaxFights
         /\ s.active \in Fight \cup {NoFight}
         /\ s.last \in Result \cup {NoResult}
         /\ s.ledger \in [Fights -> Entry] /\ s.bonus \in [Levels -> Nat]
         /\ s.lines \in [Lines -> TownRow] /\ s.walked \in [Lines -> Nat]
  BY DEF Save

-----------------------------------------------------------------------------
(* A set of numbers with 0 and, with each of its members, the next one up    *)
(* to N has all of 0..N.                                                     *)
LEMMA UpTo ==
  ASSUME NEW N \in Nat, NEW T, 0 \in T, \A n \in 0..(N - 1) : n \in T => n + 1 \in T
  PROVE  0..N \subseteq T
  <1> SUFFICES ASSUME (0..N) \ T # {} PROVE FALSE
    OBVIOUS
  <1>0. (0..N) \ T \in SUBSET Nat
    OBVIOUS
  <1>1. PICK x \in (0..N) \ T : \A y \in (0..N) \ T : x <= y
    BY <1>0, LeastNumber
  <1>2. x - 1 \in 0..(N - 1)
    BY <1>1
  <1>3. x - 1 \in T
    BY <1>1, <1>2
  <1> QED BY <1>1, <1>2, <1>3

LEMMA StepOK ==
  ASSUME NEW d \in Lines, NEW k \in DOMAIN Steps[d]
  PROVE  /\ Steps[d][k].id \in Nat /\ Steps[d][k].events \in Seq(Entrances)
         /\ WaysOut(d, k) \in SUBSET Nat
  <1> DEFINE Step == [id: Nat, events: Seq(Entrances)]
  <1>1. Steps[d] \in Seq(Step)
    BY TablesAssumption
  <1>2. Steps[d][k] \in Step
    <2> HIDE DEF Step
    <2> QED BY <1>1
  <1>3. DOMAIN Steps[d][k].events \subseteq Nat
    BY <1>2
  <1> QED BY <1>2, <1>3 DEF WaysOut

(* There is a walk along a line of any length.                               *)
WalksTo(d, N, walk) ==
  walk = [n \in 0..N |-> IF n = 0 THEN 1 ELSE StepBehind(d, walk[n - 1])]

LEMMA WalkExists ==
  ASSUME NEW d
  PROVE  \E walk : WalksTo(d, MaxFights, walk)
  <1> DEFINE T == {N \in Nat : \E walk : WalksTo(d, N, walk)}
  <1>1. 0 \in T
    <2>1. WalksTo(d, 0, [n \in 0..0 |-> 1])
      BY DEF WalksTo
    <2> QED BY <2>1
  <1>2. ASSUME NEW N \in Nat, N \in T PROVE N + 1 \in T
    <2>1. PICK walk : WalksTo(d, N, walk)
      BY <1>2
    <2> DEFINE longer ==
          [n \in 0..(N + 1) |-> IF n = 0 THEN 1 ELSE StepBehind(d, walk[n - 1])]
    <2>2. \A n \in 0..N : longer[n] = walk[n]
      BY <2>1 DEF WalksTo
    <2>3. \A n \in 1..(N + 1) : n - 1 \in 0..N
      OBVIOUS
    <2>4. longer = [n \in 0..(N + 1) |-> IF n = 0 THEN 1 ELSE StepBehind(d, longer[n - 1])]
      <3>1. ASSUME NEW n \in 0..(N + 1), n # 0
            PROVE  longer[n - 1] = walk[n - 1]
        <4>1. n - 1 \in 0..N
          BY <3>1
        <4> HIDE DEF longer
        <4> QED BY <2>2, <4>1
      <3> QED BY <3>1
    <2>5. WalksTo(d, N + 1, longer)
      BY <2>4 DEF WalksTo
    <2> QED BY <2>5
  <1> HIDE DEF T
  <1>3. 0..MaxFights \subseteq T
    BY <1>1, <1>2, ConstantsAssumption, UpTo
  <1>4. MaxFights \in T
    BY <1>3, ConstantsAssumption
  <1> QED BY <1>4 DEF T

LEMMA StepAfterIs ==
  ASSUME NEW d \in Lines
  PROVE  WalksTo(d, MaxFights, StepAfter[d])
  <1>1. StepAfter[d] = CHOOSE walk : WalksTo(d, MaxFights, walk)
    BY DEF StepAfter, WalksTo
  <1> QED BY <1>1, WalkExists

(* The first way out of a step leads to a step of the same line.             *)
LEMMA StepBehindIs ==
  ASSUME NEW d \in Lines, NEW k \in DOMAIN Steps[d]
  PROVE  /\ StepBehind(d, k) \in DOMAIN Steps[d]
         /\ WaysOut(d, k) = {} => StepBehind(d, k) = k
         /\ \A i \in WaysOut(d, k) :
              (\A x \in WaysOut(d, k) : i <= x) =>
                Steps[d][StepBehind(d, k)].id = Jump[Steps[d][k].events[i]]
  <1> DEFINE events == Steps[d][k].events
             Leads(j) == \E i \in WaysOut(d, k) :
                            /\ Steps[d][j].id = Jump[events[i]]
                            /\ \A x \in WaysOut(d, k) : i <= x
  <1>1. CASE WaysOut(d, k) = {}
    BY <1>1 DEF StepBehind
  <1>2. CASE WaysOut(d, k) # {}
    <2>1. WaysOut(d, k) \in SUBSET Nat
      BY StepOK
    <2>2. PICK i \in WaysOut(d, k) : \A x \in WaysOut(d, k) : i <= x
      BY <1>2, <2>1, LeastNumber
    <2>3. PICK j \in DOMAIN Steps[d] : Steps[d][j].id = Jump[events[i]]
      BY TownsAssumption DEF WaysOut
    <2>4. StepBehind(d, k) = CHOOSE y \in DOMAIN Steps[d] : Leads(y)
      BY <1>2 DEF StepBehind
    <2>5. Leads(j)
      BY <2>2, <2>3
    <2>6. StepBehind(d, k) \in DOMAIN Steps[d] /\ Leads(StepBehind(d, k))
      <3> HIDE DEF Leads
      <3> QED BY <2>4, <2>5
    <2>7. PICK h \in WaysOut(d, k) :
            /\ Steps[d][StepBehind(d, k)].id = Jump[events[h]]
            /\ \A x \in WaysOut(d, k) : h <= x
      BY <2>6
    <2>8. \A x \in WaysOut(d, k) : (\A y \in WaysOut(d, k) : x <= y) => x = h
      BY <2>1, <2>7
    <2> QED BY <1>2, <2>6, <2>7, <2>8
  <1> QED BY <1>1, <1>2

(* A walk stays on its line.                                                 *)
LEMMA StepAfterOn ==
  ASSUME NEW d \in Lines, Steps[d] # <<>>
  PROVE  /\ StepAfter[d][0] = 1
         /\ \A n \in 0..MaxFights : StepAfter[d][n] \in DOMAIN Steps[d]
         /\ \A n \in 0..(MaxFights - 1) :
              StepAfter[d][n + 1] = StepBehind(d, StepAfter[d][n])
  <1> DEFINE T == {n \in 0..MaxFights : StepAfter[d][n] \in DOMAIN Steps[d]}
  <1>0. \A n \in 0..MaxFights :
          StepAfter[d][n] = IF n = 0 THEN 1 ELSE StepBehind(d, StepAfter[d][n - 1])
    <2> DEFINE walk == StepAfter[d]
    <2>1. walk = [n \in 0..MaxFights |-> IF n = 0 THEN 1 ELSE StepBehind(d, walk[n - 1])]
      BY StepAfterIs DEF WalksTo
    <2> HIDE DEF walk
    <2>2. \A n \in 0..MaxFights :
            walk[n] = IF n = 0 THEN 1 ELSE StepBehind(d, walk[n - 1])
      BY <2>1
    <2> QED BY <2>2 DEF walk
  <1>1. StepAfter[d][0] = 1
    BY <1>0, ConstantsAssumption
  <1>2. \A n \in 0..(MaxFights - 1) : StepAfter[d][n + 1] = StepBehind(d, StepAfter[d][n])
    <2> SUFFICES ASSUME NEW n \in 0..(MaxFights - 1)
                 PROVE  StepAfter[d][n + 1] = StepBehind(d, StepAfter[d][n])
      OBVIOUS
    <2>1. n + 1 \in 0..MaxFights /\ n + 1 # 0 /\ (n + 1) - 1 = n
      BY ConstantsAssumption
    <2> QED BY <1>0, <2>1
  <1>3. 1 \in DOMAIN Steps[d]
    BY TablesAssumption
  <1>4. 0 \in T
    BY <1>1, <1>3, ConstantsAssumption
  <1>5. ASSUME NEW n \in 0..(MaxFights - 1), n \in T PROVE n + 1 \in T
    BY <1>2, <1>5, StepBehindIs, ConstantsAssumption
  <1> HIDE DEF T
  <1>6. 0..MaxFights \subseteq T
    BY <1>4, <1>5, ConstantsAssumption, UpTo
  <1> QED BY <1>1, <1>2, <1>6 DEF T

(* A stage is won at most as often as fights are over.                       *)
LEMMA WalkedIn ==
  ASSUME NEW s \in Save, TownsGood(s), NEW d \in Lines
  PROVE  s.walked[d] \in 0..MaxFights
  <1>1. s.walked[d] \in Nat /\ s.seq \in 0..MaxFights
    BY SaveFields
  <1>2. FightsOver(s) <= s.seq /\ FightsOver(s) \in Int
    BY <1>1 DEF FightsOver
  <1>3. s.walked[d] <= FightsOver(s)
    BY DEF TownsGood
  <1> HIDE DEF FightsOver
  <1> QED BY <1>1, <1>2, <1>3, ConstantsAssumption

(* The current step of a row that is where n wins lead is the step the table *)
(* says.                                                                     *)
LEMMA CurrentStepIs ==
  ASSUME NEW d \in Lines, Steps[d] # <<>>, NEW n \in 0..MaxFights,
         NEW row \in TownRow, TownGood(row, d, n)
  PROVE  CurrentStep(row, d) = Steps[d][StepAfter[d][n]]
  <1> DEFINE k == StepAfter[d][n]
  <1>1. k \in DOMAIN Steps[d]
    BY StepAfterOn
  <1> HIDE DEF k
  <1>2. CASE row.step = Steps[d][k].id
    <2>1. \A i \in DOMAIN Steps[d] : Steps[d][i].id = row.step <=> i = k
      BY <1>1, <1>2, TownsAssumption
    <2> QED BY <1>1, <2>1 DEF CurrentStep, k
  <1>3. CASE row.step = 0
    <2>1. \A i \in DOMAIN Steps[d] : Steps[d][i].id # row.step
      BY <1>3, TownsAssumption
    <2> QED BY <1>3, <2>1 DEF CurrentStep, TownGood, k
  <1> QED BY <1>2, <1>3 DEF TownGood, k

(* Asking for the map changes nothing about where a town is.                 *)
LEMMA VisitedGood ==
  ASSUME NEW d \in Lines, Steps[d] # <<>>, NEW n \in 0..MaxFights,
         NEW row \in TownRow, TownGood(row, d, n)
  PROVE  TownGood(Visited(row, d), d, n)
  <1>1. Visited(row, d).done = row.done
    BY DEF Visited, TownRow
  <1>2. Visited(row, d).step = Steps[d][StepAfter[d][n]].id
    BY CurrentStepIs DEF Visited, TownRow
  <1>3. Visited(row, d).step # 0
    BY <1>2, StepAfterOn, TownsAssumption
  <1> QED BY <1>1, <1>2, <1>3 DEF TownGood

(* advance_line takes the first way out of the step the town is at.          *)
LEMMA AdvancedGood ==
  ASSUME NEW d \in Lines, Steps[d] # <<>>, NEW n \in 0..(MaxFights - 1),
         NEW row \in TownRow, TownGood(row, d, n)
  PROVE  TownGood(Advanced(row, d), d, n + 1)
  <1> DEFINE k == StepAfter[d][n]
             events == Steps[d][k].events
             exits == {i \in DOMAIN events : IsExit(row, events, i)}
             passed == {i \in DOMAIN events : \A x \in exits : i <= x}
             step == IF exits = {} THEN row.step
                     ELSE Jump[events[CHOOSE x \in exits : TRUE]]
             done == row.done \cup {events[i] : i \in {j \in passed : events[j] \in DOMAIN Jump}}
  <1>0. n \in 0..MaxFights /\ n + 1 \in 0..MaxFights /\ k \in DOMAIN Steps[d]
    BY StepAfterOn, ConstantsAssumption
  <1>1. CurrentStep(row, d) = Steps[d][k]
    BY <1>0, CurrentStepIs
  <1>2. Advanced(row, d) = [step |-> step, done |-> done]
    BY <1>1 DEF Advanced
  <1>3. events \in Seq(Entrances)
    BY <1>0, StepOK
  <1>4. StepAfter[d][n + 1] = StepBehind(d, k)
    BY StepAfterOn
  <1>5. \A i \in DOMAIN events : Leaves(row, events, i) <=> i \in WaysOut(d, k)
    <2>1. CASE row.step = Steps[d][k].id
      BY <2>1 DEF Leaves, WaysOut
    <2>2. CASE row.step = 0 /\ k = 1
      BY <1>0, <2>2, TownsAssumption DEF Leaves, WaysOut
    <2> QED BY <2>1, <2>2 DEF TownGood
  <1>6. WaysOut(d, k) \subseteq DOMAIN events
    BY DEF WaysOut
  <1>7. \A i \in exits : i \in WaysOut(d, k) /\ \A x \in WaysOut(d, k) : i <= x
    <2> SUFFICES ASSUME NEW i \in exits, NEW x \in WaysOut(d, k)
                 PROVE  i \in WaysOut(d, k) /\ i <= x
      BY <1>5 DEF IsExit, Leaves
    <2>1. i \in Nat /\ x \in Nat /\ x >= 1
      BY <1>3, <1>6
    <2>2. ~(x \in 1..(i - 1))
      BY <1>5, <1>6 DEF IsExit
    <2> QED BY <1>5, <2>1, <2>2 DEF IsExit
  <1>8. WaysOut(d, k) # {} => exits # {}
    <2> SUFFICES ASSUME WaysOut(d, k) # {} PROVE exits # {}
      OBVIOUS
    <2>1. WaysOut(d, k) \in SUBSET Nat
      BY <1>0, StepOK
    <2>2. PICK i \in WaysOut(d, k) : \A x \in WaysOut(d, k) : i <= x
      BY <2>1, LeastNumber
    <2>3. \A j \in 1..(i - 1) : j \in DOMAIN events /\ ~(i <= j)
      <3>1. i \in 1..Len(events) /\ DOMAIN events = 1..Len(events) /\ Len(events) \in Nat
        BY <1>3, <1>6, <2>2
      <3> QED BY <3>1
    <2>4. IsExit(row, events, i)
      BY <1>5, <1>6, <2>2, <2>3 DEF IsExit
    <2> QED BY <1>6, <2>4
  <1>9. done \subseteq DoneBy(d, n + 1)
    <2>1. DoneBy(d, n) \subseteq DoneBy(d, n + 1)
      BY <1>0 DEF DoneBy
    <2>2. \A i \in DOMAIN events : events[i] \in Entrances
      BY <1>3
    <2>3. \A i \in DOMAIN events : events[i] \in DoneBy(d, n + 1)
      <3>1. n \in 0..((n + 1) - 1)
        BY <1>0
      <3> QED BY <2>2, <3>1 DEF DoneBy
    <2>4. row.done \subseteq DoneBy(d, n)
      BY DEF TownGood
    <2> QED BY <2>1, <2>3, <2>4
  <1>10. CASE WaysOut(d, k) = {}
    <2>1. exits = {}
      <3> HIDE DEF exits
      <3> QED BY <1>7, <1>10
    <2>3. step = row.step /\ StepAfter[d][n + 1] = k
      BY <1>0, <1>4, <1>10, <2>1, StepBehindIs
    <2> HIDE DEF step, done
    <2> QED BY <1>2, <1>9, <2>3 DEF TownGood
  <1>11. CASE WaysOut(d, k) # {}
    <2> DEFINE x == CHOOSE x \in exits : TRUE
    <2>1. x \in exits
      BY <1>8, <1>11
    <2>2. step = Jump[events[x]]
      BY <1>8, <1>11
    <2> HIDE DEF x
    <2>3. Steps[d][StepBehind(d, k)].id = Jump[events[x]]
      BY <1>0, <1>7, <2>1, StepBehindIs
    <2>4. step # 0
      BY <1>7, <2>1, <2>2 DEF WaysOut
    <2> HIDE DEF step, done
    <2> QED BY <1>2, <1>4, <1>9, <2>2, <2>3, <2>4 DEF TownGood
  <1> QED BY <1>10, <1>11

-----------------------------------------------------------------------------
(* EXP.  What it takes to reach a level, one level at a time.                *)
LEMMA ExpUpToOne == ExpUpTo(1) = 0
  <1>1. 1..(1 - 1) = {}
    OBVIOUS
  <1> QED BY <1>1, SumEmpty DEF ExpUpTo

LEMMA ExpUpToNext ==
  ASSUME NEW n \in 1..(MaxLevel - 1)
  PROVE  LevelExp[n] \in Nat /\ ExpUpTo(n) \in Nat /\ ExpUpTo(n + 1) = ExpUpTo(n) + LevelExp[n]
  <1> DEFINE S == 1..(n - 1)
  <1>1. MaxLevel \in Nat /\ n \in Nat /\ n >= 1 /\ n <= MaxLevel - 1
    BY ConstantsAssumption
  <1>2. S \cup {n} = 1..((n + 1) - 1) /\ n \notin S /\ IsFiniteSet(S)
    BY <1>1, FS_Interval
  <1>3. \A k \in S \cup {n} : LevelExp[k] \in Nat
    <2>1. S \cup {n} \subseteq 1..(MaxLevel - 1)
      BY <1>1
    <2> HIDE DEF S
    <2> QED BY <2>1, TablesAssumption
  <1>4. ExpUpTo(n) = SumFunctionOnSet(LevelExp, S)
    BY DEF ExpUpTo
  <1>5. ExpUpTo(n + 1) = SumFunctionOnSet(LevelExp, S \cup {n})
    BY <1>2 DEF ExpUpTo
  <1> HIDE DEF S
  <1>6. SumFunctionOnSet(LevelExp, S \cup {n}) = SumFunctionOnSet(LevelExp, S) + LevelExp[n]
    <2>1. IsFiniteSet(S) /\ n \notin S /\ \A k \in S \cup {n} : LevelExp[k] \in Int
      BY <1>2, <1>3
    <2> QED BY <2>1, SumWith
  <1>7. SumFunctionOnSet(LevelExp, S) \in Nat
    BY <1>2, <1>3, SumNat
  <1> QED BY <1>3, <1>4, <1>5, <1>6, <1>7

LEMMA ExpUpToIs ==
  ASSUME NEW n \in 1..MaxLevel
  PROVE  ExpUpTo(n) \in Nat
  <1> DEFINE S == 1..(n - 1)
  <1>0. S \subseteq 1..(MaxLevel - 1) /\ IsFiniteSet(S)
    <2>1. MaxLevel \in Int /\ n \in Int /\ n <= MaxLevel
      BY ConstantsAssumption
    <2> QED BY <2>1, FS_Interval
  <1> HIDE DEF S
  <1>1. \A k \in S : LevelExp[k] \in Nat
    BY <1>0, TablesAssumption
  <1>2. SumFunctionOnSet(LevelExp, S) \in Nat
    BY <1>0, <1>1, SumNat
  <1> QED BY <1>2 DEF ExpUpTo, S

(* A level and its EXP; a player who climbs no further; and one who has      *)
(* spent and kept exactly e, but for what the last level drops.              *)
Rank == [lvl: Nat \ {0}, exp: Nat]

Stuck(p) == p.lvl >= MaxLevel \/ LevelExp[p.lvl] = 0 \/ p.exp < LevelExp[p.lvl]

Balanced(p, e) ==
  IF p.lvl < MaxLevel
    THEN /\ ExpUpTo(p.lvl) + p.exp = e
         /\ LevelExp[p.lvl] = 0 \/ p.exp < LevelExp[p.lvl]
    ELSE ExpUpTo(p.lvl) <= e /\ p.exp = 0

(* One turn of the loop spends what the level it climbs costs.               *)
LEMMA ClimbStepIs ==
  ASSUME NEW p \in Rank
  PROVE  /\ ClimbStep(p) \in Rank
         /\ Stuck(p) => ClimbStep(p) = p
         /\ ~Stuck(p) => /\ ClimbStep(p).lvl = p.lvl + 1 /\ p.lvl < MaxLevel
                         /\ ExpUpTo(p.lvl + 1) + ClimbStep(p).exp = ExpUpTo(p.lvl) + p.exp
  <1>1. p.lvl \in Nat \ {0} /\ p.exp \in Nat /\ MaxLevel \in Nat
    BY ConstantsAssumption DEF Rank
  <1>2. CASE p.lvl < MaxLevel
    <2>1. p.lvl \in 1..(MaxLevel - 1)
      BY <1>1, <1>2
    <2>2. /\ LevelExp[p.lvl] \in Nat /\ ExpUpTo(p.lvl) \in Nat
          /\ ExpUpTo(p.lvl + 1) = ExpUpTo(p.lvl) + LevelExp[p.lvl]
      BY <2>1, ExpUpToNext
    <2>3. CASE Stuck(p)
      BY <1>1, <1>2, <2>2, <2>3 DEF Stuck, ClimbStep
    <2>4. CASE ~Stuck(p)
      <3>1. ClimbStep(p) = [lvl |-> p.lvl + 1, exp |-> p.exp - LevelExp[p.lvl]]
        BY <1>1, <1>2, <2>2, <2>4 DEF Stuck, ClimbStep
      <3>2. p.exp - LevelExp[p.lvl] \in Nat /\ p.lvl + 1 \in Nat \ {0}
        BY <1>1, <1>2, <2>2, <2>4 DEF Stuck
      <3>3. ClimbStep(p) \in Rank
        BY <3>1, <3>2 DEF Rank
      <3> QED BY <1>1, <1>2, <2>2, <2>4, <3>1, <3>3
    <2> QED BY <2>3, <2>4
  <1>3. CASE ~(p.lvl < MaxLevel)
    <2>1. Stuck(p) /\ ClimbStep(p) = p
      BY <1>1, <1>3 DEF Stuck, ClimbStep
    <2> QED BY <2>1
  <1> QED BY <1>2, <1>3

(* The loop takes any number of turns.                                       *)
ClimbsTo(p, N, climb) ==
  climb = [n \in 0..N |-> IF n = 0 THEN p ELSE ClimbStep(climb[n - 1])]

LEMMA ClimbExists ==
  ASSUME NEW p
  PROVE  \E climb : ClimbsTo(p, MaxLevel, climb)
  <1> DEFINE T == {N \in Nat : \E climb : ClimbsTo(p, N, climb)}
  <1>1. 0 \in T
    <2>1. ClimbsTo(p, 0, [n \in 0..0 |-> p])
      BY DEF ClimbsTo
    <2> QED BY <2>1
  <1>2. ASSUME NEW N \in Nat, N \in T PROVE N + 1 \in T
    <2>1. PICK climb : ClimbsTo(p, N, climb)
      BY <1>2
    <2> DEFINE longer ==
          [n \in 0..(N + 1) |-> IF n = 0 THEN p ELSE ClimbStep(climb[n - 1])]
    <2>2. \A n \in 0..N : longer[n] = climb[n]
      BY <2>1 DEF ClimbsTo
    <2>3. longer = [n \in 0..(N + 1) |-> IF n = 0 THEN p ELSE ClimbStep(longer[n - 1])]
      <3>1. ASSUME NEW n \in 0..(N + 1), n # 0
            PROVE  longer[n - 1] = climb[n - 1]
        <4>1. n - 1 \in 0..N
          BY <3>1
        <4> HIDE DEF longer
        <4> QED BY <2>2, <4>1
      <3> QED BY <3>1
    <2>4. ClimbsTo(p, N + 1, longer)
      BY <2>3 DEF ClimbsTo
    <2> QED BY <2>4
  <1> HIDE DEF T
  <1>3. Nat \subseteq T
    BY <1>1, <1>2, NumberInduction
  <1>4. MaxLevel \in T
    BY <1>3, ConstantsAssumption
  <1> QED BY <1>4 DEF T

(* After MaxLevel turns the player climbs no further, never went down, and   *)
(* has spent and kept what was there at the start.                           *)
LEMMA ClimbRests ==
  ASSUME NEW p \in Rank, NEW climb, ClimbsTo(p, MaxLevel, climb)
  PROVE  LET top == climb[MaxLevel]
         IN /\ top \in Rank /\ Stuck(top) /\ p.lvl <= top.lvl
            /\ p.lvl <= MaxLevel =>
                 /\ top.lvl <= MaxLevel
                 /\ ExpUpTo(top.lvl) + top.exp = ExpUpTo(p.lvl) + p.exp
  <1> DEFINE Fits(q, n) ==
        /\ q \in Rank /\ p.lvl <= q.lvl
        /\ Stuck(q) \/ q.lvl = p.lvl + n
        /\ p.lvl <= MaxLevel =>
             /\ q.lvl <= MaxLevel
             /\ ExpUpTo(q.lvl) + q.exp = ExpUpTo(p.lvl) + p.exp
      T == {n \in 0..MaxLevel : Fits(climb[n], n)}
  <1>0. \A n \in 0..MaxLevel :
          climb[n] = IF n = 0 THEN p ELSE ClimbStep(climb[n - 1])
    BY DEF ClimbsTo
  <1>1. MaxLevel \in Nat /\ p.lvl \in Nat \ {0}
    BY ConstantsAssumption DEF Rank
  <1>2. 0 \in T
    <2>1. climb[0] = p
      BY <1>0, <1>1
    <2> QED BY <1>1, <2>1
  <1>3. ASSUME NEW n \in 0..(MaxLevel - 1), n \in T PROVE n + 1 \in T
    <2> DEFINE q == climb[n]
               r == climb[n + 1]
    <2>1. n + 1 \in 0..MaxLevel /\ r = ClimbStep(q) /\ Fits(q, n)
      <3>1. n + 1 \in 0..MaxLevel /\ n + 1 # 0 /\ (n + 1) - 1 = n
        BY <1>1
      <3>2. climb[n + 1] = ClimbStep(climb[n])
        BY <1>0, <3>1
      <3> QED BY <1>3, <3>1, <3>2
    <2>2. q.lvl \in Nat
      BY <2>1 DEF Rank
    <2> HIDE DEF q, r
    <2>3. CASE Stuck(q)
      <3>1. r = q
        BY <2>1, <2>3, ClimbStepIs
      <3> QED BY <2>1, <2>3, <3>1 DEF r
    <2>4. CASE ~Stuck(q)
      <3>1. /\ r \in Rank /\ r.lvl = q.lvl + 1 /\ q.lvl < MaxLevel
            /\ ExpUpTo(r.lvl) + r.exp = ExpUpTo(q.lvl) + q.exp
        BY <2>1, <2>4, ClimbStepIs
      <3>2. q.lvl = p.lvl + n
        BY <2>1, <2>4
      <3>3. Fits(r, n + 1)
        BY <1>1, <2>1, <2>2, <3>1, <3>2
      <3> QED BY <2>1, <3>3 DEF r
    <2> QED BY <2>3, <2>4
  <1> HIDE DEF T
  <1>4. 0..MaxLevel \subseteq T
    BY <1>1, <1>2, <1>3, UpTo
  <1>5. Fits(climb[MaxLevel], MaxLevel)
    BY <1>1, <1>4 DEF T
  <1>6. climb[MaxLevel].lvl = p.lvl + MaxLevel => Stuck(climb[MaxLevel])
    BY <1>1 DEF Stuck
  <1> QED BY <1>5, <1>6

(* _apply_player_exp comes back with a level and EXP, of a level that is not *)
(* lower; and balanced, whatever the gain, if they were balanced before.     *)
LEMMA ClimbedIs ==
  ASSUME NEW p, NEW gain, gain # 0
  PROVE  \E climb : /\ ClimbsTo([p EXCEPT !.exp = @ + gain], MaxLevel, climb)
                    /\ Climbed(p, gain) =
                         IF climb[MaxLevel].lvl >= MaxLevel
                           THEN [climb[MaxLevel] EXCEPT !.exp = 0]
                           ELSE climb[MaxLevel]
  <1> DEFINE start == [p EXCEPT !.exp = @ + gain]
             climb == CHOOSE f : ClimbsTo(start, MaxLevel, f)
  <1>1. ClimbsTo(start, MaxLevel, climb)
    BY ClimbExists
  <1>2. Climbed(p, gain) = IF climb[MaxLevel].lvl >= MaxLevel
                             THEN [climb[MaxLevel] EXCEPT !.exp = 0]
                             ELSE climb[MaxLevel]
    BY DEF Climbed, ClimbsTo
  <1> QED BY <1>1, <1>2

LEMMA ClimbedOK ==
  ASSUME NEW p \in Rank, NEW gain \in Nat
  PROVE  Climbed(p, gain) \in Rank /\ p.lvl <= Climbed(p, gain).lvl
  <1>1. p.lvl \in Nat /\ p.exp \in Nat
    BY DEF Rank
  <1>2. CASE gain = 0
    BY <1>1, <1>2 DEF Climbed
  <1>3. CASE gain # 0
    <2> DEFINE start == [p EXCEPT !.exp = @ + gain]
    <2>1. start \in Rank /\ start.lvl = p.lvl
      BY <1>1 DEF Rank
    <2>2. PICK climb : /\ ClimbsTo(start, MaxLevel, climb)
                       /\ Climbed(p, gain) =
                            IF climb[MaxLevel].lvl >= MaxLevel
                              THEN [climb[MaxLevel] EXCEPT !.exp = 0]
                              ELSE climb[MaxLevel]
      BY <1>3, ClimbedIs
    <2> HIDE DEF start
    <2>3. climb[MaxLevel] \in Rank /\ p.lvl <= climb[MaxLevel].lvl
      BY <2>1, <2>2, ClimbRests
    <2>4. /\ [climb[MaxLevel] EXCEPT !.exp = 0] \in Rank
          /\ [climb[MaxLevel] EXCEPT !.exp = 0].lvl = climb[MaxLevel].lvl
      BY <2>3 DEF Rank
    <2> QED BY <2>2, <2>3, <2>4
  <1> QED BY <1>2, <1>3

LEMMA ClimbedBalanced ==
  ASSUME NEW p \in Rank, NEW gain \in Nat, NEW e \in Nat,
         p.lvl <= MaxLevel, Balanced(p, e)
  PROVE  /\ Climbed(p, gain).lvl <= MaxLevel
         /\ Balanced(Climbed(p, gain), e + gain)
  <1>1. p.lvl \in Nat \ {0} /\ p.exp \in Nat /\ MaxLevel \in Nat
    BY ConstantsAssumption DEF Rank
  <1>2. CASE gain = 0
    <2>1. e + gain = e /\ Climbed(p, gain) = p
      BY <1>2 DEF Climbed
    <2> QED BY <2>1
  <1>3. CASE gain # 0
    <2> DEFINE start == [p EXCEPT !.exp = @ + gain]
    <2>1. start \in Rank /\ start.lvl = p.lvl /\ start.exp = p.exp + gain
      BY <1>1 DEF Rank
    <2>2. PICK climb : /\ ClimbsTo(start, MaxLevel, climb)
                       /\ Climbed(p, gain) =
                            IF climb[MaxLevel].lvl >= MaxLevel
                              THEN [climb[MaxLevel] EXCEPT !.exp = 0]
                              ELSE climb[MaxLevel]
      BY <1>3, ClimbedIs
    <2> HIDE DEF start
    <2> DEFINE top == climb[MaxLevel]
    <2>3. /\ top \in Rank /\ Stuck(top) /\ top.lvl <= MaxLevel
          /\ ExpUpTo(top.lvl) + top.exp = ExpUpTo(p.lvl) + (p.exp + gain)
      BY <2>1, <2>2, ClimbRests
    <2> HIDE DEF top
    <2>4. /\ top.lvl \in 1..MaxLevel /\ top.exp \in Nat
          /\ ExpUpTo(top.lvl) \in Nat /\ ExpUpTo(p.lvl) \in Nat
      BY <1>1, <2>3, ExpUpToIs DEF Rank
    <2>5. ExpUpTo(p.lvl) + p.exp <= e
      BY <1>1, <2>4 DEF Balanced
    <2>6. CASE top.lvl < MaxLevel
      <3>1. Climbed(p, gain) = top
        BY <1>1, <2>2, <2>4, <2>6 DEF top
      <3>2. p.lvl < MaxLevel
        <4>1. p.lvl <= top.lvl
          BY <2>1, <2>2, ClimbRests DEF top
        <4> QED BY <1>1, <2>4, <2>6, <4>1
      <3>3. ExpUpTo(p.lvl) + p.exp = e
        BY <3>2 DEF Balanced
      <3>4. ExpUpTo(top.lvl) + top.exp = e + gain
        BY <1>1, <2>3, <2>4, <3>3
      <3>5. LevelExp[top.lvl] = 0 \/ top.exp < LevelExp[top.lvl]
        BY <1>1, <2>3, <2>4, <2>6 DEF Stuck
      <3> QED BY <2>3, <2>6, <3>1, <3>4, <3>5 DEF Balanced
    <2>7. CASE ~(top.lvl < MaxLevel)
      <3> DEFINE q == [top EXCEPT !.exp = 0]
      <3>1. Climbed(p, gain) = q
        BY <1>1, <2>2, <2>4, <2>7 DEF top
      <3>2. q.lvl = top.lvl /\ q.exp = 0
        BY <2>3 DEF Rank
      <3> HIDE DEF q
      <3>3. ExpUpTo(q.lvl) <= e + gain
        BY <1>1, <2>3, <2>4, <2>5, <3>2
      <3> QED BY <2>3, <2>7, <3>1, <3>2, <3>3 DEF Balanced
    <2> QED BY <2>6, <2>7
  <1> QED BY <1>2, <1>3

(* The EXP won: nothing from a ledger that paid none, and more by what one   *)
(* line of the ledger gains.                                                 *)
LEMMA FightsFinite == IsFiniteSet(Fights)
  BY ConstantsAssumption, FS_Interval DEF Fights

LEMMA NothingWon ==
  ASSUME NEW s, \A n \in Fights : s.ledger[n].pay.exp = 0
  PROVE  ExpWon(s) = 0
  <1> DEFINE f == [n \in Fights |-> s.ledger[n].pay.exp]
  <1>1. \A n \in Fights : f[n] = 0
    OBVIOUS
  <1> HIDE DEF f
  <1>2. SumFunctionOnSet(f, Fights) = 0
    BY <1>1, FightsFinite, SumZero
  <1> QED BY <1>2 DEF ExpWon, f

LEMMA WonIs ==
  ASSUME NEW s \in Save
  PROVE  ExpWon(s) \in Nat
  <1> DEFINE f == [n \in Fights |-> s.ledger[n].pay.exp]
  <1>1. \A n \in Fights : f[n] \in Nat
    BY SaveFields DEF Entry, Reward
  <1> HIDE DEF f
  <1>2. SumFunctionOnSet(f, Fights) \in Nat
    BY <1>1, FightsFinite, SumNat
  <1> QED BY <1>2 DEF ExpWon, f

LEMMA WonMore ==
  ASSUME NEW s \in Save, NEW t \in Save, NEW n \in Fights, NEW e \in Nat,
         s.ledger[n].pay.exp = 0, t.ledger[n].pay.exp = e,
         \A k \in Fights : k # n => t.ledger[k] = s.ledger[k]
  PROVE  ExpWon(t) = ExpWon(s) + e
  <1> DEFINE f == [k \in Fights |-> s.ledger[k].pay.exp]
             g == [k \in Fights |-> t.ledger[k].pay.exp]
  <1>1. \A k \in Fights : f[k] \in Int /\ g[k] \in Int /\ (k # n => f[k] = g[k])
    BY SaveFields DEF Entry, Reward
  <1>2. f[n] = 0 /\ g[n] = e
    OBVIOUS
  <1> HIDE DEF f, g
  <1>3. SumFunctionOnSet(g, Fights) = SumFunctionOnSet(f, Fights) + (g[n] - f[n])
    BY <1>1, FightsFinite, SumChanged
  <1>4. SumFunctionOnSet(f, Fights) \in Int
    BY <1>1, FightsFinite, SumInt
  <1> QED BY <1>2, <1>3, <1>4 DEF ExpWon, f, g

-----------------------------------------------------------------------------
(* The new save is a save, and satisfies the invariant.                      *)
LEMMA NewSaveOK == NewSave \in Save /\ SaveInv(NewSave)
  <1> USE ConstantsAssumption
  <1>1. NewSave \in Save
    BY DEF NewSave, Save, NoEntry, Nothing, Entry, Reward, NewTownRow, TownRow
  <1>2. ExpBalance(NewSave) /\ NewSave.lvl <= MaxLevel
    <2>1. ASSUME 1 < MaxLevel PROVE LevelExp[1] \in Nat
      <3>1. 1 \in 1..(MaxLevel - 1)
        BY <2>1
      <3> QED BY <3>1, TablesAssumption
    <2>2. NewSave.lvl = 1 /\ NewSave.exp = 0 /\ ExpUpTo(1) = 0
      BY ExpUpToOne DEF NewSave
    <2>3. ExpWon(NewSave) = 0
      BY NothingWon DEF NewSave, NoEntry, Nothing
    <2> QED BY <2>1, <2>2, <2>3 DEF ExpBalance
  <1>4. TownsGood(NewSave)
    <2>1. /\ NewSave.seq = 0 /\ NewSave.active = NoFight
          /\ \A d \in Lines : NewSave.walked[d] = 0 /\ NewSave.lines[d] = NewTownRow
      BY DEF NewSave
    <2>2. \A d \in Lines : Steps[d] # <<>> => TownGood(NewTownRow, d, 0)
      BY StepAfterOn DEF TownGood, NewTownRow
    <2> QED BY <2>1, <2>2 DEF TownsGood, FightsOver
  <1>3. SaveInv(NewSave)
    BY <1>2, <1>4, AbsentAssumption
    DEF SaveInv, WinAgrees, BonusExact, OncePerFight, AnswerTrue, UnpaidIsNothing,
        NewSave, NoEntry, Nothing, Fights
  <1> QED BY <1>1, <1>3

(* A town's row stays one, whichever step it names or is led to.             *)
LEMMA TownOK ==
  ASSUME NEW d \in Lines, NEW row \in TownRow
  PROVE  /\ Advanced(row, d) \in TownRow
         /\ Steps[d] # <<>> => Visited(row, d) \in TownRow
  <1> DEFINE Step == [id: Nat, events: Seq(Entrances)]
  <1>1. Steps[d] \in Seq(Step)
    BY TablesAssumption
  <1>2. ASSUME Steps[d] # <<>> PROVE CurrentStep(row, d) \in Step
    <2> HIDE DEF Step
    <2>1. 1 \in DOMAIN Steps[d]
      BY <1>1, <1>2
    <2>2. \A i \in DOMAIN Steps[d] : Steps[d][i] \in Step
      BY <1>1
    <2> QED BY <2>1, <2>2 DEF CurrentStep
  <1>3. Steps[d] # <<>> => Visited(row, d) \in TownRow
    BY <1>2 DEF Visited, TownRow
  <1>4. CASE Steps[d] = <<>>
    BY <1>4 DEF Advanced
  <1>5. CASE Steps[d] # <<>>
    <2> DEFINE events == CurrentStep(row, d).events
               exits == {i \in DOMAIN events : IsExit(row, events, i)}
               passed == {i \in DOMAIN events : \A x \in exits : i <= x}
               step == IF exits = {} THEN row.step
                       ELSE Jump[events[CHOOSE x \in exits : TRUE]]
               done == {events[i] : i \in {j \in passed : events[j] \in DOMAIN Jump}}
    <2>1. events \in Seq(Entrances)
      BY <1>2, <1>5
    <2>2. \A x \in exits : Jump[events[x]] \in Nat
      BY TablesAssumption DEF IsExit, Leaves
    <2>3. row.step \in Nat /\ row.done \in SUBSET Entrances
      BY DEF TownRow
    <2>4. step \in Nat
      BY <2>2, <2>3
    <2>5. done \in SUBSET Entrances
      BY <2>1
    <2>6. Advanced(row, d) = [step |-> step, done |-> row.done \cup done]
      BY <1>5 DEF Advanced
    <2> QED BY <1>3, <2>3, <2>4, <2>5, <2>6 DEF TownRow
  <1> QED BY <1>3, <1>4, <1>5

(* _level_state returns a row, and one that agrees with passedLevels.        *)
LEMMA LevelStateOK ==
  ASSUME NEW s \in Save, NEW l \in Levels
  PROVE  /\ LevelState(s, l) \in Row
         /\ WinAgrees(s) => (LevelState(s, l).win <=> l \in s.passed)
  <1>1. CASE s.rows[l] = NoRow
    <2> DEFINE w == l \in s.passed
    <2>1. w \in BOOLEAN
      OBVIOUS
    <2>2. LevelState(s, l) = [fightCount |-> 0, win |-> w, goals |-> {}]
      BY <1>1 DEF LevelState
    <2>3. w <=> l \in s.passed
      OBVIOUS
    <2> HIDE DEF w
    <2>4. LevelState(s, l) \in Row
      BY <2>1, <2>2 DEF Row
    <2>5. LevelState(s, l).win = w
      BY <2>2
    <2> QED BY <2>3, <2>4, <2>5
  <1>2. CASE s.rows[l] # NoRow
    <2>1. LevelState(s, l) = s.rows[l] /\ s.rows[l] \in Row \cup {NoRow}
      BY <1>2 DEF LevelState, Save
    <2> QED BY <1>2, <2>1 DEF WinAgrees
  <1> QED BY <1>1, <1>2

(* Creating the row of a stage keeps type and invariant.                     *)
LEMMA WithRowOK ==
  ASSUME NEW s \in Save, NEW l \in Levels
  PROVE  /\ WithRow(s, l) \in Save
         /\ SaveInv(s) => SaveInv(WithRow(s, l))
         /\ Keeps(s, WithRow(s, l))
  <1>1. WithRow(s, l) \in Save
    BY LevelStateOK DEF WithRow, Save
  <1>2. ASSUME SaveInv(s) PROVE SaveInv(WithRow(s, l))
    <2> DEFINE t == WithRow(s, l)
    <2>1. /\ t.passed = s.passed /\ t.bonus = s.bonus /\ t.seq = s.seq
          /\ t.active = s.active /\ t.last = s.last /\ t.ledger = s.ledger
          /\ t.lvl = s.lvl /\ t.exp = s.exp
          /\ t.rows = [s.rows EXCEPT ![l] = LevelState(s, l)]
          /\ t.lines = s.lines /\ t.walked = s.walked
      BY DEF WithRow, Save
    <2>2. WinAgrees(t)
      <3> SUFFICES ASSUME NEW k \in Levels, t.rows[k] # NoRow
                   PROVE  t.rows[k].win <=> k \in s.passed
        BY <2>1 DEF WinAgrees
      <3>1. CASE k = l
        BY <1>2, <2>1, <3>1, LevelStateOK DEF SaveInv, Save
      <3>2. CASE k # l
        BY <1>2, <2>1, <3>2 DEF SaveInv, WinAgrees, Save
      <3> QED BY <3>1, <3>2
    <2> QED
      BY <1>2, <2>1, <2>2
      DEF SaveInv, BonusExact, OncePerFight, AnswerTrue, ExpBalance, ExpWon,
          UnpaidIsNothing, TownsGood, FightsOver
  <1>3. Keeps(s, WithRow(s, l))
    BY SaveFields DEF WithRow, Save, Keeps, Entry
  <1> QED BY <1>1, <1>2, <1>3

(* Opening a fight that can be paid for keeps type and invariant.            *)
LEMMA OpenedOK ==
  ASSUME NEW s \in Save, NEW l \in Levels, NEW q \in Nat,
         CanPay(s, l, q), s.seq < MaxFights
  PROVE  /\ Opened(s, l, q) \in Save
         /\ SaveInv(s) => SaveInv(Opened(s, l, q))
         /\ Keeps(s, Opened(s, l, q))
  <1> USE ConstantsAssumption
  <1> DEFINE t == Opened(s, l, q)
  <1>1. /\ EntryCost(l, q) \in Nat
        /\ s.stamina - EntryCost(l, q) \in Nat
    <2>1. Price[l] \in Nat /\ s.stamina \in Nat BY DEF Save
    <2>2. CASE q > 1
      <3>1. Price[l] * q \in Nat BY <2>1
      <3> QED BY <2>1, <2>2, <3>1 DEF CanPay, EntryCost
    <2>3. CASE ~(q > 1)
      BY <2>1, <2>3 DEF CanPay, EntryCost
    <2> QED BY <2>2, <2>3
  <1>2. t \in Save
    <2>1. s.seq + 1 \in Fights
      BY SaveFields DEF Fights
    <2>2. [seq |-> s.seq + 1, level |-> l] \in Fight
      BY <2>1 DEF Fight
    <2>3. s.seq + 1 \in 0..MaxFights
      BY <2>1 DEF Fights
    <2> QED BY <1>1, <2>2, <2>3 DEF Opened, Save
  <1>3. /\ t.passed = s.passed /\ t.bonus = s.bonus /\ t.rows = s.rows
        /\ t.last = s.last /\ t.ledger = s.ledger /\ t.seq = s.seq + 1
        /\ t.active = [seq |-> s.seq + 1, level |-> l]
        /\ t.lvl = s.lvl /\ t.exp = s.exp /\ t.walked = s.walked
        /\ t.lines = s.lines
    BY DEF Opened, Save
  <1>4. ASSUME SaveInv(s) PROVE SaveInv(t)
    <2>1. s.seq \in 0..MaxFights /\ s.last \in Result \cup {NoResult}
      BY SaveFields
    <2>2. OncePerFight(t)
      BY <1>3, <1>4, <2>1 DEF SaveInv, OncePerFight, Fights
    <2>3. AnswerTrue(t)
      BY <1>3, <1>4, <2>1 DEF SaveInv, AnswerTrue, Result, Fights
    <2>4. TownsGood(t)
      <3>1. t.active # NoFight
        <4>1. t.active \in Fight
          BY <1>2, <1>3, <2>1 DEF Fight, Fights
        <4> QED BY <4>1, AbsentAssumption
      <3>2. FightsOver(t) = s.seq /\ FightsOver(s) <= s.seq
        BY <1>3, <2>1, <3>1 DEF FightsOver
      <3>3. \A d \in Lines : s.walked[d] <= s.seq
        BY <1>4, <2>1, <3>2, SaveFields DEF SaveInv, TownsGood, FightsOver
      <3> QED BY <1>3, <1>4, <3>2, <3>3 DEF SaveInv, TownsGood
    <2>5. WinAgrees(t) /\ BonusExact(t) /\ FirstPlot \in t.passed
      BY <1>3, <1>4 DEF SaveInv, WinAgrees, BonusExact
    <2>6. t.lvl <= MaxLevel /\ ExpBalance(t) /\ UnpaidIsNothing(t)
      BY <1>3, <1>4 DEF SaveInv, ExpBalance, ExpWon, UnpaidIsNothing
    <2> QED
      BY <2>2, <2>3, <2>4, <2>5, <2>6 DEF SaveInv
  <1>5. Keeps(s, t)
    BY <1>3, SaveFields DEF Keeps, Entry
  <1> QED BY <1>2, <1>4, <1>5

(* Whatever the dice say, the payment is a reward.                           *)
LEMMA PaymentOK ==
  ASSUME NEW s \in Save, NEW l \in Levels, NEW win \in BOOLEAN,
         NEW roll \in Drops[l], NEW extra \in FirstDrops[l]
  PROVE  Payment(s, l, win, roll, extra) \in Reward
  <1>1. roll \in Reward /\ extra \in Reward
    BY ConstantsAssumption
  <1>2. Nothing \in Reward /\ Plus(roll, extra) \in Reward
    BY <1>1 DEF Nothing, Plus, Reward
  <1> QED BY <1>1, <1>2 DEF Payment

(* The row a settlement leaves is a row, and stays won once it was.          *)
LEMMA SettledRowOK ==
  ASSUME NEW s \in Save, NEW l \in Levels, NEW win \in BOOLEAN,
         NEW goals \in SUBSET Goals
  PROVE  /\ SettledRow(s, l, win, goals) \in Row
         /\ SettledRow(s, l, win, goals).win <=> (LevelState(s, l).win \/ win)
  BY LevelStateOK DEF SettledRow, Row

(* Settling the open fight keeps type and invariant.                         *)
LEMMA SettledOK ==
  ASSUME NEW s \in Save, NEW l \in Levels, NEW win \in BOOLEAN,
         NEW goals \in SUBSET Goals, NEW pay \in Reward, HasFight(s, l)
  PROVE  /\ Settled(s, l, win, goals, pay) \in Save
         /\ SaveInv(s) => SaveInv(Settled(s, l, win, goals, pay))
         /\ Keeps(s, Settled(s, l, win, goals, pay))
  <1> DEFINE t == Settled(s, l, win, goals, pay)
             p == Climbed(Standing(s), pay.exp)
             row == SettledRow(s, l, win, goals)
             answer == SettledResponse(s, l, win, goals, pay)
             n == s.active.seq
             first == IsFirstClear(s, l, win)
             last == [seq |-> n, level |-> l, response |-> answer]
             entry == [times |-> s.ledger[n].times + 1, pay |-> pay]
  <1> USE ConstantsAssumption
  <1>1. /\ s.active \in Fight /\ s.active # NoFight /\ n \in Fights
        /\ s.active.level = l
    BY SaveFields DEF HasFight, Fight
  <1>2. row \in Row /\ (row.win <=> LevelState(s, l).win \/ win)
    BY SettledRowOK
  <1>3. p.lvl \in Nat \ {0} /\ p.exp \in Nat /\ s.lvl <= p.lvl
    <2>1. Standing(s) \in Rank /\ Standing(s).lvl = s.lvl /\ pay.exp \in Nat
      BY SaveFields DEF Standing, Rank, Reward
    <2>2. p \in Rank /\ Standing(s).lvl <= p.lvl
      BY <2>1, ClimbedOK
    <2> HIDE DEF p
    <2> QED BY <2>1, <2>2 DEF Rank
  <1> HIDE DEF p
  <1>4. [seq |-> n, level |-> l, response |-> answer] \in Result
    BY <1>1, <1>2 DEF SettledResponse, Response, Result
  <1>5. /\ pay.items \in Nat
        /\ s.ledger[n] \in Entry
        /\ [times |-> s.ledger[n].times + 1, pay |-> pay] \in Entry
    BY <1>1, SaveFields DEF Reward, Entry
  <1>6. t \in Save
    <2> DEFINE bag == s.bag + pay.items
               passed == IF win THEN s.passed \cup {l} ELSE s.passed
               main == IF ~win THEN s.mainLine
                       ELSE IF NextLevel[l] > 0 THEN NextLevel[l]
                       ELSE FurtherOf(s.mainLine, l)
               count == IF first THEN s.bonus[l] + 1 ELSE s.bonus[l]
               here(d) == win /\ d \in DatingOf[l]
               lines == [d \in Lines |-> IF here(d) THEN Advanced(s.lines[d], d)
                                                    ELSE s.lines[d]]
               walked == [d \in Lines |-> IF here(d) THEN s.walked[d] + 1
                                                     ELSE s.walked[d]]
    <2>1. bag \in Nat /\ passed \in SUBSET Levels
      BY <1>5, SaveFields
    <2>2. main \in Nat /\ count \in Nat
      BY SaveFields DEF FurtherOf
    <2>3. last \in Result /\ entry \in Entry
      BY <1>4, <1>5
    <2>4. t = [s EXCEPT !.rows[l] = row, !.bag = bag, !.lvl = p.lvl,
                 !.exp = p.exp, !.lines = lines, !.passed = passed,
                 !.mainLine = main, !.last = last, !.active = NoFight,
                 !.ledger[n] = entry, !.bonus[l] = count, !.walked = walked]
      BY DEF Settled, p
    <2>6. lines \in [Lines -> TownRow] /\ walked \in [Lines -> Nat]
      BY SaveFields, TownOK
    <2> HIDE DEF t, row, bag, passed, main, last, entry, n, count, lines, walked
    <2>5. /\ [s.rows EXCEPT ![l] = row] \in [Levels -> Row \cup {NoRow}]
          /\ [s.ledger EXCEPT ![n] = entry] \in [Fights -> Entry]
          /\ [s.bonus EXCEPT ![l] = count] \in [Levels -> Nat]
      BY <1>1, <1>2, <2>2, <2>3, SaveFields
    <2>7. t = [stamina |-> s.stamina, bag |-> bag, lvl |-> p.lvl, exp |-> p.exp,
               passed |-> passed, rows |-> [s.rows EXCEPT ![l] = row],
               mainLine |-> main, seq |-> s.seq, active |-> NoFight, last |-> last,
               lines |-> lines, ledger |-> [s.ledger EXCEPT ![n] = entry],
               bonus |-> [s.bonus EXCEPT ![l] = count], walked |-> walked]
      BY <2>4 DEF Save
    <2> QED
      BY <1>3, <2>1, <2>2, <2>3, <2>5, <2>6, <2>7, SaveFields DEF Save
  <1>7. /\ t.passed = IF win THEN s.passed \cup {l} ELSE s.passed
        /\ t.rows = [s.rows EXCEPT ![l] = row]
        /\ t.seq = s.seq /\ t.active = NoFight
        /\ t.lvl = p.lvl /\ t.exp = p.exp
        /\ t.last = [seq |-> n, level |-> l, response |-> answer]
        /\ t.ledger = [s.ledger EXCEPT
                         ![n] = [times |-> @.times + 1, pay |-> pay]]
        /\ t.bonus = [s.bonus EXCEPT ![l] = IF first THEN @ + 1 ELSE @]
        /\ t.walked = [d \in Lines |-> IF win /\ d \in DatingOf[l]
                                         THEN s.walked[d] + 1 ELSE s.walked[d]]
        /\ t.lines = [d \in Lines |-> IF win /\ d \in DatingOf[l]
                                        THEN Advanced(s.lines[d], d) ELSE s.lines[d]]
    BY DEF Settled, Save, p
  <1>8. ASSUME SaveInv(s) PROVE SaveInv(t)
    <2>1. LevelState(s, l).win <=> l \in s.passed
      BY <1>8, LevelStateOK DEF SaveInv
    <2>2. WinAgrees(t)
      <3> SUFFICES ASSUME NEW k \in Levels, t.rows[k] # NoRow
                   PROVE  t.rows[k].win <=> k \in t.passed
        BY DEF WinAgrees
      <3>1. CASE k = l
        <4>1. t.rows[k] = row
          BY <1>7, <3>1, SaveFields
        <4>2. k \in t.passed <=> (k \in s.passed \/ win)
          BY <1>7, <3>1
        <4> HIDE DEF row, t
        <4> QED BY <1>2, <2>1, <3>1, <4>1, <4>2
      <3>2. CASE k # l
        <4>1. t.rows[k] = s.rows[k] /\ (k \in t.passed <=> k \in s.passed)
          BY <1>7, <3>2, SaveFields
        <4>2. s.rows[k] # NoRow => (s.rows[k].win <=> k \in s.passed)
          BY <1>8 DEF SaveInv, WinAgrees
        <4> HIDE DEF t
        <4> QED BY <4>1, <4>2
      <3> QED BY <3>1, <3>2
    <2>3. BonusExact(t)
      <3> SUFFICES ASSUME NEW k \in Levels
                   PROVE  t.bonus[k] = IF k \in t.passed \ {FirstPlot} THEN 1 ELSE 0
        BY DEF BonusExact
      <3>1. s.bonus[k] = IF k \in s.passed \ {FirstPlot} THEN 1 ELSE 0
        BY <1>8 DEF SaveInv, BonusExact
      <3>2. first <=> win /\ l \notin s.passed
        BY <2>1 DEF IsFirstClear
      <3>3. FirstPlot \in s.passed
        BY <1>8 DEF SaveInv
      <3> HIDE DEF first, t
      <3>4. CASE k = l
        BY <1>7, <3>1, <3>2, <3>3, <3>4, SaveFields
      <3>5. CASE k # l
        BY <1>7, <3>1, <3>5, SaveFields
      <3> QED BY <3>4, <3>5
    <2>4. /\ n = s.seq /\ s.ledger[n].times = 0
          /\ t.ledger[n] = [times |-> 1, pay |-> pay]
          /\ \A k \in Fights : k # n => t.ledger[k] = s.ledger[k]
      <3>1. n = s.seq /\ s.ledger[n].times = 0
        BY <1>1, <1>8 DEF SaveInv, OncePerFight
      <3> HIDE DEF t, n
      <3>2. n \in Fights BY <1>1
      <3> QED BY <1>7, <3>1, <3>2, SaveFields
    <2>5. OncePerFight(t)
      <3>1. \A k \in Fights : s.ledger[k].times <= 1 /\ (k > s.seq => s.ledger[k].times = 0)
        BY <1>8 DEF SaveInv, OncePerFight
      <3>2. t.ledger[n].times = 1
        BY <2>4
      <3>3. t.seq = s.seq /\ t.active = NoFight /\ s.seq \in Nat
        BY <1>7, SaveFields
      <3> HIDE DEF t, n
      <3>4. ASSUME NEW k \in Fights
            PROVE  t.ledger[k].times <= 1 /\ (k > s.seq => t.ledger[k].times = 0)
        <4>1. CASE k = n BY <2>4, <3>2, <3>3, <4>1
        <4>2. CASE k # n BY <2>4, <3>1, <4>2
        <4> QED BY <4>1, <4>2
      <3> QED BY <3>3, <3>4 DEF OncePerFight
    <2>6. AnswerTrue(t)
      <3>1. /\ t.last.seq = n /\ t.last.level = l
            /\ t.last.response.pay = pay /\ t.last.response.win = win
        BY <1>7 DEF SettledResponse
      <3> QED BY <1>1, <1>7, <2>4, <3>1, SaveFields DEF AnswerTrue, Fights
    <2>7. FirstPlot \in t.passed
      BY <1>7, <1>8 DEF SaveInv
    <2>8. t.lvl <= MaxLevel /\ ExpBalance(t)
      <3>1. Standing(s) \in Rank /\ pay.exp \in Nat
        BY SaveFields DEF Standing, Rank, Reward
      <3>2. Standing(s).lvl = s.lvl /\ Standing(s).exp = s.exp
        BY DEF Standing
      <3>3. ExpWon(t) = ExpWon(s) + pay.exp
        <4>1. s.ledger[n].pay = Nothing
          BY <1>1, <1>8, <2>4 DEF SaveInv, UnpaidIsNothing
        <4>2. s.ledger[n].pay.exp = 0 /\ t.ledger[n].pay.exp = pay.exp
          BY <2>4, <4>1 DEF Nothing
        <4> HIDE DEF t, n
        <4> QED BY <1>1, <1>6, <2>4, <3>1, <4>2, WonMore
      <3>4. s.lvl <= MaxLevel /\ ExpBalance(s) /\ ExpWon(s) \in Nat
        BY <1>8, WonIs DEF SaveInv
      <3>5. Balanced(Standing(s), ExpWon(s))
        BY <3>2, <3>4 DEF ExpBalance, Balanced
      <3>6. p.lvl <= MaxLevel /\ Balanced(p, ExpWon(s) + pay.exp)
        BY <3>1, <3>2, <3>4, <3>5, ClimbedBalanced DEF p
      <3> HIDE DEF t
      <3> QED BY <1>7, <3>3, <3>6 DEF ExpBalance, Balanced
    <2>10. UnpaidIsNothing(t)
      <3> HIDE DEF t, n
      <3> SUFFICES ASSUME NEW k \in Fights, t.ledger[k].times = 0
                   PROVE  t.ledger[k].pay = Nothing
        BY DEF UnpaidIsNothing
      <3>1. k # n
        BY <2>4
      <3> QED BY <1>8, <2>4, <3>1 DEF SaveInv, UnpaidIsNothing
    <2>9. TownsGood(t)
      <3>1. s.seq \in 0..MaxFights /\ FightsOver(s) = s.seq - 1 /\ FightsOver(t) = s.seq
        BY <1>1, <1>7, SaveFields DEF FightsOver
      <3>2. /\ \A d \in Lines : s.walked[d] <= s.seq - 1
            /\ \A d \in Lines : Steps[d] # <<>> => TownGood(s.lines[d], d, s.walked[d])
        BY <1>8, <3>1 DEF SaveInv, TownsGood
      <3> SUFFICES ASSUME NEW d \in Lines
                   PROVE  /\ t.walked[d] <= s.seq
                          /\ Steps[d] # <<>> => TownGood(t.lines[d], d, t.walked[d])
        BY <3>1 DEF TownsGood
      <3>3. /\ s.walked[d] \in Nat /\ s.lines[d] \in TownRow
            /\ s.walked[d] <= s.seq - 1
        BY <3>2, SaveFields
      <3>4. CASE win /\ d \in DatingOf[l]
        <4>1. t.walked[d] = s.walked[d] + 1 /\ t.lines[d] = Advanced(s.lines[d], d)
          BY <1>7, <3>4
        <4>2. s.walked[d] \in 0..(MaxFights - 1)
          BY <3>1, <3>3
        <4> HIDE DEF t
        <4>3. t.walked[d] <= s.seq
          BY <3>1, <3>3, <4>1
        <4>4. ASSUME Steps[d] # <<>> PROVE TownGood(t.lines[d], d, t.walked[d])
          <5>1. TownGood(s.lines[d], d, s.walked[d])
            BY <3>2, <4>4
          <5>2. TownGood(Advanced(s.lines[d], d), d, s.walked[d] + 1)
            BY <3>3, <4>2, <4>4, <5>1, AdvancedGood
          <5> QED BY <4>1, <5>2
        <4> QED BY <4>3, <4>4
      <3>5. CASE ~(win /\ d \in DatingOf[l])
        <4>1. t.walked[d] = s.walked[d] /\ t.lines[d] = s.lines[d]
          BY <1>7, <3>5
        <4> HIDE DEF t
        <4> QED BY <3>1, <3>2, <3>3, <4>1
      <3> QED BY <3>4, <3>5
    <2> QED BY <2>2, <2>3, <2>5, <2>6, <2>7, <2>8, <2>9, <2>10 DEF SaveInv
  <1>9. Keeps(s, t)
    <2>1. s.lvl <= p.lvl /\ s.lvl \in Nat /\ s.seq \in Nat
      BY <1>3, SaveFields
    <2>2. \A k \in Fights : s.ledger[k].times <= t.ledger[k].times
      BY <1>1, <1>7, SaveFields DEF Entry
    <2>3. \A d \in Lines : s.walked[d] <= t.walked[d]
      BY <1>7, SaveFields
    <2> QED BY <1>7, <2>1, <2>2, <2>3 DEF Keeps
  <1> QED BY <1>6, <1>8, <1>9

-----------------------------------------------------------------------------
View == [items: [stamina: Nat, bag: Nat], player: [lvl: Nat, exp: Nat]]

LEMMA ViewOK ==
  ASSUME TypeOK, NEW c \in Conns, NEW s \in Save
  PROVE  ViewOf(s) \in View /\ Push(c, s) \in View
  <1>1. Totals(s) \in [stamina: Nat, bag: Nat] /\ Standing(s) \in [lvl: Nat, exp: Nat]
    BY SaveFields DEF Totals, Standing
  <1>2. view[c] \in View
    BY DEF TypeOK, View
  <1>3. ViewOf(s) \in View
    BY <1>1 DEF ViewOf, View
  <1>4. Push(c, s) \in View
    BY <1>1, <1>2 DEF Push, View
  <1> QED BY <1>3, <1>4

(* The effect of a request, whichever it is: the copy of its connection     *)
(* becomes some save that keeps the invariant, and the file stays what it   *)
(* is or becomes that save.                                                 *)
Answered(c, s) ==
  /\ mem' = [mem EXCEPT ![c] = s]
  /\ disk' \in {s, disk}
  /\ view' \in [Conns -> View]
  /\ lag' \in [Conns -> BOOLEAN]
  /\ shown' \in SUBSET Levels

LEMMA OutcomeOK ==
  ASSUME TypeOK, NEW c \in Conns, NEW s \in Save,
         Written(c, s) \/ WriteFailed(c, s), shown' \in SUBSET Levels
  PROVE  Answered(c, s)
  <1>1. CASE Written(c, s)
    <2>1. Push(c, s) \in View BY ViewOK
    <2> QED BY <1>1, <2>1 DEF Written, Answered, TypeOK, View
  <1>2. CASE WriteFailed(c, s)
    BY <1>2 DEF WriteFailed, Answered, TypeOK, View
  <1> QED BY <1>1, <1>2

LEMMA RequestStep ==
  ASSUME TypeOK, NEW c \in Conns, Request(c)
  PROVE  /\ Open(c) /\ mem[c] \in Save
         /\ \E s \in Save : /\ Answered(c, s)
                            /\ SaveInv(mem[c]) => SaveInv(s)
                            /\ Keeps(mem[c], s)
  <1>1. \/ \E l \in Levels : FightRequest(c, l)
        \/ \E d \in Lines : TownInfo(c, d)
    BY DEF Request
  <1>2. Open(c)
    BY <1>1 DEF FightRequest, OpenFight, RefuseFight, Settle, Replay,
                SettleUnopened, TownInfo
  <1>3. mem[c] \in Save
    BY <1>2 DEF TypeOK, Open
  <1> DEFINE Goal == \E s \in Save : /\ Answered(c, s)
                                     /\ SaveInv(mem[c]) => SaveInv(s)
                                     /\ Keeps(mem[c], s)
  <1>10. Keeps(mem[c], mem[c])
    BY <1>3, SaveFields DEF Keeps, Entry
  <1>4. ASSUME NEW l \in Levels, NEW q \in Sweeps, OpenFight(c, l, q) PROVE Goal
    <2> DEFINE s == Opened(mem[c], l, q)
    <2>1. q \in Nat /\ CanPay(mem[c], l, q) /\ mem[c].seq < MaxFights
      BY <1>4, CombatAssumption DEF OpenFight
    <2>2. s \in Save /\ (SaveInv(mem[c]) => SaveInv(s)) /\ Keeps(mem[c], s)
      BY <1>3, <2>1, OpenedOK
    <2>3. (Written(c, s) \/ WriteFailed(c, s)) /\ shown' \in SUBSET Levels
      BY <1>4 DEF OpenFight, TypeOK
    <2>4. Answered(c, s)
      BY <2>2, <2>3, OutcomeOK
    <2> QED BY <2>2, <2>4
  <1>5. ASSUME NEW l \in Levels, NEW q \in Sweeps, RefuseFight(c, l, q) PROVE Goal
    <2>1. (Written(c, mem[c]) \/ WriteFailed(c, mem[c])) /\ shown' \in SUBSET Levels
      BY <1>5 DEF RefuseFight, TypeOK
    <2>2. Answered(c, mem[c])
      BY <1>3, <2>1, OutcomeOK
    <2> QED BY <1>3, <1>10, <2>2
  <1>6. ASSUME NEW l \in Levels, NEW win \in BOOLEAN,
               NEW goals \in SUBSET Goals, Settle(c, l, win, goals)
        PROVE Goal
    <2>1. PICK roll \in Drops[l], extra \in FirstDrops[l] :
            LET s == Settled(mem[c], l, win, goals, Payment(mem[c], l, win, roll, extra))
            IN \/ Written(c, s) /\ shown' = IF win THEN shown \cup {l} ELSE shown
               \/ WriteFailed(c, s) /\ UNCHANGED shown
      BY <1>6 DEF Settle
    <2> DEFINE pay == Payment(mem[c], l, win, roll, extra)
               s == Settled(mem[c], l, win, goals, pay)
    <2>3. HasFight(mem[c], l)
      BY <1>6 DEF Settle
    <2>4. s \in Save /\ (SaveInv(mem[c]) => SaveInv(s)) /\ Keeps(mem[c], s)
      <3>1. pay \in Reward
        BY <1>3, PaymentOK
      <3> HIDE DEF pay
      <3> QED BY <1>3, <2>3, <3>1, SettledOK
    <2>5. (Written(c, s) \/ WriteFailed(c, s)) /\ shown' \in SUBSET Levels
      BY <2>1 DEF TypeOK
    <2>6. Answered(c, s)
      <3> HIDE DEF s
      <3> QED BY <2>4, <2>5, OutcomeOK
    <2> QED BY <2>4, <2>6
  <1>7. ASSUME NEW l \in Levels, Replay(c, l) PROVE Goal
    <2>1. Answered(c, mem[c])
      BY <1>7 DEF Replay, Answered, TypeOK, View
    <2> QED BY <1>3, <1>10, <2>1
  <1>8. ASSUME NEW l \in Levels, SettleUnopened(c, l) PROVE Goal
    <2> DEFINE s == WithRow(mem[c], l)
    <2>1. s \in Save /\ (SaveInv(mem[c]) => SaveInv(s)) /\ Keeps(mem[c], s)
      BY <1>3, WithRowOK
    <2>2. Answered(c, s)
      BY <1>8 DEF SettleUnopened, Answered, TypeOK, View
    <2> QED BY <2>1, <2>2
  <1>9. ASSUME NEW d \in Lines, TownInfo(c, d) PROVE Goal
    <2> DEFINE s == [mem[c] EXCEPT !.lines[d] = Visited(@, d)]
    <2>1. mem[c].lines[d] \in TownRow /\ Steps[d] # <<>>
      BY <1>3, <1>9, SaveFields DEF TownInfo
    <2>2. Visited(mem[c].lines[d], d) \in TownRow
      BY <2>1, TownOK
    <2>3. s \in Save
      BY <1>3, <2>2 DEF Save
    <2>4. ASSUME SaveInv(mem[c]) PROVE SaveInv(s)
      <3>1. /\ s.passed = mem[c].passed /\ s.rows = mem[c].rows
            /\ s.bonus = mem[c].bonus /\ s.seq = mem[c].seq
            /\ s.active = mem[c].active /\ s.last = mem[c].last
            /\ s.ledger = mem[c].ledger /\ s.lvl = mem[c].lvl
            /\ s.exp = mem[c].exp /\ s.walked = mem[c].walked
            /\ \A e \in Lines : s.lines[e] = IF e = d THEN Visited(mem[c].lines[d], d)
                                                      ELSE mem[c].lines[e]
        BY <1>3, SaveFields DEF Save
      <3>2. /\ \A e \in Lines : mem[c].walked[e] <= FightsOver(mem[c])
            /\ \A e \in Lines : Steps[e] # <<>> =>
                                  TownGood(mem[c].lines[e], e, mem[c].walked[e])
        BY <2>4 DEF SaveInv, TownsGood
      <3>3. mem[c].walked[d] \in 0..MaxFights
        BY <1>3, <2>4, WalkedIn DEF SaveInv
      <3>4. TownGood(Visited(mem[c].lines[d], d), d, mem[c].walked[d])
        BY <2>1, <3>2, <3>3, VisitedGood
      <3> HIDE DEF s
      <3>5. TownsGood(s)
        BY <3>1, <3>2, <3>4 DEF TownsGood, FightsOver
      <3> QED BY <2>4, <3>1, <3>5
              DEF SaveInv, WinAgrees, BonusExact, OncePerFight, AnswerTrue,
                  ExpBalance, ExpWon, UnpaidIsNothing
    <2>7. Keeps(mem[c], s)
      BY <1>3, SaveFields DEF Save, Keeps, Entry
    <2>5. CASE HasEntrance(mem[c].lines[d], d)
      <3>1. (Written(c, s) \/ WriteFailed(c, s)) /\ shown' \in SUBSET Levels
        BY <1>9, <2>5 DEF TownInfo, TypeOK
      <3> HIDE DEF s
      <3> QED BY <2>3, <2>4, <2>7, <3>1, OutcomeOK
    <2>6. CASE ~HasEntrance(mem[c].lines[d], d)
      <3>1. Answered(c, s)
        BY <1>9, <2>6 DEF TownInfo, Answered, TypeOK, View
      <3> QED BY <2>3, <2>4, <2>7, <3>1
    <2> QED BY <2>5, <2>6
  <1> QED
    BY <1>1, <1>2, <1>3, <1>4, <1>5, <1>6, <1>7, <1>8, <1>9 DEF FightRequest

-----------------------------------------------------------------------------
(* Type correctness: whatever is requested, closed, crashed or not written,  *)
(* every copy the server works on, and the file, is a well-formed save.      *)
THEOREM TypeCorrect == Spec => []TypeOK
  <1>1. Init => TypeOK
    <2>1. NoView \in View
      BY NewSaveOK, SaveFields DEF NoView, View, Totals, Standing
    <2> QED BY <2>1, NewSaveOK DEF Init, TypeOK, View
  <1>2. TypeOK /\ [Next]_vars => TypeOK'
    <2> SUFFICES ASSUME TypeOK, [Next]_vars PROVE TypeOK'
      OBVIOUS
    <2>1. NoView \in View
      BY NewSaveOK, SaveFields DEF NoView, View, Totals, Standing
    <2>2. ASSUME NEW c \in Conns, Accept(c) PROVE TypeOK'
      <3>1. ViewOf(disk) \in View BY ViewOK DEF TypeOK
      <3> QED BY <2>2, <3>1 DEF Accept, TypeOK, View
    <2>3. ASSUME NEW c \in Conns, Login(c) PROVE TypeOK'
      BY <2>3 DEF Login, Open, TypeOK
    <2>4. ASSUME NEW c \in Conns, Close(c) PROVE TypeOK'
      BY <2>1, <2>4 DEF Close, TypeOK, View
    <2>5. ASSUME NEW c \in Conns, Request(c) PROVE TypeOK'
      BY <2>5, RequestStep DEF Answered, TypeOK, View
    <2>6. CASE Crash
      BY <2>1, <2>6 DEF Crash, TypeOK, View
    <2>7. CASE UNCHANGED vars
      BY <2>7 DEF vars, TypeOK
    <2> QED
      BY <2>2, <2>3, <2>4, <2>5, <2>6, <2>7 DEF Next, Connection
  <1> QED BY <1>1, <1>2, PTL DEF Spec

(* The inductive invariant: it holds of the file and of every open copy.     *)
THEOREM CopiesCorrect == Spec => []IInv
  <1> DEFINE Each == SaveInv(disk) /\ \A c \in Conns : Open(c) => SaveInv(mem[c])
  <1>1. Init => Each
    BY NewSaveOK DEF Init, Open
  <1>2. TypeOK /\ Each /\ [Next]_vars => Each'
    <2> SUFFICES ASSUME TypeOK, Each, [Next]_vars PROVE Each'
      OBVIOUS
    <2>1. ASSUME NEW c \in Conns, Accept(c) PROVE Each'
      BY <2>1 DEF Accept, Open, TypeOK
    <2>2. ASSUME NEW c \in Conns, Login(c) PROVE Each'
      BY <2>2 DEF Login, Open
    <2>3. ASSUME NEW c \in Conns, Close(c) PROVE Each'
      BY <2>3 DEF Close, Open, TypeOK
    <2>4. ASSUME NEW c \in Conns, Request(c) PROVE Each'
      <3>1. PICK s \in Save : Answered(c, s) /\ (SaveInv(mem[c]) => SaveInv(s))
        BY <2>4, RequestStep
      <3>2. SaveInv(s)
        BY <2>4, <3>1, RequestStep
      <3> QED BY <3>1, <3>2 DEF Answered, Open, TypeOK
    <2>5. CASE Crash
      BY <2>5 DEF Crash, Open
    <2>6. CASE UNCHANGED vars
      BY <2>6 DEF vars, Open
    <2> QED
      BY <2>1, <2>2, <2>3, <2>4, <2>5, <2>6 DEF Next, Connection
  <1>3. Each => IInv
    BY DEF IInv, Copies
  <1> HIDE DEF Each
  <1> QED BY <1>1, <1>2, <1>3, TypeCorrect, PTL DEF Spec

(* A stage's row and passedLevels never come apart.                          *)
THEOREM RowsTheorem == Spec => []RowsAgreeWithPassed
  <1>1. IInv => RowsAgreeWithPassed
    BY DEF IInv, SaveInv, RowsAgreeWithPassed
  <1> QED BY <1>1, CopiesCorrect, PTL

(* The first-clear bonus of a stage is paid once, and only once cleared.     *)
THEOREM FirstClearTheorem == Spec => []FirstClearPaidOnce
  <1>1. IInv => FirstClearPaidOnce
    BY DEF IInv, SaveInv, FirstClearPaidOnce
  <1> QED BY <1>1, CopiesCorrect, PTL

(* No fight is settled twice, however often its settlement is resent.        *)
THEOREM SettledOnceTheorem == Spec => []FightsSettledOnce
  <1>1. IInv => FightsSettledOnce
    BY DEF IInv, SaveInv, FightsSettledOnce
  <1> QED BY <1>1, CopiesCorrect, PTL

(* A replayed answer repeats what its fight paid.                            *)
THEOREM AnswerTheorem == Spec => []StoredAnswerTrue
  <1>1. IInv => StoredAnswerTrue
    BY DEF IInv, SaveInv, StoredAnswerTrue
  <1> QED BY <1>1, CopiesCorrect, PTL

(* EXP is conserved in every copy over all its fights: what they paid is in  *)
(* the levels climbed and the EXP left, for every level table and drop.      *)
THEOREM ExpTheorem == Spec => []ExpAccounted
  <1>1. IInv => ExpAccounted
    BY DEF IInv, SaveInv, ExpAccounted
  <1> QED BY <1>1, CopiesCorrect, PTL

(* A town is where the wins of its stages lead, and has no entrance done of a *)
(* step it has not been at, in every copy.                                    *)
THEOREM TownTheorem == Spec => []TownFollowsWins
  <1>1. TypeOK /\ IInv => TownFollowsWins
    <2> SUFFICES ASSUME TypeOK, IInv, NEW s \in Copies, NEW d \in Lines, Steps[d] # <<>>
                 PROVE  /\ CurrentStep(s.lines[d], d) = Steps[d][StepAfter[d][s.walked[d]]]
                        /\ s.lines[d].done \subseteq DoneBy(d, s.walked[d])
      BY DEF TownFollowsWins, DoneBy
    <2>1. s \in Save /\ SaveInv(s)
      BY DEF TypeOK, IInv, Copies, Open
    <2>2. s.lines[d] \in TownRow /\ s.walked[d] \in 0..MaxFights
      BY <2>1, SaveFields, WalkedIn DEF SaveInv
    <2>3. TownGood(s.lines[d], d, s.walked[d])
      BY <2>1 DEF SaveInv, TownsGood
    <2> QED BY <2>2, <2>3, CurrentStepIs DEF TownGood
  <1> QED BY <1>1, TypeCorrect, CopiesCorrect, PTL

-----------------------------------------------------------------------------
(* What a request does to the totals the client was sent.                    *)
LEMMA OutcomeSeen ==
  ASSUME TypeOK, ViewCurrent, NEW c \in Conns, NEW s, Open(c), s # NoSave,
         Written(c, s) \/ WriteFailed(c, s)
  PROVE  ViewCurrent'
  <1>1. CASE Written(c, s)
    <2>1. ASSUME ~lag[c] PROVE Push(c, s) = ViewOf(s)
      <3>1. view[c].items = Totals(mem[c]) /\ view[c].player = Standing(mem[c])
        <4>1. view[c] = ViewOf(mem[c])
          BY <2>1 DEF ViewCurrent
        <4>2. view[c] = [items |-> Totals(mem[c]), player |-> Standing(mem[c])]
          BY <4>1 DEF ViewOf
        <4> QED BY <4>2
      <3> QED BY <3>1 DEF Push, ViewOf
    <2> QED BY <1>1, <2>1 DEF Written, ViewCurrent, Open, TypeOK
  <1>2. CASE WriteFailed(c, s)
    BY <1>2 DEF WriteFailed, ViewCurrent, Open, TypeOK
  <1> QED BY <1>1, <1>2

(* A client whose connection has not lost a write has the totals of its      *)
(* copy: every handler that changes them pushes them.                        *)
THEOREM ViewTheorem == Spec => []ViewCurrent
  <1>1. Init => ViewCurrent
    BY DEF Init, ViewCurrent, Open
  <1>2. TypeOK /\ ViewCurrent /\ [Next]_vars => ViewCurrent'
    <2> SUFFICES ASSUME TypeOK, ViewCurrent, [Next]_vars PROVE ViewCurrent'
      OBVIOUS
    <2>1. ASSUME NEW c \in Conns, Connection(c) PROVE ViewCurrent'
      BY <2>1 DEF Connection, Accept, Login, Close, ViewCurrent, Open, TypeOK
    <2>2. CASE Crash
      BY <2>2 DEF Crash, ViewCurrent, Open, TypeOK
    <2>3. CASE UNCHANGED vars
      BY <2>3 DEF vars, ViewCurrent, Open
    <2>4. ASSUME NEW c \in Conns, NEW l \in Levels, FightRequest(c, l)
          PROVE  ViewCurrent'
      <3>1. Open(c) /\ mem[c] \in Save
        BY <2>4 DEF FightRequest, OpenFight, RefuseFight, Settle, Replay,
                    SettleUnopened, Open, TypeOK
      <3>2. ASSUME NEW q \in Sweeps, OpenFight(c, l, q) PROVE ViewCurrent'
        <4>1. Opened(mem[c], l, q) \in Save
          BY <3>1, <3>2, OpenedOK, CombatAssumption DEF OpenFight
        <4> QED BY <3>1, <3>2, <4>1, OutcomeSeen, CombatAssumption DEF OpenFight
      <3>3. ASSUME NEW q \in Sweeps, RefuseFight(c, l, q) PROVE ViewCurrent'
        BY <3>1, <3>3, OutcomeSeen, CombatAssumption DEF RefuseFight
      <3>4. ASSUME NEW win \in BOOLEAN, NEW goals \in SUBSET Goals,
                   Settle(c, l, win, goals)
            PROVE  ViewCurrent'
        <4>1. PICK roll \in Drops[l], extra \in FirstDrops[l] :
                LET s == Settled(mem[c], l, win, goals, Payment(mem[c], l, win, roll, extra))
                IN Written(c, s) \/ WriteFailed(c, s)
          BY <3>4 DEF Settle
        <4> DEFINE pay == Payment(mem[c], l, win, roll, extra)
        <4>2. pay \in Reward /\ HasFight(mem[c], l)
          BY <3>1, <3>4, PaymentOK DEF Settle
        <4>3. Settled(mem[c], l, win, goals, pay) \in Save
          <5> HIDE DEF pay
          <5> QED BY <3>1, <4>2, SettledOK
        <4> QED BY <3>1, <4>1, <4>3, OutcomeSeen, CombatAssumption
      <3>5. CASE Replay(c, l)
        BY <3>5 DEF Replay, ViewCurrent, Open
      <3>6. CASE SettleUnopened(c, l)
        <4>1. ViewOf(WithRow(mem[c], l)) = ViewOf(mem[c])
          BY <3>1 DEF WithRow, ViewOf, Totals, Standing, Save
        <4> QED BY <3>1, <3>6, <4>1 DEF SettleUnopened, ViewCurrent, Open, TypeOK
      <3> QED BY <2>4, <3>2, <3>3, <3>4, <3>5, <3>6 DEF FightRequest
    <2>5. ASSUME NEW c \in Conns, NEW d \in Lines, TownInfo(c, d)
          PROVE  ViewCurrent'
      <3> DEFINE s == [mem[c] EXCEPT !.lines[d] = Visited(@, d)]
      <3>1. Open(c) /\ mem[c] \in Save
        BY <2>5 DEF TownInfo, Open, TypeOK
      <3>2. s \in Save /\ ViewOf(s) = ViewOf(mem[c])
        BY <2>5, <3>1, TownOK DEF TownInfo, Save, ViewOf, Totals, Standing
      <3>3. Written(c, s) \/ WriteFailed(c, s) \/
            (mem' = [mem EXCEPT ![c] = s] /\ UNCHANGED <<disk, view, lag>>)
        BY <2>5 DEF TownInfo
      <3> HIDE DEF s
      <3>4. CASE Written(c, s) \/ WriteFailed(c, s)
        BY <3>1, <3>2, <3>4, OutcomeSeen, CombatAssumption
      <3>5. CASE mem' = [mem EXCEPT ![c] = s] /\ UNCHANGED <<disk, view, lag>>
        BY <3>1, <3>2, <3>5 DEF ViewCurrent, Open, TypeOK
      <3> QED BY <3>3, <3>4, <3>5
    <2> QED
      BY <2>1, <2>2, <2>3, <2>4, <2>5 DEF Next, Request
  <1> QED BY <1>1, <1>2, TypeCorrect, PTL DEF Spec

-----------------------------------------------------------------------------
(* One connection at a time, and its copy has grown from the file.           *)
Alone ==
  /\ \A c, d \in Conns : Open(c) /\ Open(d) => c = d
  /\ \A c \in Conns : Open(c) => Keeps(disk, mem[c])

LEMMA KeepsTransitive ==
  ASSUME NEW s \in Save, NEW t \in Save, NEW u \in Save, Keeps(s, t), Keeps(t, u)
  PROVE  Keeps(s, u)
  <1>1. /\ s.seq \in Nat /\ t.seq \in Nat /\ u.seq \in Nat
        /\ s.lvl \in Nat /\ t.lvl \in Nat /\ u.lvl \in Nat
    BY SaveFields
  <1>2. \A n \in Fights : /\ s.ledger[n].times \in Nat
                          /\ t.ledger[n].times \in Nat
                          /\ u.ledger[n].times \in Nat
    BY SaveFields DEF Entry
  <1>3. \A d \in Lines : s.walked[d] \in Nat /\ t.walked[d] \in Nat /\ u.walked[d] \in Nat
    BY SaveFields
  <1> QED BY <1>1, <1>2, <1>3 DEF Keeps

LEMMA KeepsSelf ==
  ASSUME NEW s \in Save
  PROVE  Keeps(s, s)
  BY SaveFields DEF Keeps, Entry

(* With one connection at a time, nothing that is closed, crashed or not     *)
(* written makes player.json lose a clear, a fight, a level or a town step.  *)
THEOREM DiskTheorem ==
  ASSUME ~Overlap
  PROVE  Spec => DiskKeeps
  <1>1. Init => Alone
    BY DEF Init, Alone, Open
  <1>2. TypeOK /\ Alone /\ [Next]_vars => Alone' /\ [Keeps(disk, disk')]_vars
    <2> SUFFICES ASSUME TypeOK, Alone, [Next]_vars
                 PROVE  Alone' /\ [Keeps(disk, disk')]_vars
      OBVIOUS
    <2>1. Keeps(disk, disk)
      BY KeepsSelf DEF TypeOK
    <2>2. ASSUME NEW c \in Conns, Accept(c) PROVE Alone' /\ Keeps(disk, disk')
      BY <2>1, <2>2 DEF Accept, Alone, Open, TypeOK
    <2>3. ASSUME NEW c \in Conns, Login(c) PROVE Alone' /\ Keeps(disk, disk')
      <3>1. mem[c] \in Save /\ Keeps(disk, mem[c])
        BY <2>3 DEF Login, Alone, Open, TypeOK
      <3>2. Keeps(mem[c], mem[c])
        BY <3>1, KeepsSelf
      <3> QED BY <2>3, <3>1, <3>2 DEF Login, Alone, Open
    <2>4. ASSUME NEW c \in Conns, Close(c) PROVE Alone' /\ Keeps(disk, disk')
      BY <2>1, <2>4 DEF Close, Alone, Open, TypeOK
    <2>5. CASE Crash
      BY <2>1, <2>5 DEF Crash, Alone, Open
    <2>6. ASSUME NEW c \in Conns, Request(c) PROVE Alone' /\ Keeps(disk, disk')
      <3>1. Open(c) /\ mem[c] \in Save /\ disk \in Save
        BY <2>6, RequestStep DEF TypeOK
      <3>2. PICK s \in Save : Answered(c, s) /\ Keeps(mem[c], s)
        BY <2>6, RequestStep
      <3>3. Keeps(disk, s)
        BY <3>1, <3>2, KeepsTransitive DEF Alone
      <3>4. Keeps(s, s)
        BY KeepsSelf
      <3>5. mem' = [mem EXCEPT ![c] = s] /\ (disk' = s \/ disk' = disk)
        BY <3>2 DEF Answered
      <3>6. Keeps(disk, disk') /\ Keeps(disk', s)
        BY <2>1, <3>3, <3>4, <3>5
      <3> QED BY <3>1, <3>5, <3>6 DEF Alone, Open, TypeOK
    <2>7. CASE UNCHANGED vars
      BY <2>1, <2>7 DEF vars, Alone, Open
    <2> QED
      BY <2>2, <2>3, <2>4, <2>5, <2>6, <2>7 DEF Next, Connection
  <1> QED BY <1>1, <1>2, TypeCorrect, PTL DEF Spec, DiskKeeps

-----------------------------------------------------------------------------
(* Combat implements FightLedger, with and without overlap and failing       *)
(* writes: each step of the server is one of the ledger, or none.  The       *)
(* invariant is needed where the ledger refuses: a settlement is one of a    *)
(* fight that is not paid yet, and a bonus goes with a first win.            *)
LEMMA BookFields ==
  ASSUME NEW s \in Save
  PROVE  /\ BookOf(s) \in Ledger!Book /\ BookOf(s) # NoSave
         /\ BookOf(s).opened = s.seq /\ BookOf(s).current = s.active
         /\ BookOf(s).paid = {n \in Fights : s.ledger[n].times = 1}
         /\ BookOf(s).cleared = s.passed
         /\ BookOf(s).bonus = {l \in Levels : s.bonus[l] = 1}
  <1>1. BookOf(s) \in Ledger!Book
    BY SaveFields DEF BookOf, Ledger!Book, Ledger!Fights, Fights, Fight
  <1> QED BY <1>1, NoBookAssumption DEF BookOf

(* Reading and copying books, for a connection that is or becomes open.      *)
LEMMA BooksOpen ==
  ASSUME TypeOK, NEW c \in Conns, Open(c)
  PROVE  Books[c] = BookOf(mem[c]) /\ Books[c] # NoSave
  BY BookFields DEF Books, Open, TypeOK

LEMMA BooksChange ==
  ASSUME TypeOK, NEW c \in Conns, NEW s \in Save, mem' = [mem EXCEPT ![c] = s]
  PROVE  Books' = [Books EXCEPT ![c] = BookOf(s)]
  BY CombatAssumption DEF Books, Open, TypeOK

(* A handler that changes nothing of the book only saves it, or nothing.     *)
LEMMA SameBook ==
  ASSUME TypeOK, NEW c \in Conns, NEW s \in Save, Open(c),
         mem' = [mem EXCEPT ![c] = s], disk' = s \/ disk' = disk,
         BookOf(s) = BookOf(mem[c])
  PROVE  Ledger!Save(c) \/ UNCHANGED Ledger!vars
  <1>1. Books' = Books
    <2>1. Books' = [Books EXCEPT ![c] = Books[c]]
      BY BooksChange, BooksOpen
    <2>2. Books = [d \in Conns |-> Books[d]]
      BY DEF Books
    <2> QED BY <2>1, <2>2
  <1>2. BookOf(disk)' = Books[c] \/ BookOf(disk)' = BookOf(disk)
    BY BooksOpen
  <1> QED BY <1>1, <1>2, BooksOpen DEF Ledger!Save, Ledger!vars

-----------------------------------------------------------------------------
(* Opening a fight is a start of the ledger.                                 *)
LEMMA OpenedIsStart ==
  ASSUME TypeOK, NEW c \in Conns, NEW l \in Levels, NEW q \in Nat, Open(c),
         CanPay(mem[c], l, q), mem[c].seq < MaxFights,
         mem' = [mem EXCEPT ![c] = Opened(mem[c], l, q)],
         disk' = Opened(mem[c], l, q) \/ disk' = disk
  PROVE  Ledger!Start(c, l)
  <1> DEFINE s == mem[c]
             t == Opened(s, l, q)
             n == s.seq + 1
  <1>1. s \in Save /\ t \in Save
    BY OpenedOK DEF TypeOK, Open
  <1>2. BookOf(t) = [BookOf(s) EXCEPT !.opened = n, !.current = [seq |-> n, level |-> l]]
    <2>1. /\ t.seq = n /\ t.active = [seq |-> n, level |-> l]
          /\ t.passed = s.passed /\ t.ledger = s.ledger /\ t.bonus = s.bonus
      BY <1>1 DEF Opened, Save
    <2> HIDE DEF t, s, n
    <2>2. /\ BookOf(s) \in Ledger!Book /\ BookOf(t) \in Ledger!Book
          /\ BookOf(t).opened = n /\ BookOf(t).current = [seq |-> n, level |-> l]
          /\ BookOf(t).paid = BookOf(s).paid
          /\ BookOf(t).cleared = BookOf(s).cleared
          /\ BookOf(t).bonus = BookOf(s).bonus
      BY <1>1, <2>1, BookFields
    <2> QED BY <2>2 DEF Ledger!Book
  <1>3. Books' = [Books EXCEPT ![c] = BookOf(t)] /\ Books[c] = BookOf(s) /\ Books[c] # NoSave
    BY <1>1, BooksChange, BooksOpen
  <1>4. BookOf(disk)' = BookOf(t) \/ BookOf(disk)' = BookOf(disk)
    OBVIOUS
  <1>5. BookOf(s).opened = s.seq
    BY <1>1, BookFields
  <1> HIDE DEF t, s
  <1> QED BY <1>2, <1>3, <1>4, <1>5 DEF Ledger!Start, Ledger!Becomes, n, s

(* Settling the open fight is a settlement of the ledger.                    *)
LEMMA SettledIsSettle ==
  ASSUME TypeOK, NEW c \in Conns, Open(c), SaveInv(mem[c]),
         NEW l \in Levels, NEW win \in BOOLEAN, NEW goals \in SUBSET Goals,
         NEW pay \in Reward, HasFight(mem[c], l),
         mem' = [mem EXCEPT ![c] = Settled(mem[c], l, win, goals, pay)],
         disk' = Settled(mem[c], l, win, goals, pay) \/ disk' = disk
  PROVE  Ledger!Settle(c, win)
  <1> DEFINE s == mem[c]
             t == Settled(s, l, win, goals, pay)
             n == s.active.seq
             won == IF win THEN {l} ELSE {}
             first == IsFirstClear(s, l, win)
  <1>1. s \in Save /\ t \in Save
    BY SettledOK DEF TypeOK, Open
  <1>2. s.active # NoFight /\ s.active.level = l /\ n \in Fights
    BY <1>1, SaveFields DEF HasFight, Fight
  <1>3. s.ledger[n].times = 0 /\ s.ledger[n] \in Entry
    BY <1>1, <1>2, SaveFields DEF SaveInv, OncePerFight
  <1>4. first <=> (win /\ l \notin s.passed)
    BY <1>1, LevelStateOK DEF SaveInv, IsFirstClear
  <1>5. l \notin s.passed => s.bonus[l] = 0
    BY DEF SaveInv, BonusExact
  <1>6. /\ t.seq = s.seq /\ t.active = NoFight
        /\ t.passed = s.passed \cup won
        /\ t.ledger = [s.ledger EXCEPT ![n] = [times |-> s.ledger[n].times + 1, pay |-> pay]]
        /\ t.bonus = [s.bonus EXCEPT ![l] = IF first THEN @ + 1 ELSE @]
    <2>1. s \in Save
      BY <1>1
    <2>2. t.passed = IF win THEN s.passed \cup {l} ELSE s.passed
      BY <2>1 DEF Settled, Save
    <2>3. /\ t.seq = s.seq /\ t.active = NoFight
          /\ t.ledger = [s.ledger EXCEPT ![n] = [times |-> @.times + 1, pay |-> pay]]
          /\ t.bonus = [s.bonus EXCEPT ![l] = IF first THEN @ + 1 ELSE @]
      BY <2>1 DEF Settled, Save
    <2> HIDE DEF t, s, n, first
    <2>4. t.passed = s.passed \cup won
      BY <2>2
    <2> QED BY <2>3, <2>4
  <1>7. {k \in Fights : t.ledger[k].times = 1}
          = {k \in Fights : s.ledger[k].times = 1} \cup {n}
    <2> HIDE DEF t, s, n
    <2>1. t.ledger[n].times = 1
      BY <1>1, <1>2, <1>3, <1>6, SaveFields
    <2>2. \A k \in Fights : k # n => t.ledger[k] = s.ledger[k]
      BY <1>1, <1>6, SaveFields
    <2> QED BY <1>2, <2>1, <2>2
  <1>8. {k \in Levels : t.bonus[k] = 1}
          = {k \in Levels : s.bonus[k] = 1} \cup (won \ s.passed)
    <2> HIDE DEF t, s, first
    <2>1. \A k \in Levels : k # l => t.bonus[k] = s.bonus[k]
      BY <1>1, <1>6, SaveFields
    <2>2. t.bonus[l] = IF first THEN s.bonus[l] + 1 ELSE s.bonus[l]
      BY <1>1, <1>6, SaveFields
    <2>3. CASE win /\ l \notin s.passed
      BY <1>4, <1>5, <2>1, <2>2, <2>3
    <2>4. CASE ~(win /\ l \notin s.passed)
      BY <1>4, <2>1, <2>2, <2>4
    <2> QED BY <2>3, <2>4
  <1>9. BookOf(t) = [BookOf(s) EXCEPT
                       !.current = NoFight,
                       !.paid = @ \cup {n},
                       !.cleared = @ \cup won,
                       !.bonus = @ \cup (won \ s.passed)]
    <2> HIDE DEF t, s, n, won, first
    <2>1. /\ BookOf(s) \in Ledger!Book /\ BookOf(t) \in Ledger!Book
          /\ BookOf(t).opened = BookOf(s).opened
          /\ BookOf(t).current = NoFight
          /\ BookOf(t).paid = BookOf(s).paid \cup {n}
          /\ BookOf(t).cleared = BookOf(s).cleared \cup won
          /\ BookOf(t).bonus = BookOf(s).bonus \cup (won \ s.passed)
      BY <1>1, <1>6, <1>7, <1>8, BookFields
    <2> QED BY <2>1 DEF Ledger!Book
  <1>10. Books' = [Books EXCEPT ![c] = BookOf(t)] /\ Books[c] = BookOf(s) /\ Books[c] # NoSave
    BY <1>1, BooksChange, BooksOpen
  <1>11. BookOf(disk)' = BookOf(t) \/ BookOf(disk)' = BookOf(disk)
    OBVIOUS
  <1>12. /\ BookOf(s).current = s.active /\ BookOf(s).cleared = s.passed
         /\ n \notin BookOf(s).paid
    BY <1>1, <1>3, BookFields
  <1> HIDE DEF t, s
  <1> QED BY <1>2, <1>9, <1>10, <1>11, <1>12 DEF Ledger!Settle, Ledger!Becomes, n, won

-----------------------------------------------------------------------------
LEMMA FightRefines ==
  ASSUME TypeOK, IInv, NEW c \in Conns, NEW l \in Levels, FightRequest(c, l)
  PROVE  Ledger!Next \/ UNCHANGED Ledger!vars
  <1>1. Open(c) /\ mem[c] \in Save /\ SaveInv(mem[c])
    BY DEF FightRequest, OpenFight, RefuseFight, Settle, Replay, SettleUnopened,
           Open, TypeOK, IInv, Copies
  <1>2. ASSUME NEW q \in Sweeps, OpenFight(c, l, q) PROVE Ledger!Start(c, l)
    BY <1>1, <1>2, OpenedIsStart, CombatAssumption
    DEF OpenFight, Written, WriteFailed
  <1>3. ASSUME NEW q \in Sweeps, RefuseFight(c, l, q)
        PROVE  Ledger!Save(c) \/ UNCHANGED Ledger!vars
    BY <1>1, <1>3, SameBook DEF RefuseFight, Written, WriteFailed
  <1>4. ASSUME NEW win \in BOOLEAN, NEW goals \in SUBSET Goals,
               Settle(c, l, win, goals)
        PROVE  Ledger!Settle(c, win)
    <2>1. PICK roll \in Drops[l], extra \in FirstDrops[l] :
            LET s == Settled(mem[c], l, win, goals, Payment(mem[c], l, win, roll, extra))
            IN Written(c, s) \/ WriteFailed(c, s)
      BY <1>4 DEF Settle
    <2> DEFINE pay == Payment(mem[c], l, win, roll, extra)
               s == Settled(mem[c], l, win, goals, pay)
    <2>2. pay \in Reward /\ HasFight(mem[c], l)
      BY <1>1, <1>4, PaymentOK DEF Settle
    <2>3. mem' = [mem EXCEPT ![c] = s] /\ (disk' = s \/ disk' = disk)
      BY <2>1 DEF Written, WriteFailed
    <2> HIDE DEF pay
    <2> QED BY <1>1, <2>2, <2>3, SettledIsSettle
  <1>5. ASSUME Replay(c, l) PROVE UNCHANGED Ledger!vars
    BY <1>5 DEF Replay, Ledger!vars, Books, Open
  <1>6. ASSUME SettleUnopened(c, l) PROVE Ledger!Save(c) \/ UNCHANGED Ledger!vars
    <2>1. WithRow(mem[c], l) \in Save /\ BookOf(WithRow(mem[c], l)) = BookOf(mem[c])
      BY <1>1, WithRowOK DEF WithRow, BookOf, Save
    <2> QED BY <1>1, <1>6, <2>1, SameBook DEF SettleUnopened
  <1> QED
    BY <1>2, <1>3, <1>4, <1>5, <1>6 DEF FightRequest, Ledger!Next

(* The fights of the server keep the promises of the ledger.                 *)
THEOREM LedgerTheorem == Spec => KeepsLedger
  <1>1. Init => Ledger!Init
    <2>1. /\ {n \in Fights : NewSave.ledger[n].times = 1} = {}
          /\ {l \in Levels : NewSave.bonus[l] = 1} = {}
      BY DEF NewSave, NoEntry
    <2>2. BookOf(NewSave) = Ledger!EmptyBook
      BY <2>1 DEF BookOf, NewSave, Ledger!EmptyBook
    <2> QED BY <2>2 DEF Init, Ledger!Init, Books, Open
  <1>2. TypeOK /\ IInv /\ [Next]_vars => [Ledger!Next]_(Ledger!vars)
    <2> SUFFICES ASSUME TypeOK, IInv, [Next]_vars
                 PROVE  Ledger!Next \/ UNCHANGED Ledger!vars
      OBVIOUS
    <2>1. ASSUME NEW c \in Conns, Accept(c) PROVE Ledger!Load(c)
      <3>1. Books[c] = NoSave /\ disk \in Save
        BY <2>1 DEF Accept, Books, Open, TypeOK
      <3>2. Books' = [Books EXCEPT ![c] = BookOf(disk)]
        BY <2>1, <3>1, BooksChange DEF Accept
      <3> QED BY <2>1, <3>1, <3>2 DEF Accept, Ledger!Load
    <2>2. ASSUME NEW c \in Conns, Login(c) PROVE Ledger!Save(c)
      BY <2>2, BooksOpen DEF Login, Ledger!Save, Books, Open
    <2>3. ASSUME NEW c \in Conns, Close(c) PROVE Ledger!Forget({c})
      BY <2>3 DEF Close, Ledger!Forget, Books, Open, TypeOK
    <2>4. ASSUME Crash PROVE Ledger!Forget(Conns)
      BY <2>4 DEF Crash, Ledger!Forget, Books, Open
    <2>5. ASSUME NEW c \in Conns, NEW l \in Levels, FightRequest(c, l)
          PROVE  Ledger!Next \/ UNCHANGED Ledger!vars
      BY <2>5, FightRefines
    <2>6. ASSUME NEW c \in Conns, NEW d \in Lines, TownInfo(c, d)
          PROVE  Ledger!Save(c) \/ UNCHANGED Ledger!vars
      <3> DEFINE s == [mem[c] EXCEPT !.lines[d] = Visited(@, d)]
      <3>1. Open(c) /\ mem[c] \in Save
        BY <2>6 DEF TownInfo, Open, TypeOK
      <3>2. mem[c].lines[d] \in TownRow /\ Steps[d] # <<>>
        BY <2>6, <3>1, SaveFields DEF TownInfo
      <3>3. s \in Save /\ BookOf(s) = BookOf(mem[c])
        BY <3>1, <3>2, TownOK DEF Save, BookOf
      <3>4. mem' = [mem EXCEPT ![c] = s] /\ (disk' = s \/ disk' = disk)
        BY <2>6 DEF TownInfo, Written, WriteFailed
      <3> HIDE DEF s
      <3> QED BY <3>1, <3>3, <3>4, SameBook
    <2>7. CASE UNCHANGED vars
      BY <2>7 DEF vars, Ledger!vars, Books, Open
    <2> QED
      BY <2>1, <2>2, <2>3, <2>4, <2>5, <2>6, <2>7
      DEF Next, Connection, Request, Ledger!Next
  <1>3. Spec => Ledger!Spec
    BY <1>1, <1>2, TypeCorrect, CopiesCorrect, PTL DEF Spec, Ledger!Spec
  <1> QED BY <1>3 DEF KeepsLedger
=============================================================================
