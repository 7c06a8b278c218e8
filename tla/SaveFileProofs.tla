--------------------------- MODULE SaveFileProofs ---------------------------
(***************************************************************************)
(* save() is atomic as long as saves take turns, for every set of threads,  *)
(* processes, documents and inodes, on both file systems, and whatever      *)
(* process dies at whatever step.                                           *)
(***************************************************************************)
EXTENDS SaveFile, TLAPS

(* What is true between the steps of a save when nobody else saves: the     *)
(* temporary file is not the file, only its saver writes it, a saver about  *)
(* to rename has written both blocks, and readers hold whole files.         *)
Turns == \A a, b \in Savers : pc[a] \in Saving /\ pc[b] \in Saving => a = b

Names ==
  /\ main # NoFile => Whole(main)
  /\ tmp # NoFile => tmp # main

Writer(a) ==
  /\ pc[a] \in {"first", "rest"} => tmp # NoFile /\ fd[a] = tmp
  /\ pc[a] = "rest" => block[tmp][1] = doc[a]
  /\ pc[a] = "replace" =>
       tmp # NoFile /\ block[tmp][1] = doc[a] /\ block[tmp][2] = doc[a]
  /\ doc[a] \in Docs <=> pc[a] \in Saving

Reader(a) ==
  /\ pc[a] = "read" => fd[a] \in Inodes /\ fd[a] # tmp /\ Whole(fd[a])
  /\ pc[a] \in {"idle", "open", "replace"} => fd[a] = NoFile

IInv ==
  /\ TypeOK
  /\ Turns
  /\ Names
  /\ \A a \in Savers : Writer(a) /\ Reader(a)

-----------------------------------------------------------------------------
LEMMA InitOK == Init => IInv
  BY SaveFileAssumption
  DEF Init, IInv, TypeOK, Turns, Names, Writer, Reader, Empty, Saving

(* Every step of a saver whose turn it is keeps the invariant.               *)
LEMMA NextOK == OneSaver /\ IInv /\ [Next]_vars => IInv'
  <1> SUFFICES ASSUME OneSaver, IInv, [Next]_vars PROVE IInv'
    OBVIOUS
  <1> USE SaveFileAssumption DEF IInv, TypeOK, Turns, Names, Writer, Reader,
          Saving, Goes, Whole
  <1>1. ASSUME NEW a \in Savers, NEW d \in Docs, Save(a, d) PROVE IInv'
    BY <1>1 DEF Save, HasTurn
  <1>2. ASSUME NEW a \in Savers, LoadMissing(a) PROVE IInv'
    BY <1>1, <1>2 DEF LoadMissing
  <1>3. ASSUME NEW a \in Savers, OpenMain(a) PROVE IInv'
    BY <1>3 DEF OpenMain
  <1>4. ASSUME NEW a \in Savers, FinishRead(a) PROVE IInv'
    BY <1>4 DEF FinishRead, HasTurn
  <1>5. ASSUME NEW a \in Savers, OpenTmp(a) PROVE IInv'
    BY <1>5 DEF OpenTmp, Free, Empty
  <1>6. ASSUME NEW a \in Savers, WriteFirst(a) PROVE IInv'
    BY <1>6 DEF WriteFirst
  <1>7. ASSUME NEW a \in Savers, WriteRest(a) PROVE IInv'
    BY <1>7 DEF WriteRest
  <1>8. ASSUME NEW a \in Savers, Replace(a) PROVE IInv'
    BY <1>8 DEF Replace
  <1>9. ASSUME NEW a \in Savers, ReplaceRaises(a) PROVE IInv'
    BY <1>9 DEF ReplaceRaises
  <1>10. ASSUME NEW a \in Savers, Stop(a) PROVE IInv'
    BY <1>10 DEF Stop
  <1>11. CASE UNCHANGED vars
    BY <1>11 DEF vars
  <1> QED
    BY <1>1, <1>2, <1>3, <1>4, <1>5, <1>6, <1>7, <1>8, <1>9, <1>10, <1>11
    DEF Next

LEMMA Inductive == OneSaver => (Spec => []IInv)
  <1> SUFFICES ASSUME OneSaver PROVE Spec => []IInv
    OBVIOUS
  <1>1. IInv /\ [Next]_vars => IInv'
    BY NextOK
  <1> QED BY <1>1, InitOK, PTL DEF Spec

(* Type correctness, whether or not saves take turns: whoever writes has a   *)
(* document and a file to write it to.                                       *)
Equipped(a) ==
  /\ pc[a] \in Saving => doc[a] \in Docs
  /\ pc[a] \in {"first", "rest"} => fd[a] \in Inodes

Typed == TypeOK /\ \A a \in Savers : Equipped(a)

THEOREM TypeTheorem == Spec => []TypeOK
  <1>1. Init => Typed
    BY SaveFileAssumption DEF Init, Typed, TypeOK, Equipped, Empty, Saving
  <1>2. Typed /\ [Next]_vars => Typed'
    <2> SUFFICES ASSUME Typed, [Next]_vars PROVE Typed'
      OBVIOUS
    <2> USE SaveFileAssumption DEF Typed, TypeOK, Equipped, Saving, Goes
    <2>1. ASSUME NEW a \in Savers, NEW d \in Docs, Save(a, d) PROVE Typed'
      BY <2>1 DEF Save
    <2>2. ASSUME NEW a \in Savers, LoadMissing(a) PROVE Typed'
      BY <2>1, <2>2 DEF LoadMissing
    <2>3. ASSUME NEW a \in Savers, OpenMain(a) PROVE Typed'
      BY <2>3 DEF OpenMain
    <2>4. ASSUME NEW a \in Savers, FinishRead(a) PROVE Typed'
      BY <2>4 DEF FinishRead
    <2>5. ASSUME NEW a \in Savers, OpenTmp(a) PROVE Typed'
      BY <2>5 DEF OpenTmp, Free, Empty
    <2>6. ASSUME NEW a \in Savers, WriteFirst(a) PROVE Typed'
      BY <2>6 DEF WriteFirst
    <2>7. ASSUME NEW a \in Savers, WriteRest(a) PROVE Typed'
      BY <2>7 DEF WriteRest
    <2>8. ASSUME NEW a \in Savers, Replace(a) \/ ReplaceRaises(a) \/ Stop(a)
          PROVE  Typed'
      BY <2>8 DEF Replace, ReplaceRaises, Stop
    <2>9. CASE UNCHANGED vars
      BY <2>9 DEF vars
    <2> QED
      BY <2>1, <2>2, <2>3, <2>4, <2>5, <2>6, <2>7, <2>8, <2>9 DEF Next
  <1>3. Typed => TypeOK
    BY DEF Typed
  <1> QED BY <1>1, <1>2, <1>3, PTL DEF Spec

-----------------------------------------------------------------------------
(* player.json is never half a document, whoever dies in the middle of a     *)
(* save, as long as saves take turns.                                        *)
THEOREM MainWholeTheorem == OneSaver => (Spec => []MainWhole)
  <1> SUFFICES ASSUME OneSaver PROVE Spec => []MainWhole
    OBVIOUS
  <1>1. IInv => MainWhole
    BY DEF IInv, Names, MainWhole
  <1> QED BY <1>1, Inductive, PTL

(* No load reads half a document, even if the file is replaced meanwhile.    *)
THEOREM ReadsWholeTheorem == OneSaver => (Spec => []ReadsWhole)
  <1> SUFFICES ASSUME OneSaver PROVE Spec => []ReadsWhole
    OBVIOUS
  <1>1. IInv => ReadsWhole
    BY DEF IInv, Reader, ReadsWhole
  <1> QED BY <1>1, Inductive, PTL

-----------------------------------------------------------------------------
Held == IF main = NoFile THEN Missing ELSE block[main][1]

(* Every step of a save is a step of the register or leaves it alone: the    *)
(* rename is the only step that changes what the file holds.                 *)
LEMMA StepOK ==
  OneSaver /\ IInv /\ [Next]_vars => [Register!Next]_(Register!vars)
  <1> SUFFICES ASSUME OneSaver, IInv, [Next]_vars
               PROVE  [Register!Next]_(Register!vars)
    OBVIOUS
  <1> USE SaveFileAssumption DEF IInv, TypeOK, Turns, Names, Writer, Reader,
          Saving, Goes
  <1> DEFINE Same == Held' = Held /\ doc' = doc
  <1>1. ASSUME NEW a \in Savers, NEW d \in Docs, Save(a, d)
        PROVE  Register!Begin(a, d)
    BY <1>1 DEF Save, Register!Begin
  <1>2. ASSUME NEW a \in Savers, OpenMain(a) PROVE Same
    BY <1>2 DEF OpenMain, Held
  <1>3. ASSUME NEW a \in Savers, FinishRead(a)
        PROVE  Same \/ \E d \in Docs : Register!Begin(a, d)
    BY <1>3 DEF FinishRead, Held, Register!Begin
  <1>4. ASSUME NEW a \in Savers, OpenTmp(a) PROVE Same
    BY <1>4 DEF OpenTmp, Free, Held
  <1>5. ASSUME NEW a \in Savers, WriteFirst(a) PROVE Same
    BY <1>5 DEF WriteFirst, Held
  <1>6. ASSUME NEW a \in Savers, WriteRest(a) PROVE Same
    BY <1>6 DEF WriteRest, Held
  <1>7. ASSUME NEW a \in Savers, Replace(a) PROVE Register!Commit(a)
    BY <1>7 DEF Replace, CanReplace, Register!Commit
  <1>8. ASSUME NEW a \in Savers, ReplaceRaises(a) PROVE Register!Abort(a)
    BY <1>8 DEF ReplaceRaises, Register!Abort
  <1>9. ASSUME NEW a \in Savers, Stop(a) PROVE Same \/ Register!Abort(a)
    BY <1>9 DEF Stop, Held, Register!Abort
  <1>10. CASE UNCHANGED vars
    BY <1>10 DEF vars, Register!vars
  <1> QED
    BY <1>1, <1>2, <1>3, <1>4, <1>5, <1>6, <1>7, <1>8, <1>9, <1>10
    DEF Next, LoadMissing, Held, Register!Next, Register!vars

(* save() and load_save() implement the atomic register.                     *)
THEOREM AtomicTheorem == OneSaver => (Spec => SaveIsAtomic)
  <1> SUFFICES ASSUME OneSaver PROVE Spec => SaveIsAtomic
    OBVIOUS
  <1>1. Init => Register!Init
    BY DEF Init, Register!Init
  <1>2. IInv /\ [Next]_vars => [Register!Next]_(Register!vars)
    BY StepOK
  <1> QED
    BY <1>1, <1>2, Inductive, PTL DEF Spec, SaveIsAtomic, Register!Spec
=============================================================================
