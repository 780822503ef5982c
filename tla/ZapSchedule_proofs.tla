------------------------- MODULE ZapSchedule_proofs -------------------------
(***************************************************************************)
(* Proofs about ZapSchedule, for any number of atoms and gate lists of any *)
(* length: asap_joint keeps the list order of gates on one atom and leaves *)
(* no gate a stage that it could have left earlier, and the two-atom       *)
(* layers survive both strategies.                                         *)
(*                                                                         *)
(* JointStagesInOrder is not inductive: that a new gate lands behind all   *)
(* earlier gates on its atoms is known only through list_qubit_stage, so   *)
(* the invariant adds that free[a] lies behind every placed gate on a, and *)
(* which gates are placed while each loop runs.                            *)
(***************************************************************************)
EXTENDS ZapSchedule, TLAPS

\* The types the argument needs.
Shape ==
    /\ count \in Nat
    /\ cursor \in Nat \ {0}
    /\ depth \in Nat
    /\ stageOf \in [Indices -> Nat \cup {Unplaced}]
    /\ free \in [Atoms -> Nat]
    /\ last \in [Atoms -> Int]
    /\ \A a \in Atoms : last[a] >= -1
    /\ gates \in [Indices -> Gate]
    /\ pc \in {"joint", "pairs", "singles", "done"}
    /\ strategy = "joint" => pc \in {"joint", "done"}
    /\ pc = "joint" => strategy = "joint"

\* While a loop that places by list_qubit_stage runs, every placed gate lies
\* before the first free stage of each of its atoms.
PlacedBeforeFree ==
    pc \in {"joint", "pairs"} =>
       \A i \in Indices : Placed(i) => \A a \in gates[i] : stageOf[i] < free[a]

\* Which gates have a stage.
WhichPlaced ==
    /\ pc = "joint" => \A i \in Indices : Placed(i) <=> i < cursor
    /\ pc = "pairs" => \A i \in Indices : Placed(i) <=> (i < cursor /\ IsPair(i))
    /\ pc \in {"singles", "done"} => \A i \in Indices : IsPair(i) => Placed(i)

OrderInv ==
    /\ Shape
    /\ PlacedBeforeFree
    /\ WhichPlaced
    /\ JointStagesInOrder
    /\ PairLayersKept

USE SchedulerAssumption

\* Gates are sets of atoms.
LEMMA GatesAreAtoms ==
    ASSUME Shape, NEW i \in Indices
    PROVE  gates[i] \subseteq Atoms
  BY DEF Shape, Gate

\* Placing a gate puts it behind every placed gate it shares an atom with and
\* touches nothing else.
LEMMA PlaceAppends ==
    ASSUME Shape, PlacedBeforeFree, pc \in {"joint", "pairs"},
           NEW i \in Indices, ~Placed(i), Place(i)
    PROVE  /\ depth' \in Nat
           /\ stageOf' \in [Indices -> Nat \cup {Unplaced}]
           /\ free' \in [Atoms -> Nat]
           /\ stageOf'[i] \in Nat
           /\ \A j \in Indices \ {i} : stageOf'[j] = stageOf[j]
           /\ \A j \in Indices : Placed(j) /\ Sharing(j, i) => stageOf[j] < stageOf'[i]
           /\ \A a \in gates[i] : stageOf'[i] < free'[a]
           /\ \A a \in Atoms : free[a] <= free'[a]
  <1>1. PICK stage \in 0..depth :
              /\ StageWhenFree(i, stage)
              /\ stageOf' = [stageOf EXCEPT ![i] = stage]
              /\ depth' = Greater(depth, stage + 1)
              /\ free' = [a \in Atoms |-> IF a \in gates[i] THEN stage + 1 ELSE free[a]]
    BY DEF Place
  <1>2. gates[i] \subseteq Atoms
    BY GatesAreAtoms
  <1>3. stage \in Nat /\ depth' \in Nat
    BY <1>1 DEF Shape, Greater
  <1>4. \A a \in gates[i] : free[a] <= stage
    BY <1>1 DEF StageWhenFree
  <1>5. /\ stageOf' \in [Indices -> Nat \cup {Unplaced}]
        /\ free' \in [Atoms -> Nat]
        /\ stageOf'[i] = stage
        /\ \A j \in Indices \ {i} : stageOf'[j] = stageOf[j]
    BY <1>1, <1>3 DEF Shape
  <1>6. /\ \A a \in gates[i] : free'[a] = stage + 1
        /\ \A a \in Atoms \ gates[i] : free'[a] = free[a]
    BY <1>1, <1>2
  <1>7. \A a \in Atoms : free[a] <= free'[a]
    BY <1>2, <1>3, <1>4, <1>6 DEF Shape
  <1>8. ASSUME NEW j \in Indices, Placed(j), Sharing(j, i)
        PROVE  stageOf[j] < stage
    <2>1. PICK a \in gates[i] : a \in gates[j]
      BY <1>8 DEF Sharing
    <2>2. stageOf[j] < free[a] /\ free[a] <= stage
      BY <1>4, <1>8, <2>1 DEF PlacedBeforeFree
    <2>3. stageOf[j] \in Nat /\ free[a] \in Nat
      BY <1>2, <1>8, <2>1 DEF Shape, Placed
    <2> QED
      BY <2>2, <2>3, <1>3
  <1> QED
    BY <1>3, <1>5, <1>6, <1>7, <1>8

LEMMA OrderInit == Init => OrderInv
  <1> SUFFICES ASSUME Init PROVE OrderInv
    OBVIOUS
  <1>1. Shape
    BY DEF Init, Start, Shape, Indices
  <1>2. \A i \in Indices : ~Placed(i)
    BY DEF Init, Start, Placed
  <1>3. PlacedBeforeFree /\ JointStagesInOrder /\ PairLayersKept
    BY <1>2 DEF PlacedBeforeFree, JointStagesInOrder, PairLayersKept
  <1>4. WhichPlaced
    BY <1>2 DEF Init, Start, WhichPlaced, Indices
  <1> QED
    BY <1>1, <1>3, <1>4 DEF OrderInv

\* An iteration of asap_joint.
LEMMA JointStep == OrderInv /\ PlaceJoint => OrderInv'
  <1> SUFFICES ASSUME OrderInv, PlaceJoint PROVE OrderInv'
    OBVIOUS
  <1> USE DEF OrderInv
  <1>0. /\ pc = "joint" /\ pc' = "joint" /\ strategy = "joint" /\ strategy' = strategy
        /\ cursor \in Indices /\ cursor' = cursor + 1
        /\ count' = count /\ gates' = gates /\ last' = last /\ Place(cursor)
        /\ Indices' = Indices
    BY DEF PlaceJoint, Shape, Indices
  <1>1. ~Placed(cursor)
    BY <1>0 DEF WhichPlaced, Shape
  <1>2. /\ depth' \in Nat
        /\ stageOf' \in [Indices -> Nat \cup {Unplaced}]
        /\ free' \in [Atoms -> Nat]
        /\ stageOf'[cursor] \in Nat
        /\ \A j \in Indices \ {cursor} : stageOf'[j] = stageOf[j]
        /\ \A j \in Indices : Placed(j) /\ Sharing(j, cursor) => stageOf[j] < stageOf'[cursor]
        /\ \A a \in gates[cursor] : stageOf'[cursor] < free'[a]
        /\ \A a \in Atoms : free[a] <= free'[a]
    BY <1>0, <1>1, PlaceAppends
  <1>3. Shape'
    BY <1>0, <1>2 DEF Shape
  <1>4. \A i \in Indices : Placed(i)' <=> (Placed(i) \/ i = cursor)
    BY <1>0, <1>1, <1>2 DEF Placed
  <1>5. WhichPlaced'
    BY <1>0, <1>4 DEF WhichPlaced, Shape, Indices
  <1>6. PlacedBeforeFree'
    <2> SUFFICES ASSUME NEW i \in Indices, Placed(i)', NEW a \in gates[i]
                 PROVE  stageOf'[i] < free'[a]
      BY <1>0 DEF PlacedBeforeFree
    <2>1. CASE i = cursor
      BY <2>1, <1>2
    <2>2. CASE i # cursor
      <3>1. Placed(i) /\ stageOf'[i] = stageOf[i] /\ stageOf[i] < free[a]
        BY <2>2, <1>0, <1>2, <1>4 DEF PlacedBeforeFree
      <3>2. a \in Atoms /\ stageOf[i] \in Nat
        BY <3>1, GatesAreAtoms DEF Shape, Placed
      <3> QED
        BY <3>1, <3>2, <1>2 DEF Shape
    <2> QED
      BY <2>1, <2>2
  <1>7. ASSUME NEW later \in Indices, NEW earlier \in 1..(later - 1),
               Sharing(earlier, later), Placed(later)'
        PROVE  Placed(earlier)' /\ stageOf'[earlier] < stageOf'[later]
    <2>0. earlier \in Indices /\ earlier < later
      BY DEF Indices, Shape
    <2>1. CASE later = cursor
      <3>1. Placed(earlier) /\ earlier # cursor
        BY <2>0, <2>1, <1>0 DEF WhichPlaced, Indices, Shape
      <3> QED
        BY <3>1, <2>0, <2>1, <1>2, <1>4, <1>7
    <2>2. CASE later # cursor
      <3>1. Placed(later) /\ stageOf'[later] = stageOf[later]
        BY <2>2, <1>2, <1>4, <1>7
      <3>2. Placed(earlier) /\ stageOf[earlier] < stageOf[later]
        BY <3>1, <1>0, <1>7 DEF JointStagesInOrder
      <3> QED
        BY <3>1, <3>2, <2>0, <1>1, <1>2, <1>4
    <2> QED
      BY <2>1, <2>2
  <1>8. JointStagesInOrder' /\ PairLayersKept'
    <2>1. \A later \in Indices : \A earlier \in 1..(later - 1) :
             Sharing(earlier, later)' /\ Placed(later)' =>
                Placed(earlier)' /\ stageOf'[earlier] < stageOf'[later]
      BY <1>0, <1>7 DEF Sharing
    <2> QED
      BY <2>1, <1>0 DEF JointStagesInOrder, PairLayersKept
  <1> QED
    BY <1>3, <1>5, <1>6, <1>8

\* An iteration of the first loop of asap_separate.
LEMMA PairStep == OrderInv /\ PlacePair => OrderInv'
  <1> SUFFICES ASSUME OrderInv, PlacePair PROVE OrderInv'
    OBVIOUS
  <1> USE DEF OrderInv
  <1>0. /\ pc = "pairs" /\ pc' = "pairs" /\ strategy # "joint" /\ strategy' = strategy
        /\ cursor \in Indices /\ cursor' = cursor + 1
        /\ count' = count /\ gates' = gates /\ last' = last
        /\ Indices' = Indices
    BY DEF PlacePair, Shape, Indices
  <1>1. ~Placed(cursor)
    BY <1>0 DEF WhichPlaced, Shape
  <1>2. JointStagesInOrder'
    BY <1>0 DEF JointStagesInOrder
  <1>3. \A i \in Indices : IsPair(i)' <=> IsPair(i)
    BY <1>0 DEF IsPair
  <1>4. CASE ~IsPair(cursor)
    <2>1. UNCHANGED <<stageOf, depth, free>>
      BY <1>4 DEF PlacePair
    <2>2. Shape'
      BY <1>0, <2>1 DEF Shape
    <2>3. PlacedBeforeFree'
      BY <1>0, <2>1 DEF PlacedBeforeFree, Placed
    <2>4. WhichPlaced'
      <3> SUFFICES ASSUME NEW i \in Indices
                   PROVE  Placed(i)' <=> (i < cursor + 1 /\ IsPair(i))
        BY <1>0, <1>3 DEF WhichPlaced
      <3>1. Placed(i)' <=> (i < cursor /\ IsPair(i))
        BY <1>0, <2>1 DEF WhichPlaced, Placed
      <3>2. i < cursor + 1 <=> (i < cursor \/ i = cursor)
        BY DEF Shape, Indices
      <3> QED
        BY <3>1, <3>2, <1>4
    <2>5. PairLayersKept'
      BY <1>0, <1>3, <2>1 DEF PairLayersKept, Placed, Sharing, IsPair
    <2> QED
      BY <1>2, <2>2, <2>3, <2>4, <2>5
  <1>5. CASE IsPair(cursor)
    <2>1. Place(cursor)
      BY <1>5 DEF PlacePair
    <2>2. /\ depth' \in Nat
          /\ stageOf' \in [Indices -> Nat \cup {Unplaced}]
          /\ free' \in [Atoms -> Nat]
          /\ stageOf'[cursor] \in Nat
          /\ \A j \in Indices \ {cursor} : stageOf'[j] = stageOf[j]
          /\ \A j \in Indices : Placed(j) /\ Sharing(j, cursor) => stageOf[j] < stageOf'[cursor]
          /\ \A a \in gates[cursor] : stageOf'[cursor] < free'[a]
          /\ \A a \in Atoms : free[a] <= free'[a]
      BY <1>0, <1>1, <2>1, PlaceAppends
    <2>3. Shape'
      BY <1>0, <2>2 DEF Shape
    <2>4. \A i \in Indices : Placed(i)' <=> (Placed(i) \/ i = cursor)
      BY <1>0, <1>1, <2>2 DEF Placed
    <2>5. WhichPlaced'
      <3> SUFFICES ASSUME NEW i \in Indices
                   PROVE  Placed(i)' <=> (i < cursor + 1 /\ IsPair(i))
        BY <1>0, <1>3 DEF WhichPlaced
      <3>1. Placed(i)' <=> ((i < cursor /\ IsPair(i)) \/ i = cursor)
        BY <1>0, <2>4 DEF WhichPlaced
      <3>2. i < cursor + 1 <=> (i < cursor \/ i = cursor)
        BY DEF Shape, Indices
      <3> QED
        BY <3>1, <3>2, <1>5
    <2>6. PlacedBeforeFree'
      <3> SUFFICES ASSUME NEW i \in Indices, Placed(i)', NEW a \in gates[i]
                   PROVE  stageOf'[i] < free'[a]
        BY <1>0 DEF PlacedBeforeFree
      <3>1. CASE i = cursor
        BY <3>1, <2>2
      <3>2. CASE i # cursor
        <4>1. Placed(i) /\ stageOf'[i] = stageOf[i] /\ stageOf[i] < free[a]
          BY <3>2, <1>0, <2>2, <2>4 DEF PlacedBeforeFree
        <4>2. a \in Atoms /\ stageOf[i] \in Nat
          BY <4>1, GatesAreAtoms DEF Shape, Placed
        <4> QED
          BY <4>1, <4>2, <2>2 DEF Shape
      <3> QED
        BY <3>1, <3>2
    <2>7. ASSUME NEW later \in Indices, NEW earlier \in 1..(later - 1),
                 IsPair(earlier), IsPair(later), Sharing(earlier, later), Placed(later)'
          PROVE  Placed(earlier)' /\ stageOf'[earlier] < stageOf'[later]
      <3>0. earlier \in Indices /\ earlier < later
        BY DEF Indices, Shape
      <3>1. CASE later = cursor
        <4>1. Placed(earlier) /\ earlier # cursor
          BY <3>0, <3>1, <2>7, <1>0 DEF WhichPlaced, Indices, Shape
        <4> QED
          BY <4>1, <3>0, <3>1, <2>2, <2>4, <2>7
      <3>2. CASE later # cursor
        <4>1. Placed(later) /\ stageOf'[later] = stageOf[later]
          BY <3>2, <2>2, <2>4, <2>7
        <4>2. Placed(earlier) /\ stageOf[earlier] < stageOf[later]
          BY <4>1, <2>7 DEF PairLayersKept
        <4> QED
          BY <4>1, <4>2, <3>0, <1>1, <2>2, <2>4
      <3> QED
        BY <3>1, <3>2
    <2>8. PairLayersKept'
      <3>1. \A i, j \in Indices : Sharing(i, j)' <=> Sharing(i, j)
        BY <1>0 DEF Sharing
      <3> SUFFICES ASSUME NEW later \in Indices, NEW earlier \in 1..(later - 1),
                          IsPair(earlier)', IsPair(later)', Sharing(earlier, later)',
                          Placed(later)'
                   PROVE  Placed(earlier)' /\ stageOf'[earlier] < stageOf'[later]
        BY <1>0 DEF PairLayersKept
      <3>2. earlier \in Indices
        BY DEF Indices, Shape
      <3> QED
        BY <3>1, <3>2, <1>3, <2>7
    <2> QED
      BY <1>2, <2>3, <2>5, <2>6, <2>8
  <1> QED
    BY <1>4, <1>5

\* A one-atom gate is threaded in: the stages of the other gates keep their order.
LEMMA SingleStep == OrderInv /\ SetSingle => OrderInv'
  <1> SUFFICES ASSUME OrderInv, SetSingle PROVE OrderInv'
    OBVIOUS
  <1> USE DEF OrderInv
  <1>0. /\ pc = "singles" /\ pc' = "singles" /\ strategy # "joint" /\ strategy' = strategy
        /\ cursor \in Indices /\ cursor' = cursor + 1 /\ ~Placed(cursor)
        /\ count' = count /\ gates' = gates /\ last' = last /\ free' = free
        /\ Indices' = Indices
    BY DEF SetSingle, Shape, Indices
  <1>1. PICK a \in gates[cursor] :
           LET stage == last[a] + 1 IN
             IF HoldsPair(stage)
             THEN /\ stageOf' = [i \in Indices |->
                        IF i = cursor THEN stage
                        ELSE IF Placed(i) /\ stageOf[i] >= stage THEN stageOf[i] + 1
                        ELSE stageOf[i]]
                  /\ depth' = depth + 1
             ELSE /\ stageOf' = [stageOf EXCEPT ![cursor] = stage]
                  /\ depth' = Greater(depth, stage + 1)
    BY DEF SetSingle
  <1>2. last[a] + 1 \in Nat
    BY <1>0, GatesAreAtoms DEF Shape
  <1>3. /\ stageOf' \in [Indices -> Nat \cup {Unplaced}]
        /\ depth' \in Nat
    BY <1>0, <1>1, <1>2 DEF Shape, Placed, Greater
  <1>4. \A i \in Indices : Placed(i) => i # cursor /\ Placed(i)'
    BY <1>0, <1>1, <1>2 DEF Shape, Placed
  <1>5. \A i, j \in Indices : Placed(i) /\ Placed(j) /\ stageOf[i] < stageOf[j] =>
           stageOf'[i] < stageOf'[j]
    BY <1>1, <1>2, <1>4 DEF Shape, Placed
  <1>6. Shape'
    BY <1>0, <1>3 DEF Shape
  <1>7. WhichPlaced' /\ PlacedBeforeFree' /\ JointStagesInOrder'
    BY <1>0, <1>4 DEF WhichPlaced, PlacedBeforeFree, JointStagesInOrder, IsPair
  <1>8. PairLayersKept'
    <2>1. \A i, j \in Indices : /\ Sharing(i, j)' <=> Sharing(i, j)
                                /\ IsPair(i)' <=> IsPair(i)
      BY <1>0 DEF Sharing, IsPair
    <2> SUFFICES ASSUME NEW later \in Indices, NEW earlier \in 1..(later - 1),
                        IsPair(earlier)', IsPair(later)', Sharing(earlier, later)'
                 PROVE  Placed(earlier)' /\ stageOf'[earlier] < stageOf'[later]
      BY <1>0 DEF PairLayersKept
    <2>2. earlier \in Indices
      BY DEF Indices, Shape
    <2>3. Placed(earlier) /\ Placed(later)
      BY <1>0, <2>1, <2>2 DEF WhichPlaced
    <2> QED
      BY <1>4, <1>5, <2>1, <2>2, <2>3 DEF PairLayersKept
  <1> QED
    BY <1>6, <1>7, <1>8

\* The steps that place nothing.
LEMMA QuietStep ==
    OrderInv /\ (BeginSingles \/ PassPair \/ SaveResults \/ UNCHANGED vars) => OrderInv'
  <1> SUFFICES ASSUME OrderInv, BeginSingles \/ PassPair \/ SaveResults \/ UNCHANGED vars
               PROVE  OrderInv'
    OBVIOUS
  <1> USE DEF OrderInv
  <1>0. /\ count' = count /\ gates' = gates /\ strategy' = strategy
        /\ stageOf' = stageOf /\ depth' = depth /\ free' = free /\ Indices' = Indices
    BY DEF BeginSingles, PassPair, SaveResults, vars, Indices
  <1>1. JointStagesInOrder' /\ PairLayersKept'
    BY <1>0 DEF JointStagesInOrder, PairLayersKept, Placed, Sharing, IsPair
  <1>2. last' \in [Atoms -> Int] /\ \A a \in Atoms : last'[a] >= -1
    <2>1. CASE PassPair
      <3>1. cursor \in Indices /\ stageOf[cursor] \in Nat
        BY <2>1 DEF PassPair, Shape, Indices, Placed
      <3> QED
        BY <2>1, <3>1 DEF PassPair, Shape
    <2>2. CASE ~PassPair
      BY <2>2 DEF BeginSingles, SaveResults, vars, Shape
    <2> QED
      BY <2>1, <2>2
  <1>3. Shape'
    BY <1>0, <1>2 DEF BeginSingles, PassPair, SaveResults, vars, Shape
  <1>4. PlacedBeforeFree'
    BY <1>0 DEF BeginSingles, PassPair, SaveResults, vars, PlacedBeforeFree, Placed
  <1>5. WhichPlaced'
    <2>1. CASE BeginSingles
      BY <2>1, <1>0 DEF BeginSingles, WhichPlaced, Placed, IsPair, Shape, Indices
    <2>2. CASE PassPair
      BY <2>2, <1>0 DEF PassPair, WhichPlaced, Placed, IsPair
    <2>3. CASE SaveResults
      BY <2>3, <1>0 DEF SaveResults, WhichPlaced, Placed, IsPair, Shape, Indices
    <2>4. CASE UNCHANGED vars
      BY <2>4, <1>0 DEF vars, WhichPlaced, Placed, IsPair
    <2> QED
      BY <2>1, <2>2, <2>3, <2>4
  <1> QED
    BY <1>1, <1>3, <1>4, <1>5

(* The inductive invariant of both strategies.                             *)
THEOREM OrderInvariant == Spec => []OrderInv
  <1>1. OrderInv /\ [Next]_vars => OrderInv'
    BY JointStep, PairStep, SingleStep, QuietStep DEF Next
  <1> QED
    BY <1>1, OrderInit, PTL DEF Spec

-----------------------------------------------------------------------------
(* asap_joint is as soon as possible.  That a gate meets a gate in the     *)
(* stage just before is known through list_qubit_stage again: a positive   *)
(* free[a] was set by a placed gate on a, one stage earlier.               *)

FreeReached ==
    pc = "joint" =>
       \A a \in Atoms : free[a] > 0 =>
          \E j \in Indices : Placed(j) /\ a \in gates[j] /\ stageOf[j] = free[a] - 1

TightInv == FreeReached /\ JointStagesTight

LEMMA TightInit == Init => TightInv
  <1> SUFFICES ASSUME Init PROVE TightInv
    OBVIOUS
  <1>1. \A i \in Indices : ~Placed(i)
    BY DEF Init, Start, Placed
  <1>2. \A a \in Atoms : free[a] = 0
    BY DEF Init, Start
  <1> QED
    BY <1>1, <1>2 DEF TightInv, FreeReached, JointStagesTight

LEMMA TightJointStep == OrderInv /\ TightInv /\ PlaceJoint => TightInv'
  <1> SUFFICES ASSUME OrderInv, TightInv, PlaceJoint PROVE TightInv'
    OBVIOUS
  <1> USE DEF OrderInv
  <1>0. /\ pc = "joint" /\ strategy = "joint" /\ cursor \in Indices
        /\ gates' = gates /\ Indices' = Indices /\ Place(cursor)
        /\ \A i, j : Sharing(i, j)' <=> Sharing(i, j)
    BY DEF PlaceJoint, Shape, Indices, Sharing
  <1>1. PICK stage \in 0..depth :
              /\ StageWhenFree(cursor, stage)
              /\ stageOf' = [stageOf EXCEPT ![cursor] = stage]
              /\ free' = [a \in Atoms |-> IF a \in gates[cursor] THEN stage + 1 ELSE free[a]]
    BY <1>0 DEF Place
  <1>2. /\ stage \in Nat
        /\ \A i \in Indices : Placed(i) <=> i < cursor
        /\ gates[cursor] \subseteq Atoms
    BY <1>0, GatesAreAtoms DEF Shape, WhichPlaced
  <1>3. /\ stageOf'[cursor] = stage
        /\ \A j \in Indices \ {cursor} : stageOf'[j] = stageOf[j]
        /\ \A j \in Indices : Placed(j) => j # cursor
    BY <1>0, <1>1, <1>2 DEF Shape
  <1>4. \A i \in Indices : stageOf[i] \in Nat => Placed(i)
    BY DEF Placed
  <1>5. ASSUME NEW a \in Atoms, free'[a] > 0
        PROVE  \E j \in Indices : Placed(j)' /\ a \in gates[j] /\ stageOf'[j] = free'[a] - 1
    <2>1. CASE a \in gates[cursor]
      <3>1. PICK j \in Indices : j = cursor
        BY <1>0
      <3>2. free'[a] = stage + 1 /\ stageOf'[j] = stage /\ a \in gates[j]
        BY <3>1, <2>1, <1>1, <1>3
      <3>3. Placed(j)' /\ stageOf'[j] = free'[a] - 1
        BY <3>2, <1>2 DEF Placed
      <3> QED
        BY <3>2, <3>3
    <2>2. CASE a \notin gates[cursor]
      <3>1. free'[a] = free[a]
        BY <2>2, <1>1
      <3>2. PICK j \in Indices : Placed(j) /\ a \in gates[j] /\ stageOf[j] = free[a] - 1
        BY <3>1, <1>0, <1>5 DEF TightInv, FreeReached
      <3>3. Placed(j)' /\ stageOf'[j] = stageOf[j]
        BY <3>2, <1>3 DEF Placed
      <3> QED
        BY <3>1, <3>2, <3>3
    <2> QED
      BY <2>1, <2>2
  <1>6. ASSUME NEW later \in Indices, Placed(later)', stageOf'[later] > 0
        PROVE  \E earlier \in 1..(later - 1) :
                  Sharing(earlier, later) /\ stageOf'[earlier] = stageOf'[later] - 1
    <2>1. CASE later = cursor
      <3>1. PICK a \in gates[cursor] : stage = free[a]
        BY <1>1 DEF StageWhenFree
      <3>2. PICK j \in Indices : Placed(j) /\ a \in gates[j] /\ stageOf[j] = free[a] - 1
        BY <3>1, <2>1, <1>0, <1>2, <1>3, <1>6 DEF TightInv, FreeReached
      <3>3. j \in 1..(cursor - 1)
        BY <3>2, <1>0, <1>2 DEF Indices, Shape
      <3>4. Sharing(j, cursor)
        BY <3>1, <3>2 DEF Sharing
      <3> QED
        BY <2>1, <3>1, <3>2, <3>3, <3>4, <1>3
    <2>2. CASE later # cursor
      <3>1. Placed(later) /\ stageOf'[later] = stageOf[later] /\ stageOf[later] \in Nat
        BY <2>2, <1>3, <1>6 DEF Placed, Shape
      <3>2. PICK earlier \in 1..(later - 1) :
                    Sharing(earlier, later) /\ stageOf[earlier] = stageOf[later] - 1
        BY <3>1, <1>0, <1>6 DEF TightInv, JointStagesTight
      <3>3. earlier \in Indices
        BY DEF Indices, Shape
      <3>4. stageOf[earlier] \in Nat
        BY <3>1, <3>2, <1>6
      <3> QED
        BY <3>1, <3>2, <3>3, <3>4, <1>3, <1>4
    <2> QED
      BY <2>1, <2>2
  <1>7. FreeReached'
    BY <1>0, <1>5 DEF FreeReached
  <1>8. JointStagesTight'
    BY <1>0, <1>6 DEF JointStagesTight
  <1> QED
    BY <1>7, <1>8 DEF TightInv

\* No other step runs while asap_joint places gates.
LEMMA TightOtherSteps ==
    OrderInv /\ TightInv /\ [Next]_vars /\ ~PlaceJoint => TightInv'
  <1> SUFFICES ASSUME OrderInv, TightInv, [Next]_vars, ~PlaceJoint PROVE TightInv'
    OBVIOUS
  <1>1. CASE PlacePair \/ SetSingle
    <2>1. pc' # "joint" /\ strategy' # "joint"
      BY <1>1 DEF OrderInv, Shape, PlacePair, SetSingle
    <2> QED
      BY <2>1 DEF TightInv, FreeReached, JointStagesTight
  <1>2. CASE BeginSingles \/ PassPair \/ SaveResults \/ UNCHANGED vars
    <2>1. /\ count' = count /\ gates' = gates /\ strategy' = strategy
          /\ stageOf' = stageOf /\ free' = free /\ (pc' = "joint" => pc = "joint")
          /\ Indices' = Indices
      BY <1>2 DEF BeginSingles, PassPair, SaveResults, vars, Indices
    <2> QED
      BY <2>1 DEF TightInv, FreeReached, JointStagesTight, Placed, Sharing
  <1> QED
    BY <1>1, <1>2 DEF Next

(* asap_joint never puts two gates on one atom into one stage nor against  *)
(* the order of the list, and gives each gate the earliest stage that this *)
(* leaves.                                                                 *)
THEOREM JointKeepsOrder == Spec => []JointIsAsap
  <1>1. OrderInv /\ TightInv /\ [Next]_vars => TightInv'
    BY TightJointStep, TightOtherSteps
  <1>2. OrderInv /\ TightInv => JointIsAsap
    BY DEF OrderInv, TightInv, JointIsAsap
  <1> QED
    BY <1>1, <1>2, TightInit, OrderInvariant, PTL DEF Spec

-----------------------------------------------------------------------------
(* The two-atom layers stay in order however one-atom gates are threaded   *)
(* between them.                                                           *)
THEOREM PairLayersPreserved == Spec => []PairLayersKept
  <1>1. OrderInv => PairLayersKept
    BY DEF OrderInv
  <1> QED
    BY <1>1, OrderInvariant, PTL
=============================================================================
