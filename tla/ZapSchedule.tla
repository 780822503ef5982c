---------------------------- MODULE ZapSchedule ----------------------------
(***************************************************************************)
(* The stage scheduler of the zoned neutral-atom compiler:                 *)
(* compiler/algorithms/zap/scheduler.py.                                   *)
(*                                                                         *)
(* A flat list of one- and two-atom gates is cut into stages; the router   *)
(* moves atoms between stages and fires a whole stage at once.  asap_joint *)
(* places every gate in one loop.  asap_separate places the two-atom gates *)
(* first and then threads the one-atom gates between them, opening a stage *)
(* of their own where it has to.  One loop iteration is one step.          *)
(*                                                                         *)
(* list_scheduling is kept as the stage of each gate: inside a stage gates *)
(* always stand in list order, because every loop runs in list order.      *)
(***************************************************************************)
EXTENDS Integers

CONSTANTS
    Atoms,     \* dense atom numbers
    MaxGates,  \* bound on the length of the gate list
    Unplaced   \* not in list_scheduling

ASSUME SchedulerAssumption ==
    /\ MaxGates \in Nat
    /\ Unplaced \notin Int

VARIABLES
    count,     \* length of g_q
    gates,     \* g_q: the atoms of each gate
    strategy,  \* asap_joint or asap_separate
    pc,        \* the running loop
    cursor,    \* its index
    stageOf,   \* the stage of each gate in list_scheduling
    depth,     \* len(list_scheduling)
    free,      \* list_qubit_stage
    last,      \* prev_2q_stage, -1 where the code has no entry
    types,     \* results_code["stages"]: type of each stage
    status     \* results_code["stages"]["qs_status"]

vars == <<count, gates, strategy, pc, cursor, stageOf, depth, free, last, types, status>>

Indices == 1..count

Gate == {atoms \in SUBSET Atoms : \E a, b \in Atoms : atoms = {a, b}}

IsPair(i) == \E a, b \in gates[i] : a # b

Placed(i) == stageOf[i] # Unplaced

StageGates(s) == {i \in Indices : stageOf[i] = s}

Greater(m, n) == IF m >= n THEN m ELSE n

\* A new Scheduler on its gate list.
Start ==
    /\ pc = IF strategy = "joint" THEN "joint" ELSE "pairs"
    /\ cursor = 1
    /\ stageOf = [i \in Indices |-> Unplaced]
    /\ depth = 0
    /\ free = [a \in Atoms |-> 0]
    /\ last = [a \in Atoms |-> -1]
    /\ types = <<>> /\ status = <<>>

Init ==
    /\ count \in 0..MaxGates
    /\ gates \in [Indices -> Gate]
    /\ strategy \in {"joint", "separate"}
    /\ Start

----------------------------------------------------------------------------
(* asap_joint, and the first loop of asap_separate.                        *)

\* Faulty variant: every gate opens a stage of its own.
StageOfItsOwn(i, stage) == stage = depth

\* Faulty variant: the first stage at which some atom of the gate is free.
StageWhenOneFree(i, stage) == \E a \in gates[i] : stage = free[a]

\* The first stage at which all atoms of the gate are free.
StageWhenFree(i, stage) ==
    /\ \E a \in gates[i] : stage = free[a]
    /\ \A a \in gates[i] : free[a] <= stage

\* Faulty variant: the atoms are free again in the stage they are used in.
PlaceWithoutAdvance(i) ==
    \E stage \in 0..depth :
       /\ StageWhenFree(i, stage)
       /\ stageOf' = [stageOf EXCEPT ![i] = stage]
       /\ depth' = Greater(depth, stage + 1)
       /\ free' = [a \in Atoms |-> IF a \in gates[i] THEN stage ELSE free[a]]

\* Faulty variant: the atoms stay blocked for one stage too long.
PlaceAdvancingTwice(i) ==
    \E stage \in 0..depth :
       /\ StageWhenFree(i, stage)
       /\ stageOf' = [stageOf EXCEPT ![i] = stage]
       /\ depth' = Greater(depth, stage + 1)
       /\ free' = [a \in Atoms |-> IF a \in gates[i] THEN stage + 2 ELSE free[a]]

Place(i) ==
    \E stage \in 0..depth :
       /\ StageWhenFree(i, stage)
       /\ stageOf' = [stageOf EXCEPT ![i] = stage]
       /\ depth' = Greater(depth, stage + 1)
       /\ free' = [a \in Atoms |-> IF a \in gates[i] THEN stage + 1 ELSE free[a]]

PlaceJoint ==
    /\ pc = "joint" /\ cursor <= count
    /\ Place(cursor)
    /\ cursor' = cursor + 1
    /\ UNCHANGED <<count, gates, strategy, pc, last, types, status>>

PlacePair ==
    /\ pc = "pairs" /\ cursor <= count
    /\ IF IsPair(cursor) THEN Place(cursor) ELSE UNCHANGED <<stageOf, depth, free>>
    /\ cursor' = cursor + 1
    /\ UNCHANGED <<count, gates, strategy, pc, last, types, status>>

BeginSingles ==
    /\ pc = "pairs" /\ cursor > count
    /\ pc' = "singles"
    /\ cursor' = 1
    /\ UNCHANGED <<count, gates, strategy, stageOf, depth, free, last, types, status>>

----------------------------------------------------------------------------
(* The second loop of asap_separate.                                       *)

\* A placed gate is a pair: its atoms remember the stage it has now.
PassPair ==
    /\ pc = "singles" /\ cursor <= count
    /\ Placed(cursor)
    /\ last' = [a \in Atoms |-> IF a \in gates[cursor] THEN stageOf[cursor] ELSE last[a]]
    /\ cursor' = cursor + 1
    /\ UNCHANGED <<count, gates, strategy, pc, stageOf, depth, free, types, status>>

HoldsPair(stage) == \E i \in StageGates(stage) : IsPair(i)

\* Faulty variant: the stages behind the new one are not moved back.
SetSingleOverwriting ==
    /\ pc = "singles" /\ cursor <= count
    /\ ~Placed(cursor)
    /\ \E a \in gates[cursor] :
          LET stage == last[a] + 1 IN
             IF HoldsPair(stage)
             THEN /\ stageOf' = [i \in Indices |->
                        IF i = cursor THEN stage
                        ELSE IF stageOf[i] = stage THEN stage + 1 ELSE stageOf[i]]
                  /\ depth' = depth + 1
             ELSE /\ stageOf' = [stageOf EXCEPT ![cursor] = stage]
                  /\ depth' = Greater(depth, stage + 1)
    /\ cursor' = cursor + 1
    /\ UNCHANGED <<count, gates, strategy, pc, free, last, types, status>>

\* A one-atom gate goes behind the last pair of its atom.  A stage of pairs
\* is not joined: a new stage is inserted before it, and "last" is not moved.
SetSingle ==
    /\ pc = "singles" /\ cursor <= count
    /\ ~Placed(cursor)
    /\ \E a \in gates[cursor] :
          LET stage == last[a] + 1 IN
             IF HoldsPair(stage)
             THEN /\ stageOf' = [i \in Indices |->
                        IF i = cursor THEN stage
                        ELSE IF Placed(i) /\ stageOf[i] >= stage THEN stageOf[i] + 1
                        ELSE stageOf[i]]
                  /\ depth' = depth + 1
             ELSE /\ stageOf' = [stageOf EXCEPT ![cursor] = stage]
                  /\ depth' = Greater(depth, stage + 1)
    /\ cursor' = cursor + 1
    /\ UNCHANGED <<count, gates, strategy, pc, free, last, types, status>>

----------------------------------------------------------------------------
(* save_results.                                                           *)

TypeOfStage(s) ==
    IF \A i \in StageGates(s) : ~IsPair(i) THEN "1qGate"
    ELSE IF \A i \in StageGates(s) : IsPair(i) THEN "2qGate"
    ELSE "mGate"

\* The last gate of the stage that uses the atom writes its cell.
StatusOf(a, s) ==
    LET users == {i \in StageGates(s) : a \in gates[i]}
    IN  IF users = {} THEN "None"
        ELSE IF \E i \in users : IsPair(i) /\ \A j \in users : j <= i
             THEN "2qGate" ELSE "1qGate"

SaveResults ==
    /\ pc \in {"joint", "singles"} /\ cursor > count
    /\ types' = [s \in 0..(depth - 1) |-> TypeOfStage(s)]
    /\ status' = [a \in Atoms |-> [s \in 0..(depth - 1) |-> StatusOf(a, s)]]
    /\ pc' = "done"
    /\ UNCHANGED <<count, gates, strategy, cursor, stageOf, depth, free, last>>

Next ==
    \/ PlaceJoint \/ PlacePair \/ BeginSingles
    \/ PassPair \/ SetSingle \/ SaveResults

Spec == Init /\ [][Next]_vars

----------------------------------------------------------------------------
(* Properties.                                                             *)

TypeOK ==
    /\ count \in 0..MaxGates
    /\ gates \in [Indices -> Gate]
    /\ strategy \in {"joint", "separate"}
    /\ pc \in {"joint", "pairs", "singles", "done"}
    /\ strategy = "joint" => pc \in {"joint", "done"}
    /\ cursor \in 1..(count + 1)
    /\ depth \in Nat
    /\ stageOf \in [Indices -> (0..(depth - 1)) \cup {Unplaced}]
    /\ free \in [Atoms -> 0..depth]
    /\ last \in [Atoms -> Int]

Sharing(i, j) == gates[i] \cap gates[j] # {}

(* The router fires a stage in one batch and verify_zoned_plan refuses an  *)
(* atom that takes part twice: under asap_joint two gates on one atom are  *)
(* in different stages, in list order (scheduler.py:34-46).                *)
JointStagesInOrder ==
    strategy = "joint" =>
       \A later \in Indices : \A earlier \in 1..(later - 1) :
          Sharing(earlier, later) /\ Placed(later) =>
             Placed(earlier) /\ stageOf[earlier] < stageOf[later]

(* asap_joint is as soon as possible: a gate not in the first stage has a  *)
(* gate on one of its atoms in the stage just before (scheduler.py:35).    *)
JointStagesTight ==
    strategy = "joint" =>
       \A later \in Indices : Placed(later) /\ stageOf[later] > 0 =>
          \E earlier \in 1..(later - 1) :
             Sharing(earlier, later) /\ stageOf[earlier] = stageOf[later] - 1

(* Stages of asap_joint are in order and as early as that order allows.    *)
JointIsAsap == JointStagesInOrder /\ JointStagesTight

(* Inserting stages for one-atom gates never disturbs the two-atom layers: *)
(* pairs on one atom stay in list order and in different stages            *)
(* (scheduler.py:49, "Schedule 2q layers first").                          *)
PairLayersKept ==
    \A later \in Indices : \A earlier \in 1..(later - 1) :
       (IsPair(earlier) /\ IsPair(later) /\ Sharing(earlier, later) /\ Placed(later)) =>
          Placed(earlier) /\ stageOf[earlier] < stageOf[later]
=============================================================================
