---------------------------- MODULE ScNormalize ----------------------------
(***************************************************************************)
(* Normalisation of a logical gate program for superconducting hardware:   *)
(* compiler/passes/sc.py and the gate IR it produces,                      *)
(* compiler/dialects/sc_gate.py.                                           *)
(*                                                                         *)
(* Every logical gate is lowered to RX, RZ, CZ, SWAP and Reset nodes.  The *)
(* builder keeps, for each qubit, the wire of the nodes on it, merges a    *)
(* rotation into the last node of its wire, drops nodes that have become   *)
(* the identity and cancels a CZ against an equal one at the end of both   *)
(* wires.  Dropped nodes leave holes that freeze closes.                   *)
(*                                                                         *)
(* Angles count eighths of a full turn.  Node and origin ids are left out. *)
(***************************************************************************)
EXTENDS Integers, Sequences, FiniteSets

LOCAL INSTANCE SequencesExt  \* Front, Last

CONSTANTS
    Qubits,
    Unbound  \* stands for an angle that is still a Parameter

FullTurn == 8

Node(op, qubits, turns) ==
    [op |-> op, qubits |-> qubits, turns |-> <<turns>>, clbits |-> <<>>]

Gone == Node("gone", <<>>, 0)

----------------------------------------------------------------------------
(* _SCBuilder.                                                             *)

EmptyBuilder == [nodes |-> <<>>, wires |-> [q \in Qubits |-> <<>>]]

\* The last node on the wire of a qubit; 0 when the wire is empty.
Top(b, q) == IF b.wires[q] = <<>> THEN 0 ELSE Last(b.wires[q])

\* Faulty variant: only the wire of the first operand is shortened.
DroppedFromOneWire(b, id) ==
    [nodes |-> [b.nodes EXCEPT ![id] = Gone],
     wires |-> [q \in Qubits |->
                  IF Top(b, q) = id /\ q = b.nodes[id].qubits[1]
                  THEN Front(b.wires[q]) ELSE b.wires[q]]]

Dropped(b, id) ==
    [nodes |-> [b.nodes EXCEPT ![id] = Gone],
     wires |-> [q \in Qubits |->
                  IF Top(b, q) = id THEN Front(b.wires[q]) ELSE b.wires[q]]]

Appended(b, node) ==
    [nodes |-> Append(b.nodes, node),
     wires |-> [q \in Qubits |->
                  IF \E k \in DOMAIN node.qubits : node.qubits[k] = q
                  THEN Append(b.wires[q], Len(b.nodes) + 1) ELSE b.wires[q]]]

\* Faulty variant: a rotation merges with a rotation about another axis.
MergesAcrossAxes(b, op, q) == Top(b, q) # 0 /\ b.nodes[Top(b, q)].op \in {"RX", "RZ"}

\* _merge_rotation: the wire ends in a rotation about the same axis.
Merges(b, op, q) == Top(b, q) # 0 /\ b.nodes[Top(b, q)].op = op

MergeInto(b, id, turns) ==
    LET sum == (b.nodes[id].turns[1] + turns) % FullTurn IN
    IF sum = 0 THEN Dropped(b, id) ELSE [b EXCEPT !.nodes[id].turns = <<sum>>]

AddRotation(b, node) ==
    LET q == node.qubits[1]
        turns == node.turns[1] % FullTurn
    IN  IF turns = 0 THEN b
        ELSE IF Merges(b, node.op, q) THEN MergeInto(b, Top(b, q), turns)
        ELSE Appended(b, Node(node.op, <<q>>, turns))

\* Faulty variant: it is enough that the CZ is the last node of one wire.
CancelsOnOneWire(b, qubits) ==
    LET id == Top(b, qubits[1]) IN
    /\ id # 0
    /\ b.nodes[id].op = "CZ"
    /\ {b.nodes[id].qubits[1], b.nodes[id].qubits[2]} = {qubits[1], qubits[2]}

\* Faulty variant: the two CZs must list their qubits in the same order.
CancelsSameOrder(b, qubits) ==
    LET id == Top(b, qubits[1]) IN
    id # 0 /\ Top(b, qubits[2]) = id /\ b.nodes[id].op = "CZ" /\ b.nodes[id].qubits = qubits

\* _cancel_adjacent_cz: both wires end in one CZ on the same two qubits.
Cancels(b, qubits) ==
    LET id == Top(b, qubits[1]) IN
    /\ id # 0
    /\ Top(b, qubits[2]) = id
    /\ b.nodes[id].op = "CZ"
    /\ {b.nodes[id].qubits[1], b.nodes[id].qubits[2]} = {qubits[1], qubits[2]}

Add(b, node) ==
    CASE node.op \in {"RX", "RZ"} -> AddRotation(b, node)
      [] node.op = "CZ" /\ Cancels(b, node.qubits) -> Dropped(b, Top(b, node.qubits[1]))
      [] OTHER -> Appended(b, node)

\* Faulty variant: wires keep the ids of the builder.
OldId(b, id) == id

\* old_to_new: the rank of a node among those that are left.
NewId(b, id) == Cardinality({k \in 1..id : b.nodes[k] # Gone})

\* freeze: close the holes and renumber the wires once.
Frozen(b) ==
    [nodes |-> SelectSeq(b.nodes, LAMBDA node : node # Gone),
     wires |-> [q \in Qubits |-> [k \in DOMAIN b.wires[q] |-> NewId(b, b.wires[q][k])]]]

----------------------------------------------------------------------------
(* _lower_gate: the nodes each logical gate asks the builder to add.       *)

RX(q, turns) == Node("RX", <<q>>, turns)
RZ(q, turns) == Node("RZ", <<q>>, turns)

LowerH(q) == <<RZ(q, 2), RX(q, 2), RZ(q, 2)>>
LowerRY(q, turns) == <<RZ(q, -2), RX(q, turns), RZ(q, 2)>>

\* Faulty variant: the rotations of U are emitted as written, not as applied.
LowerUReversed(q, theta, phi, lam) == <<RZ(q, phi)>> \o LowerRY(q, theta) \o <<RZ(q, lam)>>

LowerU(q, theta, phi, lam) == <<RZ(q, lam)>> \o LowerRY(q, theta) \o <<RZ(q, phi)>>

LowerCX(control, target) ==
    LowerH(target) \o <<Node("CZ", <<control, target>>, 0)>> \o LowerH(target)

\* _add_ccx, step by step: six CX and the phases of a Toffoli.
ToffoliSteps(a, b, t) ==
    <<[op |-> "H", qubits |-> <<t>>],
      [op |-> "CX", qubits |-> <<b, t>>], RZ(t, -1), [op |-> "CX", qubits |-> <<a, t>>], RZ(t, 1),
      [op |-> "CX", qubits |-> <<b, t>>], RZ(t, -1), [op |-> "CX", qubits |-> <<a, t>>],
      RZ(b, 1), RZ(t, 1), [op |-> "H", qubits |-> <<t>>],
      [op |-> "CX", qubits |-> <<a, b>>], RZ(a, 1), RZ(b, -1), [op |-> "CX", qubits |-> <<a, b>>]>>

LowerStep(step) ==
    CASE step.op = "H" -> LowerH(step.qubits[1])
      [] step.op = "CX" -> LowerCX(step.qubits[1], step.qubits[2])
      [] OTHER -> <<step>>

LowerCCX(qubits) == FlattenSeq([k \in 1..15 |->
                       LowerStep(ToffoliSteps(qubits[1], qubits[2], qubits[3])[k])])

Lowered(gate) ==
    LET q == gate.qubits[1]
        turns == gate.turns
    IN
    CASE gate.op \in {"RX", "RZ", "CZ", "Swap", "Measure"} -> <<gate>>
      [] gate.op = "Reset" ->
            [k \in DOMAIN gate.qubits |-> Node("Reset", <<gate.qubits[k]>>, 0)]
      [] gate.op = "I"   -> <<>>
      [] gate.op = "H"   -> LowerH(q)
      [] gate.op = "X"   -> <<RX(q, 4)>>
      [] gate.op = "Y"   -> <<RX(q, 4), RZ(q, 4)>>
      [] gate.op = "Z"   -> <<RZ(q, 4)>>
      [] gate.op = "S"   -> <<RZ(q, 2)>>
      [] gate.op = "Sdg" -> <<RZ(q, -2)>>
      [] gate.op = "T"   -> <<RZ(q, 1)>>
      [] gate.op = "Tdg" -> <<RZ(q, -1)>>
      [] gate.op = "SX"  -> <<RX(q, 2)>>
      [] gate.op = "RY"  -> LowerRY(q, turns[1])
      [] gate.op \in {"U1", "Phase"} -> <<RZ(q, turns[1])>>
      [] gate.op = "U2"  -> LowerU(q, 2, turns[1], turns[2])
      [] gate.op \in {"U", "U3"} -> LowerU(q, turns[1], turns[2], turns[3])
      [] gate.op = "CX"  -> LowerCX(q, gate.qubits[2])
      [] gate.op = "CCX" -> LowerCCX(gate.qubits)

ScGates == {"RX", "RY", "RZ", "CZ", "Swap", "Reset", "I", "H", "X", "Y", "Z", "S", "Sdg", "T",
            "Tdg", "SX", "U1", "Phase", "U2", "U", "U3", "CX", "CCX"}

\* A gate without a lowering, or an angle that is not a number yet.
ScRefuses(logical) ==
    \E k \in DOMAIN logical :
       \/ logical[k].op \notin ScGates \cup {"Measure"}
       \/ \E i \in DOMAIN logical[k].turns : logical[k].turns[i] = Unbound

\* normalize_sc_program.
ScNormalized(logical) ==
    LET nodes == FlattenSeq([k \in DOMAIN logical |-> Lowered(logical[k])])
        builder[k \in 0..Len(nodes)] ==
          IF k = 0 THEN EmptyBuilder ELSE Add(builder[k - 1], nodes[k])
    IN  Frozen(builder[Len(nodes)])

----------------------------------------------------------------------------
(* verify_sc_program.                                                      *)

Touches(node, q) == \E k \in DOMAIN node.qubits : node.qubits[k] = q

\* Each wire lists, once, exactly the nodes on its qubit; the wires together
\* order the nodes without a cycle (here: every wire agrees with the ids).
WiresCoverNodes(program) ==
    \A q \in Qubits :
       LET wire == program.wires[q] IN
       /\ \A j, k \in DOMAIN wire : j < k => wire[j] < wire[k]
       /\ {wire[k] : k \in DOMAIN wire} =
             {id \in DOMAIN program.nodes : Touches(program.nodes[id], q)}

\* Nothing follows a measurement on its qubit, another measurement included.
MeasurementsEndWires(program) ==
    \A q \in Qubits : \A k \in DOMAIN program.wires[q] :
       program.nodes[program.wires[q][k]].op = "Measure" => k = Len(program.wires[q])

ClbitsWrittenOnce(gates) ==
    \A j, k \in DOMAIN gates :
       j # k /\ gates[j].op = "Measure" /\ gates[k].op = "Measure"
          => gates[j].clbits # gates[k].clbits

ScVerifies(program) ==
    /\ WiresCoverNodes(program)
    /\ MeasurementsEndWires(program)
    /\ ClbitsWrittenOnce(program.nodes)

----------------------------------------------------------------------------
(* The Toffoli lowering needs eighths of a turn, which CliffordAction does *)
(* not cover.  Between its two H it is CX and RZ only, so it is determined *)
(* by the phase that each parity of the inputs gets.                       *)

Phases(steps, wires) ==
    LET run[k \in 0..Len(steps)] ==
          IF k = 0 THEN [parity |-> [w \in wires |-> {w}], phase |-> [S \in SUBSET wires |-> 0]]
          ELSE LET before == run[k - 1]
                   q == steps[k].qubits[1]
                   parity == before.parity
               IN  IF steps[k].op = "RZ"
                   THEN [before EXCEPT !.phase[parity[q]] = (@ + steps[k].turns[1]) % FullTurn]
                   ELSE IF steps[k].op = "CX"
                   THEN [before EXCEPT !.parity[steps[k].qubits[2]] =
                            (@ \ parity[q]) \cup (parity[q] \ @)]
                   ELSE before
    IN  run[Len(steps)]

\* A doubly controlled Z gives odd parities an eighth, even ones minus one.
ToffoliIsDoublyControlled ==
    LET wires == {"a", "b", "t"}
        result == Phases(ToffoliSteps("a", "b", "t"), wires)
    IN  /\ result.parity = [w \in wires |-> {w}]
        /\ \A S \in SUBSET wires \ {{}} :
              result.phase[S] = IF Cardinality(S) = 2 THEN FullTurn - 1 ELSE 1
=============================================================================
