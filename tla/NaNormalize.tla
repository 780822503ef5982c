---------------------------- MODULE NaNormalize ----------------------------
(***************************************************************************)
(* Normalisation of a logical gate program for neutral atoms:              *)
(* compiler/passes/na.py and the gate IR it produces,                      *)
(* compiler/dialects/na_gate.py.  The gates are RX, RY, RZ and CZ, emitted *)
(* in source order; nothing is merged.                                     *)
(***************************************************************************)
EXTENDS Integers, Sequences, FiniteSets

LOCAL INSTANCE SequencesExt  \* FlattenSeq

CONSTANT Unbound  \* stands for an angle that is still a Parameter

Rotation(axis, atom, turns) ==
    [op |-> axis, qubits |-> <<atom>>, turns |-> <<turns>>, clbits |-> <<>>]

ControlPhase(a, b) == [op |-> "CZ", qubits |-> <<a, b>>, turns |-> <<0>>, clbits |-> <<>>]

\* Faulty variant: the half turn comes after the quarter turn.
AddHReversed(atom) == <<Rotation("RY", atom, 2), Rotation("RZ", atom, 4)>>

AddH(atom) == <<Rotation("RZ", atom, 4), Rotation("RY", atom, 2)>>

AddU(atom, theta, phi, lam) ==
    <<Rotation("RZ", atom, lam), Rotation("RY", atom, theta), Rotation("RZ", atom, phi)>>

AddCX(control, target) == AddH(target) \o <<ControlPhase(control, target)>> \o AddH(target)

\* _lower_gate and, for a measurement, add_measure.
NaLowered(gate) ==
    LET a == gate.qubits[1]
        turns == gate.turns
    IN
    CASE gate.op \in {"RX", "RY", "RZ", "CZ", "Measure"} -> <<gate>>
      [] gate.op = "I"   -> <<>>
      [] gate.op = "H"   -> AddH(a)
      [] gate.op = "X"   -> <<Rotation("RX", a, 4)>>
      [] gate.op = "Y"   -> <<Rotation("RY", a, 4)>>
      [] gate.op = "Z"   -> <<Rotation("RZ", a, 4)>>
      [] gate.op = "S"   -> <<Rotation("RZ", a, 2)>>
      [] gate.op = "Sdg" -> <<Rotation("RZ", a, -2)>>
      [] gate.op = "T"   -> <<Rotation("RZ", a, 1)>>
      [] gate.op = "Tdg" -> <<Rotation("RZ", a, -1)>>
      [] gate.op \in {"U1", "Phase"} -> <<Rotation("RZ", a, turns[1])>>
      [] gate.op = "U2"  -> AddU(a, 2, turns[1], turns[2])
      [] gate.op \in {"U", "U3"} -> AddU(a, turns[1], turns[2], turns[3])
      [] gate.op = "CX"  -> AddCX(a, gate.qubits[2])
      [] gate.op = "Swap" ->
            AddCX(a, gate.qubits[2]) \o AddCX(gate.qubits[2], a) \o AddCX(a, gate.qubits[2])

\* No Reset, no SX and no Toffoli for atoms.
NaGates == {"RX", "RY", "RZ", "CZ", "I", "H", "X", "Y", "Z", "S", "Sdg", "T", "Tdg", "U1",
            "Phase", "U2", "U", "U3", "CX", "Swap"}

\* normalize_na_program refuses what it cannot lower, and a gate that
\* follows a measurement.
NaRefuses(logical) ==
    \/ \E k \in DOMAIN logical : logical[k].op \notin NaGates \cup {"Measure"}
    \/ \E j, k \in DOMAIN logical :
          j < k /\ logical[j].op = "Measure" /\ logical[k].op # "Measure"

NaNormalized(logical) == FlattenSeq([k \in DOMAIN logical |-> NaLowered(logical[k])])

\* verify_na_program: measurements last, a clbit written once, angles that
\* are numbers.  Angles are checked here and not by the pass.
NaVerifies(program) ==
    /\ \A j, k \in DOMAIN program :
          j < k /\ program[j].op = "Measure" =>
             program[k].op = "Measure" /\ program[k].clbits # program[j].clbits
    /\ \A k \in DOMAIN program :
          program[k].op \in {"RX", "RY", "RZ"} => program[k].turns[1] # Unbound
=============================================================================
