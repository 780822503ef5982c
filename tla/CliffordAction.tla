--------------------------- MODULE CliffordAction ---------------------------
(***************************************************************************)
(* What a gate does, as the reference the compiler's lowerings are checked *)
(* against: conjugation of Pauli strings, which determines a gate up to a  *)
(* global phase.  Angles count eighths of a full turn; the rules are for   *)
(* even counts, with which every gate is a Clifford gate.  Each rule is    *)
(* the textbook one for its gate.  The standard matrices are those of      *)
(* operations/fixed_gates.py and operations/parametric_gates.py.           *)
(***************************************************************************)
EXTENDS Integers, Sequences

CONSTANT Wires  \* everything a Pauli string acts on

\* A string of X (in x), Z (in z) and Y (in both), with a sign.
Pauli == [x : SUBSET Wires, z : SUBSET Wires, minus : BOOLEAN]

XOf(q) == [x |-> {q}, z |-> {}, minus |-> FALSE]
ZOf(q) == [x |-> {}, z |-> {q}, minus |-> FALSE]

Generators == {XOf(q) : q \in Wires} \cup {ZOf(q) : q \in Wires}

Toggle(S, q) == IF q \in S THEN S \ {q} ELSE S \cup {q}
ToggleIf(b, S, q) == IF b THEN Toggle(S, q) ELSE S
Negate(p, b) == [p EXCEPT !.minus = (@ # b)]

\* Quarter turns: Z takes X to Y, X takes Y to Z, Y takes Z to X.
QuarterZ(p, q) ==
    Negate([p EXCEPT !.z = ToggleIf(q \in p.x, @, q)], q \in p.x /\ q \in p.z)
QuarterX(p, q) ==
    Negate([p EXCEPT !.x = ToggleIf(q \in p.z, @, q)], q \in p.z /\ q \notin p.x)
QuarterY(p, q) ==
    IF (q \in p.x) = (q \in p.z) THEN p
    ELSE Negate([p EXCEPT !.x = Toggle(@, q), !.z = Toggle(@, q)], q \in p.x)

Rotate(p, axis, q, turns) ==
    LET turn[k \in 0..3] ==
          IF k = 0 THEN p
          ELSE IF axis = "RX" THEN QuarterX(turn[k - 1], q)
          ELSE IF axis = "RY" THEN QuarterY(turn[k - 1], q)
          ELSE QuarterZ(turn[k - 1], q)
    IN  turn[(turns \div 2) % 4]

Hadamard(p, q) ==
    Negate([p EXCEPT !.x = ToggleIf((q \in p.x) # (q \in p.z), @, q),
                     !.z = ToggleIf((q \in p.x) # (q \in p.z), @, q)],
           q \in p.x /\ q \in p.z)

\* X, Y and Z change the sign of the Paulis they do not commute with.
Flip(p, name, q) ==
    Negate(p, CASE name = "X" -> q \in p.z
                [] name = "Y" -> (q \in p.x) # (q \in p.z)
                [] name = "Z" -> q \in p.x)

ControlledZ(p, a, b) ==
    Negate([p EXCEPT !.z = ToggleIf(a \in p.x, ToggleIf(b \in p.x, @, a), b)],
           a \in p.x /\ b \in p.x /\ ((a \in p.z) # (b \in p.z)))

ControlledX(p, control, target) ==
    Negate([p EXCEPT !.x = ToggleIf(control \in p.x, @, target),
                     !.z = ToggleIf(target \in p.z, @, control)],
           /\ control \in p.x /\ target \in p.z
           /\ (target \in p.x) = (control \in p.z))

Renamed(S, a, b) ==
    {IF q = a THEN b ELSE IF q = b THEN a ELSE q : q \in S}

Exchange(p, a, b) == [p EXCEPT !.x = Renamed(@, a, b), !.z = Renamed(@, a, b)]

(* U(theta, phi, lambda) is, by definition, a Z, a Y and a Z rotation.     *)
Euler(p, q, turns) ==
    Rotate(Rotate(Rotate(p, "RZ", q, turns[3]), "RY", q, turns[1]), "RZ", q, turns[2])

\* The two phases of iSwap come before the exchange.
ExchangeWithPhase(p, a, b) ==
    Exchange(ControlledZ(QuarterZ(QuarterZ(p, a), b), a, b), a, b)

(* Gates of the qudit families on two levels.  A rotation of the subspace  *)
(* (1, 0) is the one of (0, 1) with the two levels exchanged.              *)
Mirrored(p, axis, q, turns) == Flip(Rotate(Flip(p, "X", q), axis, q, turns), "X", q)

ZRotations == {"RZ", "Phase", "U1"}

\* A reset of several qubits, one after the other.
Renewed(p, qubits, fresh) ==
    LET image[k \in 0..Len(qubits)] ==
          IF k = 0 THEN p ELSE Exchange(image[k - 1], qubits[k], fresh)
    IN  image[Len(qubits)]

(* The image of p under a gate.  A reset exchanges its qubit with a fresh  *)
(* one; a measurement copies its qubit onto the wire of a classical bit.   *)
Conjugate(p, gate, fresh) ==
    LET q == gate.qubits[1]
        r == gate.qubits[Len(gate.qubits)]
    IN
    CASE gate.op \in {"RX", "RY"} -> Rotate(p, gate.op, q, gate.turns[1])
      [] gate.op \in ZRotations -> Rotate(p, "RZ", q, gate.turns[1])
      [] gate.op \in {"X", "Y", "Z"} -> Flip(p, gate.op, q)
      [] gate.op \in {"I", "Barrier"} -> p
      [] gate.op = "H" -> Hadamard(p, q)
      [] gate.op = "S" -> QuarterZ(p, q)
      [] gate.op = "Sdg" -> Negate(QuarterZ(p, q), q \in p.x)
      [] gate.op = "SX" -> QuarterX(p, q)
      [] gate.op \in {"U", "U3"} -> Euler(p, q, gate.turns)
      [] gate.op = "U2" -> Euler(p, q, <<2>> \o gate.turns)
      [] gate.op = "CZ" -> ControlledZ(p, q, r)
      [] gate.op = "CX" -> ControlledX(p, q, r)
      [] gate.op = "CY" -> Rotate(ControlledX(Rotate(p, "RZ", r, -2), q, r), "RZ", r, 2)
      [] gate.op = "Swap" -> Exchange(p, q, r)
      [] gate.op = "iSwap" -> ExchangeWithPhase(p, q, r)
      [] gate.op = "SubspaceRY10" -> Mirrored(p, "RY", q, gate.turns[1])
      [] gate.op = "SubspaceRZ10" -> Mirrored(p, "RZ", q, gate.turns[1])
      [] gate.op = "Clock" -> IF gate.turns[1] % 2 = 1 THEN Flip(p, "Z", q) ELSE p
      [] gate.op = "CClock" -> IF gate.turns[1] % 2 = 1 THEN ControlledZ(p, q, r) ELSE p
      [] gate.op = "Reset" -> Renewed(p, gate.qubits, fresh)
      [] gate.op = "Measure" -> ControlledX(p, q, gate.clbits[1])

\* What a sequence of gates does to a Pauli string.
Behaviour(gates, p, fresh) ==
    LET image[k \in 0..Len(gates)] ==
          IF k = 0 THEN p ELSE Conjugate(image[k - 1], gates[k], fresh)
    IN  image[Len(gates)]
=============================================================================

