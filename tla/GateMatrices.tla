---------------------------- MODULE GateMatrices ----------------------------
(***************************************************************************)
(* The built-in gates: implementation/matrices.py, the registry that wraps *)
(* them and the compiled formulas of a sweep.                              *)
(*                                                                         *)
(* Matrices come first: what numpy computes for the simulator, in exact    *)
(* arithmetic.  A complex number is a pair of integers and a matrix a      *)
(* sequence of rows.                                                       *)
(*                                                                         *)
(* An operation is [name, args]; an angle counts quarter turns (pi/2), and *)
(* the dimensions of the targets are 2 or 4, whose roots of unity are      *)
(* powers of the imaginary unit.  A matrix is known up to a positive scale *)
(* (the 1/sqrt(2) of a Hadamard gate, the denominator of a channel's       *)
(* probabilities).                                                         *)
(***************************************************************************)
EXTENDS Integers, Sequences, FiniteSets

Zero == <<0, 0>>
One == <<1, 0>>
Real(n) == <<n, 0>>
\* The powers of the imaginary unit.
Unit(k) == <<One, <<0, 1>>, <<-1, 0>>, <<0, -1>>>>[(k % 4) + 1]

Plus(a, b) == <<a[1] + b[1], a[2] + b[2]>>
Times(a, b) == <<a[1] * b[1] - a[2] * b[2], a[1] * b[2] + a[2] * b[1]>>
Conj(a) == <<a[1], 0 - a[2]>>
Norm2(a) == a[1] * a[1] + a[2] * a[2]

\* The same sequence, with its elements computed.
Tabulated(s) == SubSeq(s, 1, Len(s))

\* The sum of the complex numbers Term(1), ..., Term(n), and of the integers.
SumOf(n, Term(_)) ==
    LET upTo[k \in 0..n] == IF k = 0 THEN Zero ELSE Plus(upTo[k - 1], Term(k)) IN upTo[n]
Total(n, Term(_)) ==
    LET upTo[k \in 0..n] == IF k = 0 THEN 0 ELSE upTo[k - 1] + Term(k) IN upTo[n]
Product(s) == LET upTo[k \in 0..Len(s)] == IF k = 0 THEN 1 ELSE upTo[k - 1] * s[k] IN upTo[Len(s)]

\* The square matrix with Entry(row, column), both counted from 0.
MatrixOf(d, Entry(_, _)) ==
    Tabulated([r \in 1..d |-> Tabulated([c \in 1..d |-> Entry(r - 1, c - 1)])])

At(m, row, column) == m[row + 1][column + 1]
Side(m) == Len(m)
Identity(d) == MatrixOf(d, LAMBDA r, c: IF r = c THEN One ELSE Zero)
Diagonal(s) == MatrixOf(Len(s), LAMBDA r, c: IF r = c THEN s[r + 1] ELSE Zero)
Scaled(z, m) == MatrixOf(Side(m), LAMBDA r, c: Times(z, At(m, r, c)))
Sum2(a, b) == MatrixOf(Side(a), LAMBDA r, c: Plus(At(a, r, c), At(b, r, c)))
MatMul(a, b) ==
    MatrixOf(Side(a), LAMBDA r, c: SumOf(Side(a), LAMBDA k: Times(a[r + 1][k], b[k][c + 1])))
Dagger(m) == MatrixOf(Side(m), LAMBDA r, c: Conj(At(m, c, r)))
ConjMatrix(m) == MatrixOf(Side(m), LAMBDA r, c: Conj(At(m, r, c)))
Kron(a, b) ==
    MatrixOf(Side(a) * Side(b),
             LAMBDA r, c: Times(At(a, r \div Side(b), c \div Side(b)),
                                At(b, r % Side(b), c % Side(b))))
Apply(m, v) == Tabulated([r \in 1..Len(v) |-> SumOf(Len(v), LAMBDA k: Times(m[r][k], v[k]))])

IsDiagonal(m) == \A r, c \in 1..Len(m) : r # c => m[r][c] = Zero
NonZeros(m) == Cardinality({p \in (1..Len(m)) \X (1..Len(m)) : m[p[1]][p[2]] # Zero})

-----------------------------------------------------------------------------
(* Subsystems: of a state over dims the first is the most significant.     *)

Stride(dims, q) == Product(SubSeq(dims, q + 1, Len(dims)))
Digit(index, dims, q) == (index \div Stride(dims, q)) % dims[q]
\* The digits of an index on the targets, as an index of their own.
Local(index, dims, targets) ==
    LET upTo[k \in 0..Len(targets)] ==
          IF k = 0 THEN 0 ELSE upTo[k - 1] * dims[targets[k]] + Digit(index, dims, targets[k])
    IN  upTo[Len(targets)]
TargetDims(dims, targets) == [k \in DOMAIN targets |-> dims[targets[k]]]
\* The index with the digits of its targets replaced by those of local.
Placed(index, dims, targets, local) ==
    LET inner == TargetDims(dims, targets)
    IN  index + Total(Len(targets),
                      LAMBDA k: (Digit(local, inner, k) - Digit(index, dims, targets[k]))
                                * Stride(dims, targets[k]))

\* A matrix on some subsystems as a matrix on all of them: the reference.
Embedded(m, targets, dims) ==
    MatrixOf(Product(dims),
             LAMBDA r, c: IF r = Placed(c, dims, targets, Local(r, dims, targets))
                          THEN At(m, Local(r, dims, targets), Local(c, dims, targets))
                          ELSE Zero)

-----------------------------------------------------------------------------
(* The gates.                                                              *)

\* cos and sin of half the angle, times sqrt(2) when the angle is odd.
HalfCos(x) == <<1, 1, 0, -1, -1, -1, 0, 1>>[(x % 8) + 1]
HalfSin(x) == HalfCos(x - 2)

\* The constants _X ... _CSWAP.
Swapped(d, j, k) ==
    MatrixOf(d, LAMBDA r, c: IF c = (CASE r = j -> k [] r = k -> j [] OTHER -> r)
                             THEN One ELSE Zero)
FixedMatrix(name) ==
    LET i == Unit(1)
    IN  CASE name = "I" -> Identity(2)
          [] name = "X" -> Swapped(2, 0, 1)
          [] name = "Y" -> << <<Zero, Unit(3)>>, <<i, Zero>> >>
          [] name = "Z" -> Diagonal(<<One, Unit(2)>>)
          [] name = "H" -> << <<One, One>>, <<One, Unit(2)>> >>
          [] name = "S" -> Diagonal(<<One, i>>)
          [] name = "Sdg" -> Diagonal(<<One, Unit(3)>>)
          [] name = "SX" -> << << <<1, 1>>, <<1, -1>> >>, << <<1, -1>>, <<1, 1>> >> >>
          [] name = "CX" -> Swapped(4, 2, 3)
          [] name = "CZ" -> Diagonal(<<One, One, One, Unit(2)>>)
          [] name = "CY" -> << <<One, Zero, Zero, Zero>>, <<Zero, One, Zero, Zero>>,
                               <<Zero, Zero, Zero, Unit(3)>>, <<Zero, Zero, i, Zero>> >>
          [] name = "CS" -> Diagonal(<<One, One, One, i>>)
          [] name = "Swap" -> Swapped(4, 1, 2)
          [] name = "iSwap" -> << <<One, Zero, Zero, Zero>>, <<Zero, Zero, i, Zero>>,
                                  <<Zero, i, Zero, Zero>>, <<Zero, Zero, Zero, One>> >>
          [] name = "CCX" -> Swapped(8, 6, 7)
          [] name = "CSwap" -> Swapped(8, 5, 6)
FixedNames == {"I", "X", "Y", "Z", "H", "S", "Sdg", "SX", "CX", "CZ", "CY", "CS", "Swap",
               "iSwap", "CCX", "CSwap"}

\* subspace_rx_matrix ... subspace_rz_matrix, and _rx ... _rz on the levels 0 and 1.
Rotation(axis, d, j, k, x) ==
    LET c == Real(HalfCos(x))
        s == Real(HalfSin(x))
        inner(r, col) ==
          CASE axis = "x" -> IF r = col THEN c ELSE Times(Unit(3), s)
            [] axis = "y" -> IF r = col THEN c ELSE IF r = j THEN Times(Real(-1), s) ELSE s
            [] axis = "z" -> IF r # col THEN Zero ELSE Unit((IF r = j THEN -x ELSE x) \div 2)
    IN  MatrixOf(d, LAMBDA r, col: IF {r, col} \subseteq {j, k} THEN inner(r, col)
                                   ELSE IF r = col THEN One ELSE Zero)

PhaseMatrix(x) == Diagonal(<<One, Unit(x)>>)
CPhaseMatrix(x) == Diagonal(<<One, One, One, Unit(x)>>)
UMatrix(theta, phi, lam) ==
    LET c == Real(HalfCos(theta))
        s == Real(HalfSin(theta))
    IN  << <<c, Times(Real(-1), Times(Unit(lam), s))>>,
           <<Times(Unit(phi), s), Times(Unit(phi + lam), c)>> >>

\* The rules of the parametric gates.
AngleMatrix(op, dims) ==
    LET a == op.args
    IN  CASE op.name = "RX" -> Rotation("x", 2, 0, 1, a[1])
          [] op.name = "RY" -> Rotation("y", 2, 0, 1, a[1])
          [] op.name = "RZ" -> Rotation("z", 2, 0, 1, a[1])
          [] op.name = "Phase" -> PhaseMatrix(a[1])
          [] op.name = "U" -> UMatrix(a[1], a[2], a[3])
          [] op.name = "U1" -> PhaseMatrix(a[1])
          [] op.name = "U2" -> UMatrix(1, a[1], a[2])
          [] op.name = "U3" -> UMatrix(a[1], a[2], a[3])
          [] op.name = "CPhase" -> CPhaseMatrix(a[1])
          [] op.name = "SubspaceRX" -> Rotation("x", dims[1], a[2], a[3], a[1])
          [] op.name = "SubspaceRY" -> Rotation("y", dims[1], a[2], a[3], a[1])
          [] op.name = "SubspaceRZ" -> Rotation("z", dims[1], a[2], a[3], a[1])
AngleNames == {"RX", "RY", "RZ", "Phase", "U", "U1", "U2", "U3", "CPhase", "SubspaceRX",
               "SubspaceRY", "SubspaceRZ"}

\* The k-th power of the d-th root of unity.
Root(d, k) == Unit((4 \div d) * k)
ShiftMatrix(d, power) == MatrixOf(d, LAMBDA r, c: IF r = (c + power) % d THEN One ELSE Zero)
ClockMatrix(d, power) == MatrixOf(d, LAMBDA r, c: IF r = c THEN Root(d, r * power) ELSE Zero)
FourierMatrix(d) == MatrixOf(d, LAMBDA r, c: Root(d, r * c))

\* The rules of the gates on qudits.
QuditMatrix(op, dims) ==
    LET d == dims[1]
    IN  CASE op.name = "Shift" -> ShiftMatrix(d, op.args[1])
          [] op.name = "Clock" -> ClockMatrix(d, op.args[1])
          [] op.name = "Sum" ->
               MatrixOf(d * d, LAMBDA r, c: IF r = (c \div d) * d + (((c \div d) + c) % d)
                                            THEN One ELSE Zero)
          [] op.name = "SwapLevels" -> Swapped(d, op.args[1], op.args[2])
          [] op.name = "Fourier" -> FourierMatrix(d)
          [] op.name = "InverseFourier" -> Dagger(FourierMatrix(d))
          [] op.name = "CClock" ->
               MatrixOf(d * dims[2],
                        LAMBDA r, c: IF r # c THEN Zero
                                     ELSE Root(dims[2], (r \div dims[2]) * r * op.args[1]))
          [] op.name = "PhaseShifter" ->
               MatrixOf(d, LAMBDA r, c: IF r = c THEN Unit(op.args[1] * r) ELSE Zero)

\* default_matrix_implementation_map: the rule a built-in operation class has.
BuiltinMatrix(op, dims) ==
    CASE op.name \in FixedNames -> FixedMatrix(op.name)
      [] op.name \in AngleNames -> AngleMatrix(op, dims)
      [] OTHER -> QuditMatrix(op, dims)

-----------------------------------------------------------------------------
(* A sweep: some fields of an operation are columns, one value per row.    *)

\* _KERNEL_SPECS: what the engine declares of a built-in kernel without a scan.
DeclaredDense == {"H", "SX", "RX", "RY", "U", "U2", "U3", "Fourier", "InverseFourier",
                  "SubspaceRX", "SubspaceRY"}

\* _FORMULAS and _fill_parametric_matrix: the compiled formula of a gate, written
\* over the matrix of zeros it is given, its constant fields taken from the operation.
FilledMatrix(op, d) ==
    LET a0 == op.args[1]
    IN  CASE op.name = "Phase" -> PhaseMatrix(a0)
          [] op.name = "U1" -> PhaseMatrix(a0)
          [] op.name = "CPhase" -> CPhaseMatrix(a0)
          [] op.name \in {"U", "U3"} -> UMatrix(a0, op.args[2], op.args[3])
          [] op.name = "U2" -> UMatrix(1, a0, op.args[2])
          [] op.name = "RX" -> Rotation("x", d, 0, 1, a0)
          [] op.name = "RY" -> Rotation("y", d, 0, 1, a0)
          [] op.name = "RZ" -> Rotation("z", d, 0, 1, a0)
          [] op.name = "SubspaceRX" -> Rotation("x", d, op.args[2], op.args[3], a0)
          [] op.name = "SubspaceRY" -> Rotation("y", d, op.args[2], op.args[3], a0)
          [] op.name = "SubspaceRZ" -> Rotation("z", d, op.args[2], op.args[3], a0)

\* The batched builders: the stack of matrices of the rows, each field a column or
\* the constant of the operation, broadcast over the rows.
MatrixStack(op, columns, rows, dims) ==
    [row \in 1..rows |->
       AngleMatrix([op EXCEPT !.args = [f \in DOMAIN @ |->
                      IF f \in DOMAIN columns THEN columns[f][row] ELSE @[f]]], dims)]
=============================================================================
