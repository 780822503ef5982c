-------------------------- MODULE MCMatrixSession --------------------------
(***************************************************************************)
(* Simulators of every method and backend, each with the calls that take   *)
(* its workflows: two or three subsystems, sweeps of two or three rows,    *)
(* two workers.                                                            *)
(***************************************************************************)
EXTENDS MatrixSession

Op(name, args) == [name |-> name, args |-> args]
Instruction(kind, op, fields, targets, cond, outs) ==
    [kind |-> kind, op |-> op, fields |-> fields, targets |-> targets, cond |-> cond, outs |-> outs]
G(name, targets) == Instruction("gate", Op(name, <<>>), <<>>, targets, <<>>, <<>>)
GA(name, args, targets) == Instruction("gate", Op(name, args), <<>>, targets, <<>>, <<>>)
\* A gate whose first angle is a column of the sweep.
GP(name, args, column, targets) ==
    Instruction("gate", Op(name, args), [f \in {1} |-> column], targets, <<>>, <<>>)
If(c, v, i) == [i EXCEPT !.cond = <<<<c, v>>>>]
M(targets, outs) == Instruction("measure", NoOp, <<>>, targets, <<>>, outs)
R(targets) == Instruction("reset", NoOp, <<>>, targets, <<>>, <<>>)
Barrier == Instruction("barrier", NoOp, <<>>, <<>>, <<>>, <<>>)

Default == [kernel |-> "auto", shot |-> "auto", fusion |-> FALSE, workers |-> 0,
            counts |-> "default", state |-> "default", classical |-> FALSE, shots |-> 2]
NoStart == [kind |-> "none", levels |-> <<>>, array |-> <<>>]
Basis(levels) == [kind |-> "basis", levels |-> levels, array |-> <<>>]
Array(v) == [kind |-> "array", levels |-> <<>>, array |-> v]
Call0(dims, nc, code) ==
    [kind |-> "run", dims |-> dims, nc |-> nc, code |-> code, noise |-> <<>>, columns |-> <<>>,
     start |-> NoStart, clbits |-> {}, config |-> Default, observables |-> <<>>]
Sweep(call, columns) == [call EXCEPT !.kind = "sweep", !.columns = columns]
Noisy(call, name, ops) == [call EXCEPT !.noise = [g \in {name} |-> ops]]
Expect(call, observables, shots) ==
    [call EXCEPT !.kind = "expect", !.observables = observables, !.config.shots = shots]

\* Noise: a unitary mixture, a jump, a channel whose Gram matrices are not diagonal.
K(w, m) == [w |-> w, m |-> m]
X2 == FixedMatrix("X")
Flip == <<K(3, Identity(2)), K(1, X2)>>
Decay == <<K(1, Diagonal(<<Real(2), One>>)), K(3, MatrixOf(2, LAMBDA r, c: IF r = 0 /\ c = 1 THEN One ELSE Zero))>>
Skewed == [k \in DOMAIN Decay |-> K(Decay[k].w, MatMul(Decay[k].m, FixedMatrix("SX")))]
Angles == [a |-> <<1, 2, 5>>, b |-> <<0, 3, 2>>]
Two == [a |-> <<1, 2>>, b |-> <<3, 6>>]

Session(method, backend, calls) == [method |-> method, backend |-> backend, calls |-> calls]

-----------------------------------------------------------------------------
(* The sessions.                                                           *)

Counted(call) == [call EXCEPT !.config.counts = "yes"]
Threaded(call) == [call EXCEPT !.config.kernel = "threads"]
OneShot(call) == [call EXCEPT !.config.shots = 1, !.config.state = "yes"]

\* A state vector, one shot at a time.  Trajectories of a sweep whose last row starts from
\* the payload of the row before it; guarded gates, repeated measurement, reset, noise.
Feedback(rotation) ==
    <<rotation, G("CX", <<1, 2>>), M(<<1>>, <<1>>), If(1, 1, G("X", <<2>>)), G("SX", <<2>>),
      If(1, 0, G("H", <<1>>)), R(<<2>>), M(<<1>>, <<2>>)>>
Channels == <<G("H", <<1>>), G("S", <<1>>), G("CX", <<1, 2>>), G("SX", <<1>>), M(<<2, 1>>, <<1, 2>>)>>
SweptTrajectories ==
    Noisy(Sweep(Call0(<<2, 2>>, 1, <<G("H", <<2>>), GP("RX", <<0>>, "a", <<1>>), G("Swap", <<2, 1>>),
                                     GP("Phase", <<0>>, "b", <<2>>), G("H", <<2>>), R(<<1>>),
                                     M(<<2>>, <<1>>)>>), Two), "Phase", Flip)
Ququart == Call0(<<2, 4>>, 1, <<GA("Fourier", <<>>, <<2>>), GA("Shift", <<1>>, <<2>>), G("H", <<1>>),
                                GA("SubspaceRX", <<2, 1, 3>>, <<2>>), If(1, 1, G("X", <<1>>)),
                                R(<<2>>), M(<<1>>, <<1>>)>>)

\* A subsystem measured again.
Again == Call0(<<2, 2>>, 2, <<G("H", <<1>>), G("CX", <<1, 2>>), M(<<1>>, <<1>>), G("SX", <<1>>), M(<<1, 2>>, <<2, 1>>)>>)

\* A state vector in a single pass: a compiled sweep of three rows in batches of two, its
\* angles filled into one set of matrices; a threaded loop; a start that is not normalised.
SweptPass ==
    Sweep(Call0(<<2, 2>>, 2, <<G("H", <<1>>), GP("RX", <<0>>, "a", <<2>>), G("CX", <<1, 2>>),
                               GP("CPhase", <<0>>, "b", <<2, 1>>), G("SX", <<1>>), M(<<1>>, <<2>>)>>), Angles)
ThreadedPass ==
    Threaded(Call0(<<2, 2, 2>>, 0, <<G("H", <<2>>), G("iSwap", <<2, 3>>), G("S", <<1>>), G("CX", <<1, 3>>),
                                     G("Swap", <<3, 1>>), G("CX", <<2, 1>>)>>))

\* Density matrices.
Mixed == Noisy(Call0(<<2, 2>>, 2, <<G("H", <<1>>), G("CX", <<1, 2>>), G("SX", <<2>>), R(<<1>>), G("H", <<1>>),
                                    M(<<2>>, <<2>>)>>), "SX", Decay)
Steered == Noisy(Call0(<<2, 2>>, 1, <<G("H", <<1>>), G("S", <<1>>), M(<<1>>, <<1>>), If(1, 1, G("SX", <<2>>)),
                                      R(<<1, 2>>)>>), "S", Skewed)

\* Operators.
Woven == <<G("H", <<1>>), G("CX", <<1, 2>>), G("S", <<2>>), G("Swap", <<2, 1>>), GP("RZ", <<0>>, "a", <<1>>),
           G("iSwap", <<1, 2>>)>>
Fused(call) == [call EXCEPT !.config.fusion = TRUE]
Dissipative == Noisy(Sweep(Call0(<<2>>, 0, <<GP("RX", <<0>>, "a", <<1>>), G("S", <<1>>), R(<<1>>), G("H", <<1>>),
                                             GP("Phase", <<0>>, "b", <<1>>)>>), Two), "S", Decay)

\* Estimators.
Factor(axis, kind, level) == [axis |-> axis, kind |-> kind, level |-> level]
T(coeff, factors) == [coeff |-> coeff, factors |-> factors]
Pauli(axis, kind) == Factor(axis, kind, 0)
Correlations == <<<<T(2, <<Pauli(1, "X"), Pauli(2, "Z")>>), T(0 - 1, <<Pauli(2, "Y"), Pauli(1, "Y")>>),
                    T(3, <<>>), T(0, <<Pauli(1, "Z")>>)>>,
                  <<T(1, <<Factor(2, "P", 1), Pauli(1, "Y")>>), T(1, <<Pauli(1, "Z"), Factor(2, "P", 0)>>)>>>>
Levels == <<<<T(1, <<Factor(2, "N", 0), Pauli(1, "X")>>), T(2, <<Factor(2, "P", 3)>>)>>>>
Prepared == <<G("H", <<1>>), G("S", <<1>>), G("CX", <<1, 2>>), G("SX", <<2>>)>>
PreparedLevels == <<GA("Fourier", <<>>, <<2>>), GA("Clock", <<1>>, <<2>>), GA("SubspaceRX", <<2, 1, 3>>, <<2>>),
                    G("H", <<1>>), GA("CClock", <<1>>, <<1, 2>>), GA("InverseFourier", <<>>, <<2>>)>>
SweptBases == Sweep(Call0(<<2, 2>>, 0, <<GP("RX", <<0>>, "a", <<1>>), G("CX", <<1, 2>>), GP("Phase", <<0>>, "b", <<2>>)>>),
                    Angles)
Restarted == Noisy(Call0(<<2, 2>>, 1, <<G("H", <<1>>), G("CX", <<1, 2>>), R(<<1>>), G("SX", <<1>>)>>), "SX", Decay)
Reshaped == Noisy(Call0(<<2, 2>>, 0, <<G("S", <<1>>), G("CX", <<1, 2>>)>>), "S", Flip)
Silent == [Call0(<<2, 2>>, 2, <<G("H", <<1>>), M(<<1>>, <<1>>), If(1, 1, G("X", <<2>>))>>)
             EXCEPT !.config.counts = "no"]
Constants == Expect(Call0(<<2>>, 0, <<G("H", <<1>>)>>), <<<<T(3, <<>>)>>>>, 2)
Start == <<Real(2), <<0, 1>>, Zero, Unit(2)>>

\* Calls that the checks refuse, and policies that cannot be had.
Bell == Call0(<<2, 2>>, 2, <<G("H", <<1>>), G("CX", <<1, 2>>), M(<<1, 2>>, <<1, 2>>)>>)
Plain == Call0(<<2, 2>>, 0, <<G("H", <<1>>), G("CX", <<1, 2>>)>>)
Guarded == Call0(<<2, 2>>, 1, <<If(1, 1, G("X", <<1>>))>>)
Refusable ==
    {Bell, Guarded, Restarted, Expect(Bell, Correlations, 2), Expect(Plain, Correlations, 2),
     [Plain EXCEPT !.start = Array(Start)], [Plain EXCEPT !.start = Array(<<One>>)],
     [Plain EXCEPT !.nc = 1, !.clbits = {<<1, 1>>}], [Plain EXCEPT !.nc = 1, !.clbits = {<<1>>}],
     [Bell EXCEPT !.config.state = "yes"], [Bell EXCEPT !.config.classical = TRUE],
     [Counted(Bell) EXCEPT !.config.shots = 0], [SweptBases EXCEPT !.kind = "run"],
     Counted(Plain), Threaded(Plain), Fused(Plain), [Threaded(Plain) EXCEPT !.config.workers = 1],
     [Bell EXCEPT !.config.shot = "threads"], [Restarted EXCEPT !.config.shot = "threads"],
     [Counted(Restarted) EXCEPT !.config.shot = "threads"],
     [Threaded(Restarted) EXCEPT !.config.shot = "threads", !.config.counts = "yes"]}

MCSessions ==
  UNION {
   {Session("statevector", backend,
      <<OneShot([Noisy(Call0(<<2, 2>>, 2, Feedback(GA("RX", <<1>>, <<1>>))), "SX", Decay)
                   EXCEPT !.clbits = {<<0, 1>>}])>>),
    Session("statevector", backend, <<OneShot(Ququart)>>),
    Session("statevector", backend, <<OneShot(SweptPass)>>),
    Session("statevector", backend, <<Noisy(Call0(<<2, 2>>, 2, Channels), "S", Skewed), Silent, Again,
                                      Noisy(Call0(<<2, 2>>, 2, Channels), "S", Flip)>>),
    Session("statevector", backend, <<[Expect(Restarted, <<Correlations[2]>>, 2) EXCEPT !.start = Basis(<<0, 1>>)]>>),
    Session("statevector", backend, <<Expect(Call0(<<2, 4>>, 0, PreparedLevels), Levels, 0), Constants,
                                      Expect(Call0(<<2, 4>>, 0, PreparedLevels), Levels, 2)>>),
    Session("statevector", backend, <<[Expect(Call0(<<2, 2>>, 0, Prepared), Correlations, 0)
                                         EXCEPT !.start = Array(Start)]>>),
    Session("statevector", backend, <<Expect(SweptBases, <<Tail(Correlations[1])>>, 2)>>),
    Session("density_matrix", backend, <<Mixed, OneShot(Again), Expect(Restarted, Correlations, 0)>>),
    Session("density_matrix", backend, <<OneShot([Steered EXCEPT !.start = Array(Start)])>>),
    Session("density_matrix", backend, <<Expect(Call0(<<2, 4>>, 0, PreparedLevels), Levels, 0)>>),
    Session("density_matrix", backend, <<[Expect(Restarted, <<Correlations[2]>>, 2) EXCEPT !.start = Basis(<<1, 0>>)]>>),
    Session("unitary", backend, <<Sweep(Call0(<<2, 2>>, 0, Woven), Two)>>),
    Session("superop", backend, <<Dissipative, Reshaped>>)} : backend \in {"numpy", "numba"}}
  \cup
  {Session("statevector", "numba", <<SweptTrajectories>>),
   Session("statevector", "numba", <<ThreadedPass, [ThreadedPass EXCEPT !.config.kernel = "serial"]>>),
   Session("unitary", "numba", <<Fused(Sweep(Call0(<<2, 2>>, 0, Woven), Two)), Fused(Plain)>>),
   Session("superop", "numba", <<Fused(Dissipative), Fused(Reshaped)>>)}
  \cup
  {Session(method, backend, <<call, Plain>>) :
     method \in {"statevector", "unitary"}, backend \in {"numpy", "numba"}, call \in Refusable}
=============================================================================
