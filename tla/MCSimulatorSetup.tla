-------------------------- MODULE MCSimulatorSetup --------------------------
(***************************************************************************)
(* Two qubits and a ququart on three device labels.                        *)
(***************************************************************************)
EXTENDS SimulatorSetup

MCLayout == <<11, 12, 13>>
MCDimOf == <<2, 2, 4>>

R(k) == [kind |-> "ref", id |-> k]
L(k) == [kind |-> "label", id |-> k]
All == [form |-> "omitted", items |-> <<>>]
Scalar(t) == [form |-> "scalar", items |-> <<t>>]
Tuple(s) == [form |-> "tuple", items |-> s]

Declaration(type, p, rate, tPhi, terms, t1, t2) ==
    [type |-> type, p |-> p, rate |-> rate, tPhi |-> tPhi, terms |-> terms, t1 |-> t1, t2 |-> t2]
Dep(p) == Declaration("Depolarizing", {p}, {}, {}, <<>>, 1, 1)
DepRate(r) == Declaration("Depolarizing", {}, {r}, {}, <<>>, 1, 1)
Deph(p) == Declaration("PhaseDamping", {p}, {}, {}, <<>>, 1, 1)
DephTime(t) == Declaration("PhaseDamping", {}, {}, {t}, <<>>, 1, 1)
Amp(p) == Declaration("AmplitudeDamping", {p}, {}, {}, <<>>, 1, 1)
Pauli2 == Declaration("PauliChannel", {}, {}, {}, <<<<<<"X", "Z">>, 4>>, <<<<"Y", "I">>, 3>>>>, 1, 1)
Relax(p) == Declaration("TransitionRelaxation", {p}, {}, {}, <<<<1, 0, 1>>, <<3, 2, 1>>>>, 1, 1)
RelaxRate(r) == Declaration("TransitionRelaxation", {}, {r}, {}, <<<<1, 0, 2>>>>, 1, 1)
Thermal(t1, t2) == Declaration("ThermalRelaxation", {}, {}, {}, <<>>, t1, t2)
Confuse(m) == Declaration("ReadoutConfusion", {}, {}, {}, m, 1, 1)
LossOf(p) == Declaration("Loss", {p}, {}, {}, <<>>, 1, 1)

Flip == Confuse(<<<<20, 10>>, <<5, 15>>>>)
Skew == Confuse(<<<<25, 1>>, <<0, 24>>>>)
Four == Confuse(<<<<25, 0, 0, 5>>, <<0, 25, 0, 0>>, <<0, 0, 20, 0>>, <<0, 0, 5, 20>>>>)

Call(decl, op, arg, positions) ==
    [decl |-> Stored(decl), op |-> op, arg |-> arg, positions |-> positions]

\* Calls that are accepted, alone or together, and calls that must be refused.
MCNoiseCalls ==
    {call \in
       {Call(Dep(6), "CX", All, {}),
        Call(Dep(4), "CX", Tuple(<<R(1), R(2)>>), {}),
        Call(Dep(5), "CX", Tuple(<<L(11), L(12)>>), {<<0>>}),
        Call(Dep(9), "CX", Tuple(<<L(11), R(2)>>), {}),
        Call(Deph(8), "CX", All, {<<1>>}),
        Call(Deph(3), "CX", Tuple(<<L(12), L(11)>>), {<<0>>}),
        Call(Pauli2, "CX", All, {<<0, 1>>}),
        Call(Pauli2, "X", All, {}),
        Call(Amp(9), "X", All, {}),
        Call(Amp(16), "X", Scalar(L(11)), {}),
        Call(Relax(9), "X", Scalar(R(3)), {}),
        Call(Relax(16), "X", Scalar(L(13)), {}),
        Call(Dep(7), "X", Scalar(R(3)), {}),
        Call(RelaxRate(2), "X", Scalar(R(1)), {}),
        Call(Dep(3), "CX", Tuple(<<R(4), R(1)>>), {}),
        Call(Skew, "omitted", Scalar(L(14)), {}),
        Call(LossOf(3), "Put", All, {<<0>>}),
        Call(DepRate(3), "omitted", Scalar(R(1)), {}),
        Call(DepRate(2), "background", Scalar(L(11)), {}),
        Call(DephTime(20), "omitted", Scalar(L(12)), {}),
        Call(Thermal(3, 2), "omitted", Scalar(R(2)), {}),
        Call(Dep(2), "Reset", All, {}),
        Call(Flip, "omitted", Scalar(R(1)), {}),
        Call(Skew, "omitted", Scalar(L(11)), {}),
        Call(Skew, "omitted", All, {}),
        Call(Four, "omitted", Scalar(R(3)), {}),
        Call(Four, "omitted", Scalar(L(12)), {})} : Declared(call.decl)}

Rule(class, form, operands, name) ==
    [class |-> class, form |-> form, operands |-> operands, rule |-> name]
MCRuleCalls ==
    {Rule("Swap", "array", {<<11, 12>>}, "a"),
     Rule("Swap", "callable", {<<12, 11>>}, "b"),
     Rule("Swap", "array", {<<11>>}, "c"),
     Rule("Swap", "matrix rule", {}, "bad"),
     Rule("CX", "matrix rule", {<<12, 11>>}, "d"),
     Rule("Depolarizing", "callable", {}, "bad"),
     Rule("PauliChannel", "callable", {<<11, 12>>}, "builtin"),
     Rule("PauliChannel", "array", {}, "e"),
     Rule("MyOperation", "custom rule", {<<12>>}, "f"),
     Rule("MyOperation", "callable", {}, "g")}
MCRemovable == {"CX", "Swap"}

MCOccurrences ==
    {[op |-> "CX", targets |-> <<R(1), R(2)>>],
     [op |-> "CX", targets |-> <<R(2), R(1)>>],
     [op |-> "Swap", targets |-> <<R(2), R(1)>>],
     [op |-> "X", targets |-> <<R(1)>>],
     [op |-> "X", targets |-> <<R(3)>>],
     [op |-> "MyOperation", targets |-> <<R(2)>>],
     [op |-> "background", targets |-> <<R(1)>>],
     [op |-> "background", targets |-> <<R(2)>>],
     [op |-> "measure", targets |-> <<R(1), R(2)>>],
     [op |-> "measure", targets |-> <<R(3)>>]}

\* No rule for Swap or PauliChannel yet.
MCDefaultRules == {"X", "CX"} \cup (MatrixTypes \ {"PauliChannel"})
=============================================================================
