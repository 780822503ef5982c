------------------------- MODULE MCCompilerPipeline -------------------------
(* Small instances of CompilerPipeline for TLC.                            *)
EXTENDS CompilerPipeline

MCUnbound == 1000

\* Registers whose names collide with each other and with a gate.
MCQuantum == <<[name |-> <<"q">>, size |-> 2], [name |-> <<"sx">>, size |-> 1]>>
MCClassical == <<[name |-> <<"q">>, size |-> 2], [name |-> <<"q", "1">>, size |-> 1]>>
MCReserved == {<<"sx">>, <<"x">>}

q0 == <<"q", 1, 0>>
q1 == <<"q", 1, 1>>
q2 == <<"q", 2, 0>>
c0 == <<"c", 1, 0>>
c1 == <<"c", 1, 1>>
c2 == <<"c", 2, 0>>

Site(n) == <<"s", 1, n>>
MCCouplings == {{Site(0), Site(1)}, {Site(1), Site(2)}}

I(op, qubits, turns) == Qasm!Instruction(op, [k \in DOMAIN qubits |-> <<qubits[k]>>], turns)
When(instruction, condition) == [instruction EXCEPT !.condition = condition]
Measured(qubits, clbits) == [I("Measure", qubits, <<>>) EXCEPT !.outputs = clbits]
Viewed(op, members) == [Qasm!Instruction(op, <<members>>, <<>>) EXCEPT !.view = TRUE]

Pairs == {<<q0, q1>>, <<q1, q0>>}
Angles == {0, 2, 4, 6}
Eulers == {<<2, 0, 2>>, <<2, 2, 4>>, <<6, 4, 6>>}

Rotated == {I(op, <<q>>, <<turns>>) : op \in {"RX", "RZ", "Phase", "U1"}, q \in {q0, q1}, turns \in {2, 4}}
           \cup {I(op, <<q0>>, <<turns>>) : op \in {"RX", "RY", "RZ"}, turns \in Angles}
           \cup {I("U", <<q>>, turns) : q \in {q0, q1}, turns \in Eulers}
           \cup {I("U2", <<q0>>, turns) : turns \in {<<0, 2>>, <<2, 6>>}}
Fixed == {I(op, <<q>>, <<>>) : op \in {"I", "H", "X", "Y", "Z", "S", "Sdg"}, q \in {q0, q1}}
         \cup {I(op, pair, <<>>) : op \in {"CZ", "CX", "Swap"}, pair \in Pairs}

Job(pipeline, emit) == [pipeline |-> pipeline, emit |-> emit]
Family(kind, parts, bound, versions, jobs) ==
    [kind |-> kind, parts |-> parts, bound |-> bound, versions |-> versions, jobs |-> jobs]

\* Gates that meet on the wires of three qubits, for longer programs.
WireGates ==
    {I("RX", <<q>>, <<4>>) : q \in {q0, q1}}
    \cup {I("RZ", <<q1>>, <<2>>), I("Swap", <<q0, q2>>, <<>>)}
    \cup {I("CZ", pair, <<>>) : pair \in {<<q0, q1>>, <<q1, q0>>, <<q1, q2>>}}

\* Gates that lower to several nodes, which meet and cancel.
CompositeGates ==
    {I(op, pair, <<>>) : op \in {"CX", "CZ"}, pair \in Pairs}
    \cup {I(op, <<q1>>, <<>>) : op \in {"H", "Y", "Sdg"}}
    \cup {I("RY", <<q0>>, <<6>>), I("U", <<q1>>, <<2, 2, 4>>)}

RoutedGates ==
    {I("CX", <<q0, q2>>, <<>>), I("CZ", <<q1, q0>>, <<>>), I("Swap", <<q2, q1>>, <<>>),
     I("RX", <<q2>>, <<2>>), Measured(<<q0, q2>>, <<c1, c0>>)}

\* Programs that some boundary refuses, and programs next to them.
EdgeParts ==
    {When(I("X", <<q0>>, <<>>), <<<<c0, 1>>>>), Viewed("H", <<q0, q1>>),
     I("RX", <<q0>>, <<MCUnbound>>), I("U1", <<q0>>, <<MCUnbound>>),
     I("U", <<q0>>, <<2, MCUnbound, 2>>), Measured(<<q0, q1>>, <<c0, c1>>),
     Measured(<<q0>>, <<c2>>), Measured(<<q2>>, <<c1>>), I("CX", <<q0, q2>>, <<>>),
     I("Barrier", <<q0, q1>>, <<>>), I("SX", <<q0>>, <<>>), I("Reset", <<q0, q1>>, <<>>)}

EdgeJobs ==
    {Job("logical-to-sc", "gate.logical"), Job("logical-to-sc", "sc.gate"),
     Job("logical-to-na", "na.gate"), Job("logical-to-na", "sc.gate"),
     Job("logical-to-sc", "program")}

\* Programs on the way through text.
Full == <<<<c0, 0>>, <<c1, 1>>>>
TextGates ==
    {When(I("X", <<q0>>, <<>>), Full), When(I("X", <<q0>>, <<>>), <<<<c1, 1>>>>),
     When(I("H", <<q1>>, <<>>), <<<<c1, 0>>, <<c2, 1>>>>),
     When(I("X", <<q1>>, <<>>), <<<<c1, 1>>, <<c1, 0>>>>), When(I("Y", <<q1>>, <<>>), <<<<c1, 1>>, <<c1, 1>>>>),
     When(I("Barrier", <<q0>>, <<>>), <<<<c0, 1>>, <<c0, 0>>>>),
     When(I("Reset", <<q0, q1>>, <<>>), Full), When(I("Barrier", <<q0, q1>>, <<>>), <<<<c1, 1>>>>),
     When(I("SX", <<q2>>, <<>>), <<<<c2, 1>>>>), When(I("Clock", <<q0>>, <<2>>), <<<<c1, 1>>>>),
     I("SX", <<q0>>, <<>>), I("iSwap", <<q0, q1>>, <<>>), I("iSwap", <<q2, q0>>, <<>>),
     I("CY", <<q2, q1>>, <<>>), I("U", <<q0>>, <<2, 4, 6>>), I("U2", <<q1>>, <<2, 4>>),
     I("Phase", <<q2>>, <<2>>), I("SubspaceRY10", <<q0>>, <<2>>),
     I("SubspaceRZ10", <<q2>>, <<2>>), I("CClock", <<q1, q2>>, <<3>>), I("Clock", <<q1>>, <<1>>),
     Viewed("H", <<q0, q1>>), I("Reset", <<q1, q0>>, <<>>), I("RZ", <<q0>>, <<MCUnbound>>),
     Measured(<<q0, q2>>, <<c1, c2>>), I("Kerr", <<q0>>, <<>>)}

\* Statements of hand-written texts.
Q == <<"q">>
Q2 == <<"sx", "_">>
C == <<"q", "1">>
C2 == <<"q", "1", "1">>
Apply(name, turns, operands) ==
    [Qasm!Statement("call") EXCEPT !.block = <<Qasm!Call(name, turns, operands)>>]
If(terms, statement) == [statement EXCEPT !.guard = terms]
Op(name, index) == Qasm!Operand(name, index)
All == Qasm!Whole
MeasureInto(from, into) == [Qasm!Statement("measure") EXCEPT !.operands = <<from, into>>]
Body(name, turns, formals) == Qasm!Call(name, turns, formals)
Define(name, params, formals, body) ==
    [Qasm!Statement("gate") EXCEPT !.gate = name, !.params = params, !.formals = formals,
                                   !.body = body]

\* A gate that turns its second qubit and exchanges the two for an inner gate.
Twist == Define("twist", 1, <<1, 2>>,
                <<Body("rz", <<<<1, 2>>>>, <<2>>), Body("inner", <<>>, <<2, 1>>)>>)
InnerGate == Define("inner", 0, <<1, 2>>, <<Body("CX", <<>>, <<1, 2>>), Body("H", <<>>, <<1>>)>>)
Loop == Define("inner", 0, <<1, 2>>, <<Body("inner", <<>>, <<1, 2>>)>>)
X0 == Apply("X", <<>>, <<Op(Q, 0)>>)

Definitions == {Twist, InnerGate, Loop}
Calls ==
    {Apply("twist", <<4>>, <<Op(Q, 0), Op(Q, 1)>>), Apply("twist", <<2>>, <<Op(Q2, All), Op(Q, All)>>),
     Apply("inner", <<>>, <<Op(Q2, 0), Op(Q, All)>>), Apply("CX", <<>>, <<Op(Q, All), Op(Q, 0)>>),
     Apply("H", <<>>, <<Op(Q, 5)>>), Apply("Reset", <<>>, <<Op(Q, All)>>),
     MeasureInto(Op(Q, All), Op(C, All)), MeasureInto(Op(Q, All), Op(C2, 0)),
     Apply("rx", <<>>, <<Op(Q, 0)>>), Apply("Barrier", <<>>, <<Op(Q, All)>>)}

Guards ==
    {<<Qasm!Term(Op(C, All), TRUE, 2)>>, <<Qasm!Term(Op(C, All), TRUE, 4)>>,
     <<Qasm!Term(Op(C, 0), FALSE, 1), Qasm!Term(Op(C2, All), TRUE, 1)>>,
     <<Qasm!Term(Op(C, All), TRUE, 2), Qasm!Term(Op(C, 1), TRUE, 1)>>,
     <<Qasm!Term(Op(C, All), TRUE, 2), Qasm!Term(Op(C, 1), FALSE, 1)>>,
     <<Qasm!Term(Op(C, All), FALSE, 2)>>, <<Qasm!Term(Op(C2, 0), TRUE, 2)>>}

CallParts == Definitions \cup Calls
GuardParts == {If(guard, X0) : guard \in Guards}
              \cup {If(<<Qasm!Term(Op(C, All), TRUE, 1)>>, call)
                      : call \in {c \in Calls : c.kind = "call"}}
              \cup {MeasureInto(Op(Q2, All), Op(C2, All))}

MCFamilies ==
    {Family("program", Rotated \cup Fixed \cup {I("SX", <<q1>>, <<>>)}, 2, {},
            {Job("logical-to-sc", "sc.gate")}),
     Family("program", Rotated \cup Fixed, 2, {}, {Job("logical-to-na", "na.gate")}),
     Family("program", CompositeGates, 3, {}, {Job("logical-to-sc", "sc.gate")}),
     Family("program", WireGates, 4, {}, {Job("logical-to-sc", "sc.gate")}),
     Family("program", RoutedGates, 3, {}, {Job("logical-to-sc", "sc.native")}),
     Family("program", RoutedGates \cup {I("Reset", <<q0>>, <<>>)}, 2, {3}, {Job("qasm-to-sc-rotation", "sc.rotation")}),
     Family("program", EdgeParts, 2, {}, EdgeJobs),
     Family("program", TextGates, 2, {2, 3}, {}),
     Family("text", CallParts, 3, {3}, {Job("qasm-to-sc", "sc.gate")}),
     Family("text", GuardParts, 2, {3}, {Job("qasm-to-sc", "qasm.text"), Job("qasm-to-sc", "sc.gate")})}
=============================================================================
