------------------------- MODULE MCProgramAuthoring -------------------------
(***************************************************************************)
(* Programs over a 2 x 2 grid of qubits, a qutrit, bits and one digit.     *)
(***************************************************************************)
EXTENDS ProgramAuthoring

Regs == [grid |-> [rows |-> 2, cols |-> 2, grid |-> TRUE, dim |-> 2],
         trit |-> [rows |-> 1, cols |-> 1, grid |-> FALSE, dim |-> 3],
         bits |-> [rows |-> 1, cols |-> 2, grid |-> FALSE, dim |-> 2],
         digit |-> [rows |-> 1, cols |-> 1, grid |-> FALSE, dim |-> 3]]

MCLayouts == {[q |-> <<"grid", "trit">>, c |-> <<"bits", "digit">>],
              [q |-> <<"grid">>, c |-> <<"bits">>],
              [q |-> <<"trit">>, c |-> <<"digit">>]}

I(k) == [form |-> "int", index |-> k]
View(reg, kind, at) == [form |-> "view", reg |-> reg, kind |-> kind, at |-> at]
G(k) == Ref("grid", k)
When(slot, value) == <<[slot |-> slot, value |-> value]>>

Call(op, arity, args, operands, condition) ==
    [op |-> op, arity |-> arity, args |-> args, operands |-> operands,
     condition |-> condition,
     views |-> op \notin {"Pair", "Barrier"},
     levels |-> IF op = "F" THEN 3 ELSE 2]

a == Par("a", 0)
v0 == Par("v", 0)
v1 == Par("v", 1)

\* Calls that are accepted, and calls that must be refused.
MCAdds ==
    {Call("CX", 2, <<>>, <<View("grid", "row", 0), View("grid", "row", 1)>>, <<>>),
     Call("CX", 2, <<>>, <<View("grid", "block", <<0, 1, 0, 2>>),
                           View("grid", "block", <<0, 2, 1, 2>>)>>, <<>>),
     Call("CX", 2, <<>>, <<View("grid", "row", 0), View("grid", "column", 1)>>, <<>>),
     Call("CX", 2, <<>>, <<G(0), G(3)>>, When(Ref("bits", 0), 1)),
     Call("RX", 1, <<v1>>, <<View("grid", "column", 1)>>, <<>>),
     Call("RX", 1, <<v0>>, <<I(0)>>, <<>>),
     Call("U", 1, <<v0, a, v0>>, <<G(1)>>, When(I(1), 1)),
     Call("F", 1, <<>>, <<View("trit", "all", 0)>>, When(Ref("digit", 0), 2)),
     Call("F", 1, <<>>, <<G(2)>>, <<>>),
     Call("Barrier", 0, <<>>, <<G(0), G(1), G(2)>>, <<>>),
     Call("Put", 0, <<>>, <<View("grid", "all", 0)>>, <<>>)}

Key(elements, isVector, values) ==
    [elements |-> elements, isVector |-> isVector, values |-> values]

MCMappings ==
    {<<Key(<<v0, v1>>, TRUE, <<1, 2>>)>>, <<Key(<<v1>>, FALSE, <<3>>)>>,
     <<Key(<<a>>, FALSE, <<4>>), Key(<<v0>>, FALSE, <<5>>)>>,
     <<Key(<<v0, v1>>, TRUE, <<1, 2>>), Key(<<v0>>, FALSE, <<5>>)>>,
     <<Key(<<v0, v1>>, TRUE, <<1>>)>>}

Table(elements, isVector, rank, rows) ==
    [elements |-> elements, isVector |-> isVector, rank |-> rank, rows |-> rows]

MCBatches ==
    {<<Table(<<v0>>, FALSE, 1, <<<<1>>, <<2>>>>)>>,
     <<Table(<<v0, v1>>, TRUE, 2, <<<<1, 2>>, <<3, 4>>>>)>>,
     <<Table(<<a>>, FALSE, 1, <<<<7>>, <<8>>>>), Table(<<v0>>, FALSE, 1, <<<<1>>, <<2>>>>)>>,
     <<Table(<<a>>, FALSE, 1, <<<<7>>, <<8>>>>),
       Table(<<v0, v1>>, TRUE, 2, <<<<1, 2>>, <<3, 4>>>>)>>,
     <<Table(<<a>>, FALSE, 1, <<<<7>>>>), Table(<<v0>>, FALSE, 1, <<<<1>>, <<2>>>>)>>}

MCMeasures ==
    {[targets |-> <<G(0)>>, outputs |-> <<Ref("bits", 0)>>],
     [targets |-> <<G(1), Ref("trit", 0)>>, outputs |-> <<Ref("bits", 0), Ref("digit", 0)>>],
     [targets |-> <<I(0)>>, outputs |-> <<I(0)>>],
     [targets |-> <<G(2)>>, outputs |-> <<Ref("digit", 0)>>]}
=============================================================================
