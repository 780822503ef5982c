--------------------------- MODULE NativeLowering ---------------------------
(***************************************************************************)
(* From a normalised superconducting program to native gates on physical   *)
(* sites, compiler/passes/sc_target.py, the native IR of                   *)
(* compiler/dialects/sc_native.py, and the projection of a native program  *)
(* onto the simulator's Program, compiler/simulator_bridge.py.             *)
(*                                                                         *)
(* What the router promises is modelled and checked in SabreRouting.  Here *)
(* a routing is any layout with any swaps on couplings that let every node *)
(* run where its qubits are: one of them is what sabre_map returns.        *)
(***************************************************************************)
EXTENDS Integers, Sequences, FiniteSets

LOCAL INSTANCE SequencesExt  \* FlattenSeq, SetToSortSeq

CONSTANTS
    Qubits,     \* the declared qubits, a sequence
    Couplings   \* the undirected edges of the target: sets of two sites

Sites == UNION Couplings
Declared == {Qubits[k] : k \in DOMAIN Qubits}

Layouts == {layout \in [Declared -> Sites] :
               \A q, r \in Declared : q # r => layout[q] # layout[r]}

Native(op, sites, turns) ==
    [op |-> op, qubits |-> sites, turns |-> <<turns>>, clbits |-> <<>>]

----------------------------------------------------------------------------
(* A routing: nodes as soon as they can run, a swap when none can.         *)

SitesOf(node, layout) == [k \in DOMAIN node.qubits |-> layout[node.qubits[k]]]

Exchanged(layout, edge) ==
    [q \in Declared |-> IF layout[q] \in edge THEN CHOOSE s \in edge : s # layout[q]
                        ELSE layout[q]]

\* The nodes of the front that can run under a layout.
Runnable(program, done, layout) ==
    {id \in DOMAIN program.nodes \ done :
       LET node == program.nodes[id] IN
       /\ \A k \in DOMAIN node.qubits : \A i \in DOMAIN program.wires[node.qubits[k]] :
             program.wires[node.qubits[k]][i] < id =>
                program.wires[node.qubits[k]][i] \in done
       /\ Len(node.qubits) = 2 =>
             {layout[node.qubits[1]], layout[node.qubits[2]]} \in Couplings}

\* The events of a routing that starts from a layout and, whenever nothing
\* can run, takes the next of the given swaps.
Routed(program, initial, swaps) ==
    LET run[k \in 0..(Len(program.nodes) + Len(swaps))] ==
          IF k = 0 THEN [layout |-> initial, done |-> {}, events |-> <<>>, left |-> swaps]
          ELSE
          LET before == run[k - 1]
              front == Runnable(program, before.done, before.layout)
          IN  IF front # {}
              THEN LET id == CHOOSE a \in front : \A b \in front : a <= b IN
                   [before EXCEPT
                      !.done = @ \cup {id},
                      !.events = Append(@, [node |-> id,
                                            sites |-> SitesOf(program.nodes[id], before.layout)])]
              ELSE IF before.left # <<>>
              THEN LET edge == Head(before.left) IN
                   [before EXCEPT
                      !.layout = Exchanged(@, edge),
                      !.events = Append(@, [node |-> 0, sites |-> SetToSeq(edge)]),
                      !.left = Tail(@)]
              ELSE before
    IN  run[Len(program.nodes) + Len(swaps)]

Completes(program, routed) == routed.done = DOMAIN program.nodes /\ routed.left = <<>>

----------------------------------------------------------------------------
(* The two native bases.                                                   *)

\* Faulty variant: the middle rotation keeps the angle of RX.
SxOfRXUnshifted(site, turns) ==
    <<Native("RZ", <<site>>, 2), Native("SX", <<site>>, 0), Native("RZ", <<site>>, turns),
      Native("SX", <<site>>, 0), Native("RZ", <<site>>, 2)>>

SxOfRX(site, turns) ==
    <<Native("RZ", <<site>>, 2), Native("SX", <<site>>, 0), Native("RZ", <<site>>, turns + 4),
      Native("SX", <<site>>, 0), Native("RZ", <<site>>, 2)>>

SxH(site) ==
    <<Native("RZ", <<site>>, 2), Native("SX", <<site>>, 0), Native("RZ", <<site>>, 2)>>

RotationH(site) ==
    <<Native("RZ", <<site>>, 2), Native("RX", <<site>>, 2), Native("RZ", <<site>>, 2)>>

H(basis, site) == IF basis = "sx" THEN SxH(site) ELSE RotationH(site)

CX(basis, control, target) ==
    H(basis, target) \o <<Native("CZ", <<control, target>>, 0)>> \o H(basis, target)

\* Faulty variant: the middle CX does not turn round.
SwapOneWay(basis, sites) ==
    CX(basis, sites[1], sites[2]) \o CX(basis, sites[1], sites[2]) \o CX(basis, sites[1], sites[2])

Swap(basis, sites) ==
    CX(basis, sites[1], sites[2]) \o CX(basis, sites[2], sites[1]) \o CX(basis, sites[1], sites[2])

\* _lower_sx_node and _lower_rotation_node.
LowerNode(basis, node, sites) ==
    CASE node.op = "RX" /\ basis = "sx" -> SxOfRX(sites[1], node.turns[1])
      [] node.op = "Swap" -> Swap(basis, sites)
      [] OTHER -> <<[node EXCEPT !.qubits = sites]>>

\* Measurements wait until the end and are made where the qubit ended up.
Deferred(program, final) ==
    LET measured == SelectSeq(program.nodes, LAMBDA node : node.op = "Measure") IN
    [k \in DOMAIN measured |-> [measured[k] EXCEPT !.qubits = <<final[measured[k].qubits[1]]>>]]

\* _lower_events.
LowerEvents(basis, program, routed) ==
    FlattenSeq([k \in DOMAIN routed.events |->
        LET event == routed.events[k] IN
        IF event.node = 0 THEN Swap(basis, event.sites)
        ELSE IF program.nodes[event.node].op = "Measure" THEN <<>>
        ELSE LowerNode(basis, program.nodes[event.node], event.sites)])
    \o Deferred(program, routed.layout)

\* _declared_classical_registers: a clbit is <<"c", register, index>>.
RegistersOf(clbits) ==
    LET First(k) == \A j \in 1..(k - 1) : clbits[j][2] # clbits[k][2]
        firsts == SelectSeq([k \in DOMAIN clbits |-> k], First)
    IN  [k \in DOMAIN firsts |-> clbits[firsts[k]][2]]

NativeProgram(basis, program, initial, routed, clbits) ==
    [operations |-> LowerEvents(basis, program, routed),
     initial |-> initial,
     final |-> routed.layout,
     registers |-> RegistersOf(clbits)]

----------------------------------------------------------------------------
(* _verify_native_program, then the checks against target or backend.      *)

BasisGates(basis) ==
    IF basis = "sx" THEN {"X", "SX", "RZ", "CZ"} ELSE {"RX", "RY", "RZ", "iSwap", "CZ"}

NativeVerifies(basis, native) ==
    /\ native.initial \in Layouts /\ native.final \in Layouts
    /\ \A k \in DOMAIN native.operations :
          LET operation == native.operations[k] IN
          /\ operation.op \in BasisGates(basis) \cup {"Reset", "Measure"}
          /\ \A i, j \in DOMAIN operation.qubits :
                i # j => operation.qubits[i] # operation.qubits[j]
          /\ operation.op = "Measure" =>
                \E i \in DOMAIN native.registers :
                   native.registers[i] = operation.clbits[1][2]

\* _verify_against_target: every CZ is on a coupling.
OnTarget(native) ==
    \A k \in DOMAIN native.operations :
       LET sites == native.operations[k].qubits IN
       native.operations[k].op = "CZ" => {sites[1], sites[2]} \in Couplings

----------------------------------------------------------------------------
(* to_sc_simulator_program: one physical register, a reference for every   *)
(* site in the order in which the sites are met.                           *)

SitesMet(native) ==
    LET met == [k \in DOMAIN Qubits |-> native.initial[Qubits[k]]]
               \o [k \in DOMAIN Qubits |-> native.final[Qubits[k]]]
               \o FlattenSeq([k \in DOMAIN native.operations |-> native.operations[k].qubits])
        First(k) == \A j \in 1..(k - 1) : met[j] # met[k]
        firsts == SelectSeq([k \in DOMAIN met |-> k], First)
    IN  [k \in DOMAIN firsts |-> met[firsts[k]]]

Physical(index) == <<"p", 1, index>>

\* The executable: instructions on references, and where each reference is.
Executable(native) ==
    LET met == SitesMet(native)
        RefOf(site) == Physical((CHOOSE k \in DOMAIN met : met[k] = site) - 1)
    IN  [instructions |->
           [k \in DOMAIN native.operations |->
              [native.operations[k] EXCEPT !.qubits = [i \in DOMAIN @ |-> RefOf(@[i])]]],
         layout |-> [ref \in {Physical(k - 1) : k \in DOMAIN met} |-> met[ref[3] + 1]],
         registers |-> native.registers]
=============================================================================
