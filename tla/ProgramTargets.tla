--------------------------- MODULE ProgramTargets ---------------------------
(***************************************************************************)
(* Registers, views and the operands of instructions: registers.py and the *)
(* parts of program.py that resolve operands; and what is read off a       *)
(* program's operands, the dependency graph of its logical instructions    *)
(* and the graph of its interactions: _program_graph.py.                   *)
(*                                                                         *)
(* A register is a record of a constant function; dim 0 stands for a       *)
(* register without a dimension (ModeRegister, CountRegister).  A slot is  *)
(* a RegisterRef.  Names, metadata and the type checks of Python values    *)
(* are left out.                                                           *)
(***************************************************************************)
EXTENDS Integers, Sequences, FiniteSets, FiniteSetsExt, Functions

CONSTANT Registers   \* name -> [rows, cols, grid, dim]

Size(reg) == Registers[reg].rows * Registers[reg].cols
Ref(reg, index) == [form |-> "ref", reg |-> reg, index |-> index]
IsView(target) == target.form = "view"

\* Faulty variant: two selections are disjoint as soon as they differ.
OverlapWhenEqual(v, w) == v.at = w.at

\* _views_overlap: views of one kind over one register share a member.
Overlap(v, w) ==
    CASE v.kind = "all" -> TRUE
      [] v.kind \in {"row", "column"} -> v.at = w.at
      [] v.kind = "block" ->
            /\ v.at[1] < w.at[2] /\ w.at[1] < v.at[2]
            /\ v.at[3] < w.at[4] /\ w.at[3] < v.at[4]

\* _view_members.  at is a row, a column or the two ranges of a block.
Members(v) ==
    LET r == Registers[v.reg]
        width == v.at[4] - v.at[3]
    IN  CASE v.kind = "all" -> [k \in 1..Size(v.reg) |-> Ref(v.reg, k - 1)]
          [] v.kind = "row" -> [k \in 1..r.cols |-> Ref(v.reg, v.at * r.cols + k - 1)]
          [] v.kind = "column" -> [k \in 1..r.rows |-> Ref(v.reg, (k - 1) * r.cols + v.at)]
          [] v.kind = "block" ->
                [k \in 1..((v.at[2] - v.at[1]) * width) |->
                   Ref(v.reg, (v.at[1] + (k - 1) \div width) * r.cols
                              + v.at[3] + ((k - 1) % width))]

\* _validate_range: a half-open range within a limit.
InRange(start, stop, limit) == 0 <= start /\ start < stop /\ stop <= limit

\* What QuantumRegister.all, GridRegister.row, column and block construct.
ViewExists(v) ==
    LET r == Registers[v.reg] IN
    \/ v.kind = "all"
    \/ v.kind = "row" /\ r.grid /\ v.at \in 0..(r.rows - 1)
    \/ v.kind = "column" /\ r.grid /\ v.at \in 0..(r.cols - 1)
    \/ v.kind = "block" /\ r.grid
       /\ InRange(v.at[1], v.at[2], r.rows) /\ InRange(v.at[3], v.at[4], r.cols)

\* _validate_view_pair.
PairOf(v, w) ==
    /\ v.kind = w.kind
    /\ Len(Members(v)) = Len(Members(w))
    /\ ~ (v.reg = w.reg /\ Overlap(v, w))

----------------------------------------------------------------------------
Owned(names, reg) == \E k \in DOMAIN names : names[k] = reg

\* _resolve_ref, and _resolve_quantum_target for a view.
Resolvable(names, operand) ==
    \/ /\ operand.form = "int"
       /\ Len(names) = 1
       /\ operand.index \in 0..(Size(names[1]) - 1)
    \/ operand.form = "ref" /\ Owned(names, operand.reg)
    \/ operand.form = "view" /\ ViewExists(operand) /\ Owned(names, operand.reg)

Resolved(names, operand) ==
    IF operand.form = "int" THEN Ref(names[1], operand.index) ELSE operand

\* _normalize_condition accepts a conjunction: digits within the dimension.
ConditionAccepted(names, condition) ==
    \A k \in DOMAIN condition :
       /\ Resolvable(names, condition[k].slot)
       /\ condition[k].value >= 0
       /\ LET dim == Registers[Resolved(names, condition[k].slot).reg].dim
          IN  dim = 0 \/ condition[k].value < dim

Condition(names, condition) ==
    [k \in DOMAIN condition |->
       [slot |-> Resolved(names, condition[k].slot), value |-> condition[k].value]]

\* The scalar applications of an instruction: views are zipped.
Occurrences(targets) ==
    IF \E k \in DOMAIN targets : IsView(targets[k])
    THEN [j \in DOMAIN Members(targets[1]) |->
            [k \in DOMAIN targets |-> Members(targets[k])[j]]]
    ELSE <<targets>>

\* _validate_targets: the levels an operation names must exist.
LevelsExist(op, targets) ==
    \/ \E k \in DOMAIN targets : Registers[targets[k].reg].dim = 0
    \/ \A k \in DOMAIN targets : op.levels <= Registers[targets[k].reg].dim

\* _AppliedOperation.__post_init__ (arity 0 stands for any number).
Applies(op, targets) ==
    /\ IF op.arity = 0 THEN targets # <<>> ELSE Len(targets) = op.arity
    /\ IF \E k \in DOMAIN targets : IsView(targets[k])
       THEN /\ op.views
            /\ \A k \in DOMAIN targets : IsView(targets[k])
            /\ \A j, k \in DOMAIN targets : j < k => PairOf(targets[j], targets[k])
       ELSE \A j, k \in DOMAIN targets : j # k => targets[j] # targets[k]
    /\ \A j \in DOMAIN Occurrences(targets) : LevelsExist(op, Occurrences(targets)[j])

\* Measurement.__post_init__.
Measurable(targets, outputs) ==
    /\ Len(targets) = Len(outputs)
    /\ targets # <<>>
    /\ \A k \in DOMAIN targets :
          Registers[targets[k].reg].dim = Registers[outputs[k].reg].dim

\* The slots of registers in declaration order.
Slots(names) ==
    LET upTo[k \in 0..Len(names)] ==
          IF k = 0 THEN <<>>
          ELSE upTo[k - 1] \o [i \in 1..Size(names[k]) |-> Ref(names[k], i - 1)]
    IN  upTo[Len(names)]

----------------------------------------------------------------------------
(* Nodes are positions in the program.  The dictionaries the builder keeps *)
(* of the last instruction on a slot are read off the program: their entry *)
(* at a position is the greatest earlier one that would have set it.       *)

\* _is_hardware_instruction.
IsHardware(step) == step.op \in {"Put", "Pair", "Unpair", "PulseOperation"}

\* Faulty variant: of a grouped target the first application is kept.
TouchedFirst(step) ==
    LET first == Occurrences(step.targets)[1] IN {first[k] : k \in DOMAIN first}

\* _expanded_targets: the slots an instruction acts on.
Touched(step) ==
    LET groups == Occurrences(step.targets) IN
    UNION {{groups[j][k] : k \in DOMAIN groups[j]} : j \in DOMAIN groups}

\* _node_info: the classical slots a node reads and writes.
ReadSlots(step) == {step.condition[k].slot : k \in DOMAIN step.condition}
WrittenSlots(step) == {step.outputs[k] : k \in DOMAIN step.outputs}

Nodes(program) == {n \in DOMAIN program : ~ IsHardware(program[n])}

\* last_quantum, last_barrier and last_classical_write as node n finds them.
LastQuantum(program, n, slot) ==
    Max({0} \cup {m \in Nodes(program) : m < n /\ slot \in Touched(program[m])})
LastBarrier(program, n, slot) ==
    Max({0} \cup {m \in Nodes(program) :
                    m < n /\ slot \in Touched(program[m]) /\ program[m].op = "Barrier"})
LastWrite(program, n, slot) ==
    Max({0} \cup {m \in Nodes(program) : m < n /\ slot \in WrittenSlots(program[m])})

Edge(source, target, reason) == [source |-> source, target |-> target, reason |-> reason]

\* _build_instruction_dag: the edges into one node.
EdgesInto(program, n) ==
    LET touched == Touched(program[n])
        reason == IF program[n].op = "Barrier" THEN {"quantum", "barrier"} ELSE {"quantum"}
    IN  {e \in {Edge(LastQuantum(program, n, s), n, r) : s \in touched, r \in reason}
               \cup {Edge(LastBarrier(program, n, s), n, "barrier") : s \in touched}
               \cup {Edge(LastWrite(program, n, s), n, "classical") :
                        s \in ReadSlots(program[n]) \cup WrittenSlots(program[n])} :
           e.source # 0}

Dag(program) == UNION {EdgesInto(program, n) : n \in Nodes(program)}

\* _interaction_pairs: the applications of an operation on two targets.
InteractionPairs(step) ==
    IF step.arity # 2 THEN {}
    ELSE LET groups == Occurrences(step.targets)
         IN  {{groups[j][1], groups[j][2]} : j \in DOMAIN groups}

\* _build_interaction_frequency_graph: the weight of an edge.  The views of one
\* instruction are disjoint, so that it counts a pair once.
Frequency(program, pair) ==
    Cardinality({n \in Nodes(program) : pair \in InteractionPairs(program[n])})
=============================================================================
