-------------------------- MODULE ProgramAuthoring --------------------------
(***************************************************************************)
(* Authoring of programs: program.py and logical_program.py over the       *)
(* registers and graphs of the module extended here, with the binding of   *)
(* parameters.                                                             *)
(*                                                                         *)
(* A program owns a list of instructions that add and measure extend in    *)
(* place, and a tuple of it that is cached until the next change.  copy    *)
(* and assign_parameters make a second program with a list of its own; the *)
(* lists are apart from the programs that own them, so that two programs   *)
(* could share one.                                                        *)
(***************************************************************************)
EXTENDS ProgramTargets

CONSTANTS
    Layouts,     \* registers of programs: [q, c], sequences of names
    Adds,        \* calls of add: [op, arity, views, levels, args, operands, condition]
    Measures,    \* calls of measure: [targets, outputs]
    Mappings,    \* calls of assign_parameters: sequences of keys with values
    Batches,     \* calls of a sweep: sequences of keys with tables
    MaxLength,   \* bound on the instructions of a program
    MaxTotal     \* bound on the instructions of both when one is added

\* What Python guarantees of the arguments: operands, keys and tables are lists,
\* a reference was made by indexing its register (Register.__getitem__), and the
\* ranges of a block are integers (_validate_range).  Registers are not empty
\* and those of a program exist.
IsList(s) == Len(s) \in Nat /\ DOMAIN s = 1..Len(s)

ASSUME AuthoringAssumption ==
    /\ \A reg \in DOMAIN Registers :
          Registers[reg].rows \in Nat \ {0} /\ Registers[reg].cols \in Nat \ {0}
    /\ \A l \in Layouts :
          IsList(l.q) /\ \A k \in DOMAIN l.q : l.q[k] \in DOMAIN Registers
    /\ \A call \in Adds :
          /\ IsList(call.operands)
          /\ \A k \in DOMAIN call.operands :
                LET operand == call.operands[k] IN
                /\ operand.form = "ref" =>
                      /\ operand = Ref(operand.reg, operand.index)
                      /\ operand.index \in 0..(Size(operand.reg) - 1)
                /\ operand.form = "view" /\ operand.kind = "block" =>
                      \A i \in 1..4 : operand.at[i] \in Int
    /\ \A batch \in Batches :
          IsList(batch) /\ \A k \in DOMAIN batch : IsList(batch[k].rows)

Handles == {"template", "branch"}
Lists == {1, 2}

VARIABLES
    layout,    \* quantum_registers and classical_registers of both programs
    logical,   \* are they LogicalPrograms
    programs,  \* handle -> [list, view]: _operations and _operations_view, a
               \* set that is empty for None
    lists,     \* the contents of the mutable lists
    authored   \* history: what the calls made on each handle ask for

vars == <<layout, logical, programs, lists, authored>>

----------------------------------------------------------------------------
(* Binding of parameters: _parameter_binding.py and parameters.py.         *)
(* An argument of an operation is a number or a parameter, an element of a *)
(* named vector (a lone Parameter is vector of its own).  A key of a       *)
(* mapping is a parameter or a vector: its elements in index order.        *)

Number(value) == [symbolic |-> FALSE, vector |-> "", index |-> value]
Par(vector, index) == [symbolic |-> TRUE, vector |-> vector, index |-> index]

\* _discover_parameters: every consumer looks parameters up, none by position.
Present(instructions) ==
    {arg \in UNION {Range(instructions[k].args) : k \in DOMAIN instructions} : arg.symbolic}

\* _expand_parameter_bindings accepts the keys: no parameter is bound twice.
KeysAccepted(instructions, mapping) ==
    /\ \A k \in DOMAIN mapping :
          /\ mapping[k].elements # <<>>
          /\ Range(mapping[k].elements) \subseteq Present(instructions)
          /\ \A i, j \in DOMAIN mapping[k].elements :
                i # j => mapping[k].elements[i] # mapping[k].elements[j]
    /\ \A j, k \in DOMAIN mapping :
          j # k => Range(mapping[j].elements) \cap Range(mapping[k].elements) = {}

\* The element of a mapping that binds a parameter, and its place in the key.
Binder(mapping, p) == CHOOSE k \in DOMAIN mapping : p \in Range(mapping[k].elements)
Place(key, p) == CHOOSE i \in DOMAIN key.elements : key.elements[i] = p
Bound(mapping) == UNION {Range(mapping[k].elements) : k \in DOMAIN mapping}

\* _normalize_parameter_mapping: one number per element, missing keys allowed.
MappingAccepted(instructions, mapping) ==
    /\ KeysAccepted(instructions, mapping)
    /\ \A k \in DOMAIN mapping : Len(mapping[k].values) = Len(mapping[k].elements)

Normalized(mapping) ==
    [p \in Bound(mapping) |->
       LET key == mapping[Binder(mapping, p)] IN key.values[Place(key, p)]]

\* _normalize_parameter_batch, with _materialize_batch_array: a table per key.
BatchAccepted(instructions, batch) ==
    /\ KeysAccepted(instructions, batch)
    /\ Present(instructions) # {}
    /\ Present(instructions) \subseteq Bound(batch)
    /\ \A k \in DOMAIN batch :
          /\ batch[k].rank = IF batch[k].isVector THEN 2 ELSE 1
          /\ batch[k].rows # <<>>
          /\ Len(batch[k].rows) = Len(batch[1].rows)
          /\ \A j \in DOMAIN batch[k].rows :
                Len(batch[k].rows[j]) = Len(batch[k].elements)

\* Faulty variant: a vector gives all its elements the first column.
RowsOfFirstColumn(instructions, batch) ==
    [j \in DOMAIN batch[1].rows |->
       [p \in Present(instructions) |->
          LET key == batch[Binder(batch, p)] IN key.rows[j][1]]]

\* _parameter_batch_rows: one mapping of every parameter per row.
Rows(instructions, batch) ==
    [j \in DOMAIN batch[1].rows |->
       [p \in Present(instructions) |->
          LET key == batch[Binder(batch, p)] IN key.rows[j][Place(key, p)]]]

\* _replace_parameterized_instructions.
Replace(instructions, numbers) ==
    [k \in DOMAIN instructions |->
       [instructions[k] EXCEPT !.args =
          [i \in DOMAIN instructions[k].args |->
             LET arg == instructions[k].args[i]
             IN  IF arg \in DOMAIN numbers THEN Number(numbers[arg]) ELSE arg]]]

\* _raise_for_unbound_parameters: numeric execution and export accept these.
Executable(instructions) == Present(instructions) = {}
----------------------------------------------------------------------------
(* The programs.                                                           *)

\* The registers of a program are distinct objects (_coerce_registers).
Distinct(names) == \A j, k \in DOMAIN names : j # k => names[j] # names[k]

Init ==
    /\ layout \in {l \in Layouts : Distinct(l.q) /\ Distinct(l.c)}
    /\ logical \in BOOLEAN
    /\ programs = [h \in {"template"} |-> [list |-> 1, view |-> {<<>>}]]
    /\ lists = [l \in Lists |-> <<>>]
    /\ authored = [h \in {"template"} |-> <<>>]

\* Program._instructions: the cached tuple, or a new one of the list.
Instructions(h) ==
    IF programs[h].view = {} THEN lists[programs[h].list]
    ELSE CHOOSE cached \in programs[h].view : TRUE

\* Operands to targets; a lone view of a variable-arity operation is expanded.
Targets(call) ==
    LET refs == [k \in DOMAIN call.operands |-> Resolved(layout.q, call.operands[k])] IN
    IF call.arity = 0 /\ call.views /\ Len(refs) = 1 /\ IsView(refs[1])
    THEN Members(refs[1]) ELSE refs

\* LogicalProgram.add refuses operations that are not logical.
AddAccepted(call) ==
    /\ logical => ~ IsHardware(call)
    /\ \A k \in DOMAIN call.operands : Resolvable(layout.q, call.operands[k])
    /\ call.arity = 0 /\ (\E k \in DOMAIN call.operands : IsView(call.operands[k]))
       => ~ call.views \/ Len(call.operands) = 1
    /\ ConditionAccepted(layout.c, call.condition)
    /\ Applies(call, Targets(call))

Applied(call) ==
    [op |-> call.op, arity |-> call.arity, args |-> call.args, targets |-> Targets(call),
     condition |-> Condition(layout.c, call.condition), outputs |-> <<>>]

Measured(targets, outputs) ==
    [op |-> "Measurement", arity |-> 0, args |-> <<>>, targets |-> targets,
     condition |-> <<>>, outputs |-> outputs]

\* The bound on what is authored.
Room(h) ==
    /\ Len(authored[h]) < MaxLength
    /\ IF "branch" \in DOMAIN authored
       THEN Len(authored["template"]) + Len(authored["branch"]) < MaxTotal
       ELSE TRUE

\* An accepted call appends to the list and drops the cached tuple.
Record(h, instruction) ==
    /\ Room(h)
    /\ lists' = [lists EXCEPT ![programs[h].list] = Append(@, instruction)]
    /\ programs' = [programs EXCEPT ![h].view = {}]
    /\ authored' = [authored EXCEPT ![h] = Append(@, instruction)]
    /\ UNCHANGED <<layout, logical>>

Add(h) == \E call \in Adds : AddAccepted(call) /\ Record(h, Applied(call))

Measure(h) ==
    \E call \in Measures :
       LET targets == [k \in DOMAIN call.targets |-> Resolved(layout.q, call.targets[k])]
           outputs == [k \in DOMAIN call.outputs |-> Resolved(layout.c, call.outputs[k])]
       IN  /\ \A k \in DOMAIN call.targets : Resolvable(layout.q, call.targets[k])
           /\ \A k \in DOMAIN call.outputs : Resolvable(layout.c, call.outputs[k])
           /\ Measurable(targets, outputs)
           /\ Record(h, Measured(targets, outputs))

\* measure_all without outputs: the first classical slots.
MeasureAll(h) ==
    LET targets == Slots(layout.q)
        outputs == SubSeq(Slots(layout.c), 1, Len(targets))
    IN  /\ Len(Slots(layout.c)) >= Len(targets)
        /\ Measurable(targets, outputs)
        /\ Record(h, Measured(targets, outputs))

\* Reading instructions fills the cache.
Read(h) ==
    /\ programs' = [programs EXCEPT ![h].view = {Instructions(h)}]
    /\ UNCHANGED <<layout, logical, lists, authored>>

\* Faulty variant: the copy keeps the list of the original.
CopyWithSharing(instructions) ==
    [h \in Handles |-> IF h = "template" THEN programs[h]
                       ELSE [list |-> programs["template"].list, view |-> {instructions}]]

\* _copy_with_operations: a program with a list and a tuple of its own.
CopyWith(instructions) ==
    [h \in Handles |-> IF h = "template" THEN programs[h]
                       ELSE [list |-> 2, view |-> {instructions}]]

Copy ==
    /\ programs' = CopyWith(lists[1])
    /\ lists' = [lists EXCEPT ![2] = lists[1]]
    /\ authored' = [h \in Handles |-> authored["template"]]
    /\ UNCHANGED <<layout, logical>>

\* What a mapping asks for, stated on each argument.
Substituted(instructions, mapping) ==
    [n \in DOMAIN instructions |->
       [instructions[n] EXCEPT !.args =
          [i \in DOMAIN instructions[n].args |->
             LET arg == instructions[n].args[i]
                 given == UNION {{mapping[k].values[j] :
                                   j \in {x \in DOMAIN mapping[k].elements :
                                             mapping[k].elements[x] = arg}} :
                                 k \in DOMAIN mapping}
             IN  IF given = {} THEN arg ELSE Number(CHOOSE v \in given : TRUE)]]]

\* assign_parameters: the template's tuple is read, the copy holds the numbers.
Assign ==
    \E mapping \in Mappings :
       LET template == Instructions("template")
           bound == Replace(template, Normalized(mapping))
       IN  /\ MappingAccepted(template, mapping)
           /\ programs' = [CopyWith(bound) EXCEPT !["template"].view = {template}]
           /\ lists' = [lists EXCEPT ![2] = bound]
           /\ authored' = [h \in Handles |->
                IF h = "template" THEN authored[h]
                ELSE Substituted(authored["template"], mapping)]
           /\ UNCHANGED <<layout, logical>>

\* The programs of a sweep (_assign_normalized_parameters): reading the
\* template fills its cache and nothing else changes.
SweepPrograms(template, batch) ==
    LET rows == Rows(template, batch)
    IN  [j \in DOMAIN rows |-> Replace(template, rows[j])]

Sweep(h) == \E batch \in Batches : BatchAccepted(Instructions(h), batch) /\ Read(h)

Next ==
    \/ \E h \in DOMAIN programs : Add(h) \/ Measure(h) \/ MeasureAll(h) \/ Read(h)
                                  \/ Sweep(h)
    \/ Copy
    \/ Assign

Spec == Init /\ [][Next]_vars

----------------------------------------------------------------------------
(* Properties.                                                             *)

\* The instructions a program shows are those its calls asked for, in order:
\* no call is lost in the cache or seen by the other program, and a binding
\* replaces every use of its parameters and nothing else (program.py:201-213,
\* 640-674, 721-730).
InstructionsAreCalls ==
    \A h \in DOMAIN programs :
       /\ Instructions(h) = authored[h]
       /\ lists[programs[h].list] = authored[h]

\* The applications of an instruction are apart and on slots of these registers.
AppliesApart(names, targets) ==
    LET groups == Occurrences(targets) IN
    \A j \in DOMAIN groups : \A k \in DOMAIN groups[j] :
       LET slot == groups[j][k] IN
       /\ Owned(names, slot.reg) /\ slot.index \in 0..(Size(slot.reg) - 1)
       /\ \A i \in DOMAIN groups : \A l \in DOMAIN groups[i] :
             i # j \/ l # k => groups[i][l] # slot

\* Every instruction acts on slots of the program, and its applications, the
\* zipped members of grouped views too, act on no slot twice
\* (_AppliedOperation.__post_init__, registers.py:503-561).
OccurrencesDisjoint ==
    \A h \in DOMAIN programs : \A n \in DOMAIN Instructions(h) :
       Instructions(h)[n].op # "Measurement" => AppliesApart(layout.q, Instructions(h)[n].targets)

\* Every row of a sweep is the template with each parameter replaced by its
\* own column's entry in that row, and no parameter is left, whatever the
\* order of the columns and of the parameters' uses (_parameter_binding.py).
SweepRowsBindColumns ==
    \A h \in DOMAIN programs, batch \in Batches :
       BatchAccepted(Instructions(h), batch) =>
          LET swept == SweepPrograms(Instructions(h), batch) IN
          /\ Len(swept) = Len(batch[1].rows)
          /\ \A j \in DOMAIN swept :
                /\ Executable(swept[j])
                /\ swept[j] = Substituted(authored[h],
                     [k \in DOMAIN batch |-> [elements |-> batch[k].elements,
                                             values |-> batch[k].rows[j]]])

\* What two instructions share: slots their applications act on, and classical
\* slots that the earlier one writes.
ActedOn(step) ==
    UNION {Range(Occurrences(step.targets)[j]) : j \in DOMAIN Occurrences(step.targets)}

Depends(program, m, n) ==
    \/ ActedOn(program[m]) \cap ActedOn(program[n]) # {}
    \/ WrittenSlots(program[m]) \cap
         (ReadSlots(program[n]) \cup WrittenSlots(program[n])) # {}

\* A path of edges leads from m to n: no set closed under the edges has m alone.
Precedes(program, m, n) ==
    \A S \in SUBSET Nodes(program) :
       m \in S /\ (\A e \in Dag(program) : e.source \in S => e.target \in S) => n \in S

\* The applications of two-target operations, as <<instruction, number>>, and
\* the slots of one.
PairApplications(program) ==
    UNION {{<<n, j>> : j \in DOMAIN Occurrences(program[n].targets)} :
           n \in {k \in Nodes(program) : program[k].arity = 2}}
PairAt(program, at) == Range(Occurrences(program[at[1]].targets)[at[2]])

\* A path leads from the earlier of two logical instructions to the later one
\* when they share a qubit, when the later is conditioned on what the earlier
\* writes and when both write one classical slot; every edge has such a
\* reason, and the interaction graph weighs every pair by how often it is ever
\* acted on (_program_graph.py:252-399).  A condition followed by the next
\* write of its slot is not ordered.
DagOrdersShared ==
    \A h \in DOMAIN programs :
       LET program == Instructions(h) IN
       /\ \A e \in Dag(program) : e.source < e.target /\ Depends(program, e.source, e.target)
       /\ \A m, n \in Nodes(program) : m < n /\ Depends(program, m, n) => Precedes(program, m, n)
       /\ \A applied \in PairApplications(program) :
             LET pair == PairAt(program, applied) IN
             Frequency(program, pair) =
               Cardinality({at \in PairApplications(program) : PairAt(program, at) = pair})
=============================================================================
