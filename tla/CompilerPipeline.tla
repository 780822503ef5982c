-------------------------- MODULE CompilerPipeline --------------------------
(***************************************************************************)
(* The compiler: compiler/core.py (Compiler, Pipeline), compiler/ir.py,    *)
(* compiler/pipelines.py and the passes they are made of.  A user writes a *)
(* program, or an OpenQASM text, or exports the program as text; compile   *)
(* verifies the source, runs one pass after another, verifies what each    *)
(* produced and stops at the boundary asked for.                           *)
(*                                                                         *)
(* The last pass of the neutral-atom pipelines, schedule_with_zap, is      *)
(* modelled in ZonedPlan, so boundaries end at the atom gate program here. *)
(***************************************************************************)
EXTENDS Integers, Sequences, FiniteSets

LOCAL INSTANCE SequencesExt  \* FlattenSeq

CONSTANTS
    Quantum, Classical,  \* the declared registers: sequences of [name, size]
    Fresh,               \* the wire a reset exchanges in
    Couplings,           \* the edges of the superconducting target
    MaxSwaps,            \* swaps a routing may use
    Families,            \* what may be written: [kind, parts, bound, jobs]
    Reserved, MaxNesting, Unbound

\* _declared_refs.
RefsOf(side, registers) ==
    FlattenSeq([r \in DOMAIN registers |->
                  [k \in 1..registers[r].size |-> <<side, r, k - 1>>]])

Qubits == RefsOf("q", Quantum)
Clbits == RefsOf("c", Classical)
SetOf(s) == {s[k] : k \in DOMAIN s}

Sc == INSTANCE ScNormalize WITH Qubits <- SetOf(Qubits)
Na == INSTANCE NaNormalize
Device == INSTANCE NativeLowering
Qasm == INSTANCE QasmText
INSTANCE CliffordAction
    WITH Wires <- SetOf(Qubits) \cup SetOf(Clbits) \cup {Fresh} \cup UNION Couplings

ASSUME PipelineAssumption ==
    /\ MaxSwaps \in Nat
    /\ Unbound \in Int
    /\ \A edge \in Couplings : Cardinality(edge) = 2
    /\ \A family \in Families : family.bound \in Nat

\* The lowering of a Toffoli, which no run writes.
ASSUME ToffoliLowering == Sc!ToffoliIsDoublyControlled

VARIABLES
    family,      \* what is being written
    written,     \* the instructions, or the statements after the declarations
    text,        \* the OpenQASM text that exists: {} or {text}
    job,         \* [pipeline, emit] of the compilation
    current,     \* [ir, program]: the value at the boundary reached
    routed,      \* {} or {the layouts of the routing chosen by the router}
    route,       \* names of the passes run
    outcome      \* "writing", "compiling", "result" or the error raised

vars == <<family, written, text, job, current, routed, route, outcome>>

----------------------------------------------------------------------------
(* Pipelines: passes with the IR each consumes and produces.               *)

Pass(name, from, to) == [name |-> name, from |-> from, to |-> to]

ParseQasm == Pass("parse-qasm", "qasm.text", "gate.logical")
FreezeLogical == Pass("freeze-logical", "program", "gate.logical")
NormalizeSc == Pass("normalize-sc", "gate.logical", "sc.gate")
NormalizeNa == Pass("normalize-na", "gate.logical", "na.gate")
LowerToNative == Pass("lower-sc-to-native", "sc.gate", "sc.native")
LowerToRotation == Pass("lower-sc-to-rotation", "sc.gate", "sc.rotation")

Pipelines ==
    [name \in {"qasm-to-sc", "logical-to-sc", "qasm-to-sc-rotation", "qasm-to-na", "logical-to-na"} |->
       CASE name = "qasm-to-sc" -> <<ParseQasm, NormalizeSc, LowerToNative>>
         [] name = "logical-to-sc" -> <<FreezeLogical, NormalizeSc, LowerToNative>>
         [] name = "qasm-to-sc-rotation" -> <<ParseQasm, NormalizeSc, LowerToRotation>>
         [] name = "qasm-to-na" -> <<ParseQasm, NormalizeNa>>
         [] name = "logical-to-na" -> <<FreezeLogical, NormalizeNa>>]

\* boundary_types, and the check of Pipeline.__post_init__.
Boundaries(passes) == <<passes[1].from>> \o [k \in DOMAIN passes |-> passes[k].to]

ASSUME PassesCompatible ==
    \A name \in DOMAIN Pipelines :
       LET passes == Pipelines[name] IN
       \A k \in 1..(Len(passes) - 1) : passes[k].to = passes[k + 1].from

----------------------------------------------------------------------------
(* The logical IR: passes/qasm.py and dialects/logical_gate.py.            *)

Gate(op, qubits, turns, clbits) ==
    [op |-> op, qubits |-> qubits, turns |-> turns, clbits |-> clbits]

\* _expanded_operands: a view stands for its members, position by position.
Scalars(instruction) ==
    IF instruction.view
    THEN [i \in DOMAIN instruction.targets[1] |->
            [k \in DOMAIN instruction.targets |-> instruction.targets[k][i]]]
    ELSE <<[k \in DOMAIN instruction.targets |-> instruction.targets[k][1]]>>

\* Faulty variant: the measured qubits are read in the opposite order.
GatesReversed(instruction) ==
    IF instruction.op = "Measure"
    THEN [k \in DOMAIN instruction.targets |->
            Gate("Measure", instruction.targets[Len(instruction.targets) + 1 - k], <<0>>,
                 <<instruction.outputs[k]>>)]
    ELSE [i \in DOMAIN Scalars(instruction) |->
            Gate(instruction.op, Scalars(instruction)[i], instruction.turns, <<>>)]

GatesOf(instruction) ==
    IF instruction.op = "Measure"
    THEN [k \in DOMAIN instruction.targets |->
            Gate("Measure", instruction.targets[k], <<0>>, <<instruction.outputs[k]>>)]
    ELSE [i \in DOMAIN Scalars(instruction) |->
            Gate(instruction.op, Scalars(instruction)[i], instruction.turns, <<>>)]

Snapshot(instructions) ==
    FlattenSeq([k \in DOMAIN instructions |-> GatesOf(instructions[k])])

SnapshotRefuses(instructions) ==
    \E k \in DOMAIN instructions : instructions[k].condition # <<>>

\* _verify_numeric_angle looks at theta only, so not at U1, U2 and the
\* second and third angle of U and U3.
HasTheta == {"RX", "RY", "RZ", "Phase", "CPhase", "U", "U3", "SubspaceRY10", "SubspaceRZ10"}

LogicalVerifies(logical) ==
    /\ \A j, k \in DOMAIN logical :
          j < k /\ logical[j].op = "Measure" =>
             logical[k].op = "Measure" /\ logical[k].clbits # logical[j].clbits
    /\ \A k \in DOMAIN logical :
          /\ logical[k].op \in HasTheta => logical[k].turns[1] # Unbound
          /\ \A i, j \in DOMAIN logical[k].qubits :
                i # j => logical[k].qubits[i] # logical[k].qubits[j]

----------------------------------------------------------------------------
(* What is written.                                                        *)

Program(instructions) ==
    [quantum |-> Quantum, classical |-> Classical, instructions |-> instructions]

\* A text that declares the registers and goes on with the given statements.
TextOf(statements) ==
    Qasm!Exported(Program(<<>>), 3) \o statements

Nothing == [ir |-> "none", program |-> <<>>]

Init ==
    /\ family \in Families
    /\ written = <<>>
    /\ text = {}
    /\ job = [pipeline |-> "none", emit |-> "none"]
    /\ current = Nothing
    /\ routed = {}
    /\ route = <<>>
    /\ outcome = "writing"

\* The next instruction of the program, or the next statement of the text.
Write(part) ==
    /\ outcome = "writing" /\ text = {}
    /\ Len(written) < family.bound
    /\ written' = Append(written, part)
    /\ UNCHANGED <<family, text, job, current, routed, route, outcome>>

\* The text is complete, or the program is exported: to_qasm.
Save(version) ==
    /\ outcome = "writing" /\ text = {} /\ version \in family.versions
    /\ IF family.kind = "text" THEN text' = {TextOf(written)} /\ outcome' = outcome
       ELSE IF Qasm!ExportRefuses(Program(written), version)
       THEN text' = {} /\ outcome' = "QasmExportError"
       ELSE text' = {Qasm!Exported(Program(written), version)} /\ outcome' = outcome
    /\ UNCHANGED <<family, written, job, current, routed, route>>

----------------------------------------------------------------------------
(* Compiler.compile.                                                       *)

Verifies(ir, program) ==
    CASE ir \in {"qasm.text", "program"} -> TRUE
      [] ir = "gate.logical" -> LogicalVerifies(program)
      [] ir = "sc.gate" -> Sc!ScVerifies(program)
      [] ir = "na.gate" -> Na!NaVerifies(program)
      [] ir = "sc.native" -> Device!NativeVerifies("sx", program)
      [] ir = "sc.rotation" -> Device!NativeVerifies("rotation", program)

Source(pipeline) ==
    LET ir == Pipelines[pipeline][1].from IN
    IF ir = "qasm.text" THEN [ir |-> ir, program |-> CHOOSE t \in text : TRUE]
    ELSE [ir |-> ir, program |-> written]

\* The checks before the first pass; a source that is asked for is returned.
Compile(pipeline, emit) ==
    /\ outcome = "writing"
    /\ [pipeline |-> pipeline, emit |-> emit] \in family.jobs
    /\ Pipelines[pipeline][1].from = "qasm.text" <=> text # {}
    /\ job' = [pipeline |-> pipeline, emit |-> emit]
    /\ IF emit \notin SetOf(Boundaries(Pipelines[pipeline]))
       THEN outcome' = "EmitNotFoundError" /\ current' = Nothing
       ELSE /\ current' = Source(pipeline)
            /\ outcome' = IF emit = current'.ir THEN "result" ELSE "compiling"
    /\ UNCHANGED <<family, written, text, routed, route>>

\* What each pass returns; the empty set when it raises.
Translated(pass, program, routing) ==
    CASE pass = FreezeLogical ->
            IF SnapshotRefuses(program) THEN {} ELSE {Snapshot(program)}
      [] pass = ParseQasm ->
            IF \/ Qasm!ImportRefuses(program)
               \/ SnapshotRefuses(Qasm!Imported(program).instructions) THEN {}
            ELSE {Snapshot(Qasm!Imported(program).instructions)}
      [] pass = NormalizeSc -> IF Sc!ScRefuses(program) THEN {} ELSE {Sc!ScNormalized(program)}
      [] pass = NormalizeNa -> IF Na!NaRefuses(program) THEN {} ELSE {Na!NaNormalized(program)}
      [] pass \in {LowerToNative, LowerToRotation} ->
            LET basis == IF pass = LowerToNative THEN "sx" ELSE "rotation"
                native == Device!NativeProgram(basis, program, routing.initial, routing.result, Clbits)
            IN  IF Device!NativeVerifies(basis, native) /\ Device!OnTarget(native)
                THEN {native} ELSE {}

\* One turn of the loop: run the next pass, verify its output, go on or stop.
Translate(routing) ==
    LET pass == Pipelines[job.pipeline][Len(route) + 1]
        output == Translated(pass, current.program, routing)
    IN  IF output = {}
        THEN outcome' = "PassError" /\ current' = Nothing /\ UNCHANGED route
        ELSE LET program == CHOOSE p \in output : TRUE IN
             IF ~Verifies(pass.to, program)
             THEN outcome' = "ValidationError" /\ current' = Nothing /\ UNCHANGED route
             ELSE /\ current' = [ir |-> pass.to, program |-> program]
                  /\ route' = Append(route, pass.name)
                  /\ outcome' = IF pass.to = job.emit THEN "result" ELSE "compiling"

NextPass == Pipelines[job.pipeline][Len(route) + 1]

\* A pass that only computes.
RunPass ==
    /\ outcome = "compiling"
    /\ NextPass \notin {LowerToNative, LowerToRotation}
    /\ Translate(<<>>)
    /\ UNCHANGED <<family, written, text, job, routed>>

\* The router chooses a layout and swaps; lowering does the rest.
Swaps == UNION {[1..n -> Couplings] : n \in 0..MaxSwaps}

LowerToSites(initial, swaps) ==
    LET result == Device!Routed(current.program, initial, swaps) IN
    /\ Device!Completes(current.program, result)
    /\ Translate([initial |-> initial, result |-> result])
    /\ routed' = {[initial |-> initial, final |-> result.layout]}
    /\ UNCHANGED <<family, written, text, job>>

Next ==
    \/ \E part \in family.parts : Write(part)
    \/ \E version \in {2, 3} : Save(version)
    \/ \E wanted \in family.jobs : Compile(wanted.pipeline, wanted.emit)
    \/ RunPass
    \/ /\ outcome = "compiling" /\ NextPass \in {LowerToNative, LowerToRotation}
       /\ \E initial \in Device!Layouts, swaps \in Swaps : LowerToSites(initial, swaps)

Spec == Init /\ [][Next]_vars

----------------------------------------------------------------------------
(* Properties.                                                             *)

\* Generators on the wires of a program.
ProgramGenerators ==
    {p \in Generators : p.x \cup p.z \subseteq SetOf(Qubits) \cup SetOf(Clbits) \cup {Fresh}}

Valuations == [SetOf(Clbits) -> {0, 1}]

\* What instructions do when the classical bits have the given values.
Meaning(instructions, bits, p) ==
    LET Active(instruction) ==
          \A k \in DOMAIN instruction.condition :
             bits[instruction.condition[k][1]] = instruction.condition[k][2]
    IN  Behaviour(Snapshot(SelectSeq(instructions, Active)), p, Fresh)

\* What a call does, from the definitions of the text inwards.
RECURSIVE Effect(_, _, _, _, _)
Effect(gates, name, turns, qubits, p) ==
    LET known == {k \in DOMAIN gates : gates[k].gate = name} IN
    IF known = {}
    THEN IF name = "Barrier" THEN p
         ELSE Conjugate(p, Gate(IF name = "Reset" THEN name ELSE Qasm!Builtin(name)[1],
                                qubits, turns, <<>>), Fresh)
    ELSE LET gate == gates[CHOOSE k \in known : TRUE]
             image[k \in 0..Len(gate.body)] ==
               IF k = 0 THEN p
               ELSE LET inner == gate.body[k] IN
                    Effect(gates, inner.name, Qasm!BodyTurns(inner.turns, turns),
                           [i \in DOMAIN inner.operands |-> qubits[inner.operands[i]]], image[k - 1])
         IN  image[Len(gate.body)]

\* The reference an operand of a text names at one place of a broadcast; a
\* register of one qubit is a scalar.
At(side, operand, place) ==
    LET registers == IF side = "q" THEN Quantum ELSE Classical
        names == Qasm!Names(Program(<<>>))
        r == CHOOSE k \in DOMAIN registers : names[side][k] = operand.name
    IN  <<side, r, IF operand.index # Qasm!Whole THEN operand.index
                   ELSE IF registers[r].size = 1 THEN 0 ELSE place - 1>>

SizeOf(side, operand) ==
    IF operand.index # Qasm!Whole THEN 1
    ELSE LET registers == IF side = "q" THEN Quantum ELSE Classical IN
         registers[At(side, operand, 1)[2]].size

\* An if compares the number a register holds, bit 0 lowest, or one bit.
Holds(term, bits) ==
    LET size == SizeOf("c", term.operand)
        held[k \in 0..size] ==
          IF k = 0 THEN 0
          ELSE held[k - 1] + bits[At("c", term.operand, k)] * 2 ^ (k - 1)
    IN  (held[size] = term.value) = term.equal

\* What one statement does: once for each place of its widest operand.
StatementEffect(statements, statement, bits, p) ==
    LET measure == statement.kind = "measure"
        operands == IF measure THEN <<statement.operands[1]>> ELSE statement.block[1].operands
        width == CHOOSE n \in {SizeOf("q", operands[k]) : k \in DOMAIN operands} :
                    \A k \in DOMAIN operands : SizeOf("q", operands[k]) <= n
        gates == Qasm!GateDefinitions(statements)
        image[i \in 0..width] ==
          IF i = 0 THEN p
          ELSE LET qubits == [k \in DOMAIN operands |-> At("q", operands[k], i)] IN
               IF measure
               THEN Conjugate(image[i - 1], Gate("Measure", qubits, <<0>>,
                                 <<At("c", statement.operands[2], i)>>), Fresh)
               ELSE Effect(gates, statement.block[1].name, statement.block[1].turns, qubits,
                           image[i - 1])
    IN  IF \A k \in DOMAIN statement.guard : Holds(statement.guard[k], bits)
        THEN image[width] ELSE p

TextMeaning(statements, bits, p) ==
    LET image[k \in 0..Len(statements)] ==
          IF k = 0 THEN p
          ELSE IF statements[k].kind \in {"measure", "call"}
          THEN StatementEffect(statements, statements[k], bits, image[k - 1])
          ELSE image[k - 1]
    IN  image[Len(statements)]

NoBits == [c \in SetOf(Clbits) |-> 0]

SourceMeaning(p) ==
    IF family.kind = "text" THEN TextMeaning(written, NoBits, p) ELSE Meaning(written, NoBits, p)

Relabelled(p, to) ==
    LET Moved(S) == {IF w \in DOMAIN to THEN to[w] ELSE w : w \in S} IN
    [p EXCEPT !.x = Moved(@), !.z = Moved(@)]

(* Every program the compiler produces, at every boundary, does what the   *)
(* source does, up to a global phase: lowering, merging rotations across   *)
(* other qubits' nodes, cancelling CZ pairs, routing, deferring            *)
(* measurements to the final layout, and placing sites on references       *)
(* change nothing (test_sc_normalization.py:41).                           *)
MeaningPreserved ==
    \A p \in ProgramGenerators :
       CASE current.ir \in {"gate.logical", "na.gate"} ->
               Behaviour(current.program, p, Fresh) = SourceMeaning(p)
         [] current.ir = "sc.gate" ->
               Behaviour(current.program.nodes, p, Fresh) = SourceMeaning(p)
         [] current.ir \in {"sc.native", "sc.rotation"} ->
               LET native == current.program
                   executable == Device!Executable(native)
                   refs == [s \in SetOf(Device!SitesMet(native)) |->
                              CHOOSE ref \in DOMAIN executable.layout : executable.layout[ref] = s]
                   In == Relabelled(p, native.initial)
                   Out == Relabelled(SourceMeaning(p), native.final)
               IN  /\ Behaviour(native.operations, In, Fresh) = Out
                   /\ Behaviour(executable.instructions, Relabelled(In, refs), Fresh)
                         = Relabelled(Out, refs)
         [] OTHER -> TRUE

\* What a compilation to a boundary needs of its source.
Compilable(instructions, ir) ==
    LET gates == Snapshot(instructions)
        Ops == {gates[k].op : k \in DOMAIN gates} \ {"Measure"}
        measured == {k \in DOMAIN gates : gates[k].op = "Measure"}
        Numeric == \A k \in DOMAIN gates : \A i \in DOMAIN gates[k].turns :
                      gates[k].turns[i] # Unbound
        Theta == \A k \in DOMAIN gates : gates[k].op \in HasTheta => gates[k].turns[1] # Unbound
    IN  /\ \A k \in DOMAIN instructions : instructions[k].condition = <<>>
        /\ \A k \in measured : k..Len(gates) \subseteq measured
        /\ \A j, k \in measured : j # k => gates[j].clbits # gates[k].clbits
        /\ Theta
        /\ ir # "gate.logical" => Numeric
        /\ ir = "na.gate" => Ops \subseteq Na!NaGates
        /\ ir \in {"sc.gate", "sc.native", "sc.rotation"} =>
              /\ Ops \subseteq Sc!ScGates
              /\ \A j, k \in measured : j # k => gates[j].qubits # gates[k].qubits

(* A source compiles exactly when it is static, its gates are in the gate  *)
(* set of the target and, for superconducting targets, no qubit is         *)
(* measured twice, and what it holds is of the boundary reached: no pass produces a program its verifier refuses, and    *)
(* an angle that is still a Parameter never reaches a target, although     *)
(* verify_logical_ir looks at theta only (logical_gate.py:109).            *)
AcceptedProgramsCompile ==
    LET boundaries == Boundaries(Pipelines[job.pipeline])
        instructions ==
          IF family.kind = "text" THEN Qasm!Imported(CHOOSE t \in text : TRUE).instructions
          ELSE written
        Accepted ==
          /\ job.emit \in SetOf(boundaries)
          /\ job.emit # boundaries[1] =>
                /\ text # {} => ~Qasm!ImportRefuses(CHOOSE t \in text : TRUE)
                /\ Compilable(instructions, job.emit)
    IN  /\ outcome \in {"result", "EmitNotFoundError", "PassError", "ValidationError"} =>
              (outcome = "result" <=> Accepted)
        /\ outcome \in {"compiling", "result"} =>
              current.ir = boundaries[Len(route) + 1]

(* A normalised superconducting program has nothing left to merge: no two  *)
(* neighbours on a wire turn about one axis, and no two CZs are neighbours *)
(* on both their wires, although neighbours may come together only when    *)
(* what stood between them vanishes (sc.py:48-62).                         *)
NothingLeftToMerge ==
    current.ir = "sc.gate" =>
       LET program == current.program
           Neighbours(q, first, second) ==
              \E k \in 1..(Len(program.wires[q]) - 1) :
                 program.wires[q][k] = first /\ program.wires[q][k + 1] = second
       IN  \A first, second \in DOMAIN program.nodes :
              LET a == program.nodes[first]
                  b == program.nodes[second]
              IN  /\ a.op \in {"RX", "RZ"} /\ a.op = b.op =>
                        /\ ~Neighbours(a.qubits[1], first, second)
                        /\ a.turns[1] % Sc!FullTurn # 0
                  /\ a.op = "CZ" /\ b.op = "CZ" =>
                        ~ (\A k \in {1, 2} : Neighbours(a.qubits[k], first, second))

(* What may compile does, to the end of its pipeline and of its rewriting. *)
CompilesToNormalForm == AcceptedProgramsCompile /\ NothingLeftToMerge

\* The if of OpenQASM 3 may guard several lines, of which the importer takes one.
GuardsSeveralResets(instruction) ==
    /\ instruction.op = "Reset" /\ instruction.condition # <<>>
    /\ Len(instruction.targets) > 1
\* Program takes a guard that asks for two values of one bit; the importer does not.
GuardContradicts(instruction) ==
    /\ instruction.op # "Barrier" /\ ~Qasm!Elided(instruction)
    /\ \E j, k \in DOMAIN instruction.condition :
          /\ instruction.condition[j][1] = instruction.condition[k][1]
          /\ instruction.condition[j][2] # instruction.condition[k][2]

(* A program that is exported and imported again does the same in every    *)
(* valuation of its classical bits, in both versions and whatever its      *)
(* registers are called; only a conditioned reset of several qubits and a  *)
(* guard that contradicts itself, in OpenQASM 3, are not read back.        *)
QasmRoundTrip ==
    family.kind = "program" /\ text # {} =>
       LET saved == CHOOSE t \in text : TRUE
           back == Qasm!Imported(saved)
       IN  /\ Qasm!ImportRefuses(saved) <=>
                 /\ saved[1].version = 3
                 /\ \E k \in DOMAIN written : \/ GuardsSeveralResets(written[k])
                                              \/ GuardContradicts(written[k])
           /\ ~Qasm!ImportRefuses(saved) =>
                 /\ Len(back.quantum) = Len(Quantum) /\ Len(back.classical) = Len(Classical)
                 /\ \A bits \in Valuations : \A p \in ProgramGenerators :
                       Meaning(back.instructions, bits, p) = Meaning(written, bits, p)

(* A text that is imported does what its statements say: calls of local    *)
(* definitions, operands broadcast over registers, guards on bits and on   *)
(* the number a register holds.                                            *)
TextsMeanTheirCalls ==
    family.kind = "text" /\ text # {} =>
       LET saved == CHOOSE t \in text : TRUE IN
       ~Qasm!ImportRefuses(saved) =>
          \A bits \in Valuations : \A p \in ProgramGenerators :
             Meaning(Qasm!Imported(saved).instructions, bits, p) = TextMeaning(written, bits, p)

(* Neither export nor import changes what a program does.                  *)
TextsAreFaithful == QasmRoundTrip /\ TextsMeanTheirCalls
=============================================================================
