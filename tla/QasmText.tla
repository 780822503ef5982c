------------------------------ MODULE QasmText ------------------------------
(***************************************************************************)
(* Programs to OpenQASM 2 and 3 and back: qasm.py.                         *)
(*                                                                         *)
(* A text is a sequence of statements, as _split_statements and the        *)
(* regular expressions cut it: the version, register declarations, gate    *)
(* definitions, measurements, and calls.  A call may be guarded by an if,  *)
(* with one or more calls in the block.  An angle counts eighths of a turn *)
(* (_fmt writes a literal that _eval_angle reads back); in the body of a   *)
(* gate definition it may be a parameter plus a number.                    *)
(*                                                                         *)
(* Names of gates are those of the operations; aliases are in Builtin.     *)
(* A program is [quantum, classical: sequences of registers, instructions].*)
(* A reference is <<"q" or "c", position of its register, index>>.         *)
(***************************************************************************)
EXTENDS Integers, Sequences, FiniteSets

LOCAL INSTANCE SequencesExt  \* FlattenSeq
LOCAL INSTANCE FiniteSetsExt \* SumSet
Longest(S) == IF S = {} THEN 0 ELSE CHOOSE n \in S : \A m \in S : m <= n

CONSTANTS
    Reserved,    \* words that no register of a text may be called
    MaxNesting,  \* how deep gate definitions may nest (64 in the code)
    Unbound      \* stands for an angle that is still a Parameter

Instruction(op, targets, turns) ==
    [op |-> op, targets |-> targets, view |-> FALSE, turns |-> turns, outputs |-> <<>>,
     condition |-> <<>>]

Operand(name, index) == [name |-> name, index |-> index]
Whole == -1  \* the index of an operand that names a register

Call(name, turns, operands) == [name |-> name, turns |-> turns, operands |-> operands]

Statement(kind) ==
    [kind |-> kind, version |-> 3, side |-> "", name |-> <<>>, size |-> 0,
     gate |-> "", params |-> 0, formals |-> <<>>, body |-> <<>>,
     guard |-> <<>>, block |-> <<>>, operands |-> <<>>]

Of(text, kind) == SelectSeq(text, LAMBDA statement : statement.kind = kind)
Values(s) == {s[k] : k \in DOMAIN s}

----------------------------------------------------------------------------
(* Export: to_qasm.                                                        *)

(* A name is a sequence of pieces: a word, "_" when it was reserved, and   *)
(* the number that made it unique.  _Layout uses one set of taken names    *)
(* for quantum and classical registers.                                    *)
Sanitized(name, taken) ==
    LET safe == IF name \in Reserved THEN Append(name, "_") ELSE name
        Free(n) == IF n = 0 THEN safe \notin taken ELSE Append(safe, ToString(n)) \notin taken
        suffix == CHOOSE n \in 0..Cardinality(taken) :
                     Free(n) /\ \A m \in 0..(n - 1) : ~Free(m)
    IN  IF suffix = 0 THEN safe ELSE Append(safe, ToString(suffix))

\* Faulty variant: quantum and classical registers have names of their own.
NamesApart(program) ==
    [side \in {"q", "c"} |->
       LET registers == IF side = "q" THEN program.quantum ELSE program.classical
           named[k \in 0..Len(registers)] ==
             IF k = 0 THEN <<>>
             ELSE Append(named[k - 1], Sanitized(registers[k].name, Values(named[k - 1])))
       IN  named[Len(registers)]]

Names(program) ==
    LET registers == program.quantum \o program.classical
        named[k \in 0..Len(registers)] ==
          IF k = 0 THEN <<>>
          ELSE Append(named[k - 1], Sanitized(registers[k].name, Values(named[k - 1])))
        all == named[Len(registers)]
    IN  [side \in {"q", "c"} |->
           IF side = "q" THEN SubSeq(all, 1, Len(program.quantum))
           ELSE SubSeq(all, Len(program.quantum) + 1, Len(all))]

\* qref, cref.
Written(names, ref) == Operand(names[ref[1]][ref[2]], ref[3])

\* _lower and _qasm2_lower_name: what an operation is called in each version.
GateName(op, turns, version) ==
    CASE op \in {"U", "U2", "U3"} -> IF version = 3 THEN "u" ELSE "u3"
      [] op \in {"U1", "Phase"} -> IF version = 3 THEN "p" ELSE "u1"
      [] op \in {"CPhase", "CS"} -> IF version = 3 THEN "cp" ELSE "cu1"
      [] op = "SubspaceRY10" -> "ry"
      [] op = "SubspaceRZ10" -> "rz"
      [] op = "Clock" -> "z"
      [] op = "CClock" -> "cz"
      [] OTHER -> op

\* Faulty variant: a reversed subspace turns the same way.
GateTurnsUnmirrored(op, turns) == IF op = "U2" THEN <<2>> \o turns ELSE turns

GateTurns(op, turns) ==
    CASE op = "U2" -> <<2>> \o turns
      [] op = "CS" -> <<2>>
      [] op \in {"SubspaceRY10", "SubspaceRZ10"} -> <<-turns[1]>>
      [] op \in {"Clock", "CClock"} -> <<>>
      [] OTHER -> turns

\* An even power of a two-level Clock is the identity and leaves no line.
Elided(instruction) ==
    instruction.op \in {"Clock", "CClock"} /\ instruction.turns[1] % 2 = 0

Lines(names, instruction, version) ==
    LET operands == [k \in DOMAIN instruction.targets |->
                       Written(names, instruction.targets[k][1])]
    IN  IF instruction.op = "Reset"
        THEN [k \in DOMAIN operands |-> Call("Reset", <<>>, <<operands[k]>>)]
        ELSE <<Call(GateName(instruction.op, instruction.turns, version),
                    GateTurns(instruction.op, instruction.turns), operands)>>

\* _condition_value_qasm2: one register, every bit once; its value as a number.
Expressible(program, condition) ==
    \E c \in DOMAIN program.classical :
       /\ \A k \in DOMAIN condition : condition[k][1][2] = c
       /\ Len(condition) = program.classical[c].size
       /\ Cardinality({condition[k][1] : k \in DOMAIN condition}) = Len(condition)

\* Faulty variant: the first bit of the register is the highest.
RegisterValueReversed(condition) ==
    LET size == Len(condition) IN
    SumSet({IF condition[k][2] = 1 THEN 2 ^ (size - 1 - condition[k][1][3]) ELSE 0
              : k \in DOMAIN condition})

RegisterValue(condition) ==
    SumSet({IF condition[k][2] = 1 THEN 2 ^ condition[k][1][3] ELSE 0 : k \in DOMAIN condition})

Term(operand, equal, value) == [operand |-> operand, equal |-> equal, value |-> value]

Guard(names, condition, version) ==
    IF condition = <<>> THEN <<>>
    ELSE IF version = 3
    THEN [k \in DOMAIN condition |->
            Term(Written(names, condition[k][1]), TRUE, condition[k][2])]
    ELSE <<Term(Operand(names["c"][condition[1][1][2]], Whole), TRUE, RegisterValue(condition))>>

\* The statements of one instruction: the loop body of to_qasm.
StatementsOf(names, instruction, version) ==
    IF instruction.op = "Measure"
    THEN [k \in DOMAIN instruction.targets |->
            [Statement("measure") EXCEPT
               !.operands = <<Written(names, instruction.targets[k][1]),
                              Written(names, instruction.outputs[k])>>]]
    ELSE IF Elided(instruction) THEN <<>>
    ELSE
    LET lines == Lines(names, instruction, version)
        guard == IF instruction.op = "Barrier" THEN <<>>
                 ELSE Guard(names, instruction.condition, version)
        Guarded(block) == [Statement("call") EXCEPT !.guard = guard, !.block = block]
    IN  IF version = 3 /\ guard # <<>> THEN <<Guarded(lines)>>
        ELSE [k \in DOMAIN lines |-> Guarded(<<lines[k]>>)]

Exportable == {"H", "I", "S", "Sdg", "T", "Tdg", "X", "Y", "Z", "CX", "CZ", "Swap", "CY", "CCX",
               "CSwap", "CS", "iSwap", "SX", "U", "U3", "U2", "U1", "RX", "RY", "RZ", "Phase",
               "CPhase", "Clock", "CClock", "SubspaceRY10", "SubspaceRZ10", "Reset", "Barrier",
               "Measure"}

ExportRefuses(program, version) ==
    \E k \in DOMAIN program.instructions :
       LET instruction == program.instructions[k] IN
       \/ instruction.op \notin Exportable
       \/ instruction.view
       \/ \E i \in DOMAIN instruction.turns : instruction.turns[i] = Unbound
       \/ /\ version = 2 /\ instruction.condition # <<>>
          /\ instruction.op # "Barrier" /\ ~Elided(instruction)
          /\ ~Expressible(program, instruction.condition)

\* A body call of a definition; every formal is a qubit of the same name.
Inner(name, formals) == Call(name, <<>>, formals)
Definition(name, formals, body) ==
    [Statement("gate") EXCEPT !.gate = name, !.formals = formals, !.body = body]

SxDefinition ==
    Definition("SX", <<1>>, <<Inner("Sdg", <<1>>), Inner("H", <<1>>), Inner("Sdg", <<1>>)>>)

ISwapDefinition ==
    Definition("iSwap", <<1, 2>>,
        <<Inner("S", <<1>>), Inner("S", <<2>>), Inner("H", <<1>>), Inner("CX", <<1, 2>>),
          Inner("CX", <<2, 1>>), Inner("H", <<2>>)>>)

Uses(program, op) == \E k \in DOMAIN program.instructions : program.instructions[k].op = op

Exported(program, version) ==
    LET names == Names(program)
        Declare(side, registers) ==
          [k \in DOMAIN registers |->
             [Statement("register") EXCEPT !.side = side, !.name = names[side][k],
                                           !.size = registers[k].size]]
        Optional(used, definition) == IF used THEN <<definition>> ELSE <<>>
    IN  <<[Statement("version") EXCEPT !.version = version]>>
        \o Optional(version = 2 /\ Uses(program, "SX"), SxDefinition)
        \o Optional(Uses(program, "iSwap"), ISwapDefinition)
        \o Declare("q", program.quantum) \o Declare("c", program.classical)
        \o FlattenSeq([k \in DOMAIN program.instructions |->
                         StatementsOf(names, program.instructions[k], version)])

----------------------------------------------------------------------------
(* Import: from_qasm.                                                      *)

Declared(text, side) ==
    LET declarations == SelectSeq(text, LAMBDA s : s.kind = "register" /\ s.side = side)
    IN  [k \in DOMAIN declarations |->
           [name |-> declarations[k].name, size |-> declarations[k].size]]

DeclarationsRefused(text) ==
    LET registers == Of(text, "register")
        gates == Of(text, "gate")
    IN  \/ \E j, k \in DOMAIN registers : j < k /\ registers[j].name = registers[k].name
        \/ \E k \in DOMAIN registers : registers[k].size <= 0
        \/ \E j, k \in DOMAIN gates : j < k /\ gates[j].gate = gates[k].gate
        \/ \E k \in DOMAIN gates : gates[k].formals = <<>>

\* _resolve_operand: the references of an operand; <<>> when it is unknown.
Resolve(registers, side, operand) ==
    LET known == {k \in DOMAIN registers : registers[k].name = operand.name} IN
    IF known = {} THEN <<>>
    ELSE LET r == CHOOSE k \in known : TRUE IN
         IF operand.index = Whole
         THEN [k \in 1..registers[r].size |-> <<side, r, k - 1>>]
         ELSE IF operand.index < registers[r].size THEN <<<<side, r, operand.index>>>>
         ELSE <<>>

\* _merge_condition_term over the bits a term is about.
TermBits(registers, term) ==
    LET bits == Resolve(registers, "c", term.operand)
        size == Len(bits)
    IN  IF term.operand.index = Whole
        THEN [k \in 1..size |-> <<bits[k], (term.value \div 2 ^ (k - 1)) % 2>>]
        ELSE [k \in 1..size |-> <<bits[k], IF term.equal THEN term.value ELSE 1 - term.value>>]

Bits(registers, guard) ==
    FlattenSeq([k \in DOMAIN guard |-> TermBits(registers, guard[k])])

GuardRefused(registers, guard) ==
    LET bits == Bits(registers, guard) IN
    \/ \E k \in DOMAIN guard :
          LET term == guard[k]
              size == Len(Resolve(registers, "c", term.operand))
          IN  \/ size = 0
              \/ term.operand.index = Whole /\ (~term.equal \/ term.value >= 2 ^ size)
              \/ term.operand.index # Whole /\ term.value \notin {0, 1}
    \/ \E j, k \in DOMAIN bits : bits[j][1] = bits[k][1] /\ bits[j][2] # bits[k][2]

\* Every bit once, where it is first named.
Condition(registers, guard) ==
    LET bits == Bits(registers, guard)
        firsts == SelectSeq([k \in DOMAIN bits |-> k],
                            LAMBDA k : \A j \in 1..(k - 1) : bits[j][1] # bits[k][1])
    IN  [k \in DOMAIN firsts |-> bits[firsts[k]]]

\* _builtin_gate: [operation, parameters, operands]; names have an alias or two.
Builtin(name) ==
    CASE name \in {"H", "SX", "X", "Y", "Z", "S", "Sdg", "T", "Tdg", "I"} -> <<name, 0, 1>>
      [] name \in {"CX", "CZ", "CY", "Swap"} -> <<name, 0, 2>>
      [] name \in {"CCX", "CSwap"} -> <<name, 0, 3>>
      [] name \in {"RX", "RY", "RZ"} -> <<name, 1, 1>>
      [] name = "rx" -> <<"RX", 1, 1>>
      [] name = "ry" -> <<"RY", 1, 1>>
      [] name = "rz" -> <<"RZ", 1, 1>>
      [] name = "z" -> <<"Z", 0, 1>>
      [] name = "cz" -> <<"CZ", 0, 2>>
      [] name = "p" -> <<"Phase", 1, 1>>
      [] name = "u1" -> <<"U1", 1, 1>>
      [] name = "u2" -> <<"U2", 2, 1>>
      [] name = "u" -> <<"U", 3, 1>>
      [] name = "u3" -> <<"U3", 3, 1>>
      [] name \in {"cp", "cu1"} -> <<"CPhase", 1, 2>>
      [] OTHER -> <<"", 0, 0>>

GateDefinitions(text) == Of(text, "gate")
DefinedIn(gates, name) == {k \in DOMAIN gates : gates[k].gate = name}
BodyTurns(turns, params) ==
    [k \in DOMAIN turns |-> turns[k][2] + (IF turns[k][1] = 0 THEN 0 ELSE params[turns[k][1]])]

\* _expand_gate: operations with the positions of their operands; an
\* operation "" marks an expansion that is refused.
Refusal == <<[op |-> "", turns |-> <<>>, at |-> <<>>]>>

RECURSIVE Expanded(_, _, _, _, _)
Expanded(gates, name, turns, operands, depth) ==
    LET known == DefinedIn(gates, name) IN
    IF depth > MaxNesting THEN Refusal
    ELSE IF known # {}
    THEN LET gate == gates[CHOOSE k \in known : TRUE] IN
         IF Len(turns) # gate.params \/ operands # Len(gate.formals) THEN Refusal
         ELSE FlattenSeq([k \in DOMAIN gate.body |->
                LET inner == gate.body[k]
                    parts == Expanded(gates, inner.name, BodyTurns(inner.turns, turns),
                                      Len(inner.operands), depth + 1)
                IN  [i \in DOMAIN parts |->
                       [parts[i] EXCEPT !.at = [p \in DOMAIN @ |-> inner.operands[@[p]]]]]])
    ELSE LET builtin == Builtin(name) IN
         IF builtin[1] = "" \/ Len(turns) # builtin[2] \/ operands # builtin[3] THEN Refusal
         ELSE <<[op |-> builtin[1], turns |-> turns, at |-> [p \in 1..operands |-> p]]>>

\* Operand groups of a call, a scalar repeated to the width of the others.
Groups(registers, call) ==
    [k \in DOMAIN call.operands |-> Resolve(registers, "q", call.operands[k])]

Width(groups) == Longest({Len(groups[k]) : k \in DOMAIN groups})

\* Faulty variant: a register is walked from its last qubit when it is not scalar.
BroadcastReversed(group, width) ==
    IF Len(group) = 1 THEN [k \in 1..width |-> group[1]]
    ELSE [k \in DOMAIN group |-> group[Len(group) + 1 - k]]

Broadcast(group, width) ==
    IF Len(group) = 1 THEN [k \in 1..width |-> group[1]] ELSE group

\* _add_instruction for one call; zip stops at the shortest group.
InstructionsOf(text, call, condition) ==
    LET registers == Declared(text, "q")
        groups == Groups(registers, call)
        width == Width(groups)
        wide == [k \in DOMAIN groups |-> Broadcast(groups[k], width)]
        shortest == width + 1 - Longest({width + 1 - Len(wide[k]) : k \in DOMAIN wide})
        parts == Expanded(GateDefinitions(text), call.name, call.turns, Len(groups), 0)
        Guarded(instruction) == [instruction EXCEPT !.condition = condition]
    IN  CASE call.name = "Barrier" -> <<>>
          [] call.name = "Reset" ->
                <<Guarded(Instruction("Reset", [k \in DOMAIN groups[1] |-> <<groups[1][k]>>], <<>>))>>
          [] OTHER ->
                FlattenSeq([i \in 1..shortest |->
                   [j \in DOMAIN parts |->
                      Guarded(Instruction(parts[j].op,
                                 [p \in DOMAIN parts[j].at |-> <<wide[parts[j].at[p]][i]>>],
                                 parts[j].turns))]])

CallRefused(text, call) ==
    LET groups == Groups(Declared(text, "q"), call)
        width == Width(groups)
        parts == Expanded(GateDefinitions(text), call.name, call.turns, Len(groups), 0)
    IN  /\ call.name # "Barrier"
        /\ \/ groups = <<>>
           \/ \E k \in DOMAIN groups : groups[k] = <<>>
           \/ IF call.name = "Reset" THEN Len(groups) # 1
              ELSE \/ \E k \in DOMAIN groups : Len(groups[k]) \notin {1, width}
                   \/ \E k \in DOMAIN parts : parts[k].op = ""
                   \/ \E k \in DOMAIN parts : \E p, r \in DOMAIN parts[k].at :
                         p # r /\ \E i \in 1..width :
                            Broadcast(groups[parts[k].at[p]], width)[i]
                               = Broadcast(groups[parts[k].at[r]], width)[i]

MeasureRefused(text, statement) ==
    LET from == Resolve(Declared(text, "q"), "q", statement.operands[1])
        into == Resolve(Declared(text, "c"), "c", statement.operands[2])
    IN  from = <<>> \/ into = <<>> \/ Len(from) # Len(into)

ImportRefuses(text) ==
    \/ DeclarationsRefused(text)
    \/ \E k \in DOMAIN text :
          LET statement == text[k] IN
          \/ statement.kind = "measure" /\ MeasureRefused(text, statement)
          \/ /\ statement.kind = "call"
             /\ \/ Len(statement.block) # 1
                \/ GuardRefused(Declared(text, "c"), statement.guard)
                \/ CallRefused(text, statement.block[1])

\* What is deferred until all declarations are known.
Deferred(text, statement) ==
    IF statement.kind = "measure"
    THEN LET from == Resolve(Declared(text, "q"), "q", statement.operands[1])
             into == Resolve(Declared(text, "c"), "c", statement.operands[2])
         IN  <<[Instruction("Measure", [k \in DOMAIN from |-> <<from[k]>>], <<>>)
                  EXCEPT !.outputs = into]>>
    ELSE IF statement.kind = "call"
    THEN InstructionsOf(text, statement.block[1],
                        Condition(Declared(text, "c"), statement.guard))
    ELSE <<>>

Imported(text) ==
    [quantum |-> Declared(text, "q"),
     classical |-> Declared(text, "c"),
     instructions |-> FlattenSeq([k \in DOMAIN text |-> Deferred(text, text[k])])]
=============================================================================
