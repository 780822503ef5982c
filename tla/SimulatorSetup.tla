--------------------------- MODULE SimulatorSetup ---------------------------
(***************************************************************************)
(* What a user prepares before a run: a NoiseModel and an implementation   *)
(* map, edited in place, and the simulators built from copies of both.     *)
(* Modelled from noise/model.py (add, _copy), implementation/base_map.py,  *)
(* implementation/matrix_map.py, the constructor of simulator.Simulator    *)
(* and planning._lower_gate with _lower_channels.                          *)
(*                                                                         *)
(* Python objects are cells of a heap: a list of registrations, or a dict. *)
(* A map is two dicts: uniform rules by class, and by class the address of *)
(* the dict of its device-specific rules.                                  *)
(***************************************************************************)
EXTENDS NoiseRules

CONSTANTS NoiseCalls,     \* arguments of NoiseModel.add
          RuleCalls,      \* arguments of MatrixImplementationMap.add
          Removable,      \* the classes remove() is called with
          Occurrences,    \* [op, targets]: the operations a program applies
          Layout,         \* the device label of the ref with this index
          DimOf,          \* its dimension
          DefaultRules,   \* the classes default_matrix_implementation_map registers
          MaxEdits, MaxHeld

\* The calls made: a scalar target is one item, positions are a tuple of integers, and a
\* declaration is one that its constructor made, which kept a t_phi as a rate.
NoiseTypes == MatrixTypes \cup PulseTypes \cup {"Loss", "ReadoutConfusion"}
ASSUME NoiseCallsAssumption ==
    \A call \in NoiseCalls :
       /\ call.arg.form = "scalar" => call.arg.items = <<call.arg.items[1]>>
       /\ \A p \in call.positions : p \in Seq(Int)
       /\ call.decl.type \in NoiseTypes /\ Declared(call.decl) /\ call.decl.tPhi = {}
       /\ call.decl.type = "ThermalRelaxation" => call.decl.p = {}

\* Device operands are given at most once; "none" and "generator" name no rule of a user.
ASSUME RuleCallsAssumption ==
    \A call \in RuleCalls :
       /\ \A x, y \in call.operands : x = y
       /\ call.rule \notin {"none", "generator"}

\* An operation is applied to refs, each at most once.
ASSUME OccurrencesAssumption ==
    \A occurrence \in Occurrences :
       /\ occurrence.targets \in Seq({[kind |-> "ref", id |-> k] : k \in DOMAIN Layout})
       /\ occurrence.targets # <<>>
       /\ \A j, k \in DOMAIN occurrence.targets :
             j # k => occurrence.targets[j] # occurrence.targets[k]

VARIABLES
          heap,    \* the cells
          noise,   \* [noises, readouts]: the addresses of the user's NoiseModel
          rules,   \* [uniform, devices]: the addresses of the user's map
          held,    \* simulators, with models and maps set aside: [noise, rules, contents]
          log,     \* the accepted edits of the user's map, oldest first
          edits,   \* edits made
          lowered  \* the last occurrence lowered: [occurrence, result]

vars == <<heap, noise, rules, held, log, edits, lowered>>

Nothing == [occurrence |-> <<>>, error |-> "none", rule |-> "none", channels |-> <<>>]

\* The cells before the first edit: no registrations, default_matrix_implementation_map.
Init ==
    /\ heap = <<<<>>, <<>>, [c \in DefaultRules |-> "builtin"], <<>>>>
    /\ noise = [noises |-> 1, readouts |-> 2]
    /\ rules = [uniform |-> 3, devices |-> 4]
    /\ held = <<>> /\ log = <<>> /\ edits = 0 /\ lowered = Nothing

-----------------------------------------------------------------------------
(* The noise model.                                                        *)

Edit == edits < MaxEdits /\ edits' = edits + 1 /\ lowered' = Nothing

\* NoiseModel.add: appends to the list of its kind, in place; a refused call is not a step.
AddReadout(call) ==
    /\ IsReadout(call)
    /\ ReadoutCallAccepted(heap[noise.readouts], call)
    /\ heap' = [heap EXCEPT ![noise.readouts] =
                  Append(@, [selector |-> SelectorOf(call), decl |-> call.decl])]
    /\ Edit
    /\ UNCHANGED <<noise, rules, held, log>>
AddNoise(call) ==
    /\ ~IsReadout(call)
    /\ NoiseAccepted(heap[noise.noises], call)
    /\ heap' = [heap EXCEPT ![noise.noises] = Append(@, RegistrationOf(call))]
    /\ Edit
    /\ UNCHANGED <<noise, rules, held, log>>

-----------------------------------------------------------------------------
(* The implementation map.                                                 *)

Put2(dict, key, value) == [k \in DOMAIN dict \cup {key} |-> IF k = key THEN value ELSE dict[k]]
Without(dict, key) == [k \in DOMAIN dict \ {key} |-> dict[k]]
ChannelTypes == MatrixTypes \cup {"ThermalRelaxation"}

\* num_subsystems as a class attribute: a channel whose width is a property of its
\* instances has none, Put and the like take any number.
FixedArity(class) ==
    IF class \in {"Depolarizing", "PauliChannel"} THEN 0
    ELSE IF class \in ChannelTypes THEN 1 ELSE NumSubsystems(class)

\* _wrap_rule: the form of the object given as the rule ("array" is square with side at
\* least 2, "vector" is an array that is not, FixedMatrix refuses it).
RuleFormAccepted(class, form) ==
    IF class \in ChannelTypes THEN form \in {"callable", "matrix rule", "custom rule"}
    ELSE IF class = "MyOperation" THEN form = "custom rule"
    ELSE form \in {"callable", "matrix rule", "array"}

\* Mutant: a uniform rule is added beside device-specific ones.
RuleAcceptedMixed(call) ==
    /\ call.class # "PulseOperation"
    /\ RuleFormAccepted(call.class, call.form)
    /\ Given(call.operands) => call.class \notin DOMAIN heap[rules.uniform]
\* add() without and with device_operands.
RuleAccepted(call) ==
    /\ call.class # "PulseOperation"
    /\ RuleFormAccepted(call.class, call.form)
    /\ IF Given(call.operands)
       THEN /\ call.class \notin DOMAIN heap[rules.uniform]
            /\ FixedArity(call.class) # 0 => Len(ValueOf(call.operands)) = FixedArity(call.class)
       ELSE call.class \notin DOMAIN heap[rules.devices]
AddUniform(call) ==
    /\ ~Given(call.operands) /\ RuleAccepted(call)
    /\ heap' = [heap EXCEPT ![rules.uniform] = Put2(@, call.class, call.rule)]
    /\ log' = Append(log, call)
    /\ Edit
    /\ UNCHANGED <<noise, rules, held>>
AddDevice(call) ==
    /\ Given(call.operands) /\ RuleAccepted(call)
    /\ LET devices == heap[rules.devices]
           operands == ValueOf(call.operands)
       IN  heap' = IF call.class \in DOMAIN devices
                   THEN [heap EXCEPT ![devices[call.class]] = Put2(@, operands, call.rule)]
                   ELSE Append([heap EXCEPT ![rules.devices] =
                                  Put2(@, call.class, Len(heap) + 1)],
                               Put2(<<>>, operands, call.rule))
    /\ log' = Append(log, call)
    /\ Edit
    /\ UNCHANGED <<noise, rules, held>>
Remove(class) ==
    /\ heap' = [heap EXCEPT ![rules.uniform] = Without(@, class),
                            ![rules.devices] = Without(@, class)]
    /\ log' = Append(log, [class |-> class, form |-> "removed", operands |-> {}, rule |-> "none"])
    /\ Edit
    /\ UNCHANGED <<noise, rules, held>>

\* implementation_for with device operands, supports without, device_operands_for.
ImplementationFor(cells, map, class, operands) ==
    LET uniform == cells[map.uniform]
        devices == cells[map.devices]
    IN  IF class \in DOMAIN devices
        THEN IF operands \in DOMAIN cells[devices[class]] THEN cells[devices[class]][operands]
             ELSE "none"
        ELSE IF class \in DOMAIN uniform THEN uniform[class] ELSE "none"
Supports(cells, map, class) == class \in (DOMAIN cells[map.uniform]) \cup DOMAIN cells[map.devices]

\* copy(): new dicts, the tables of device-specific rules included; and the address of
\* the copy of the map in the cells Copied(cells, map).
TableOrder(devices) == CHOOSE s \in [1..Cardinality(DOMAIN devices) -> DOMAIN devices] :
                          \A c \in DOMAIN devices : \E k \in DOMAIN s : s[k] = c
CopiedDevices(devices, first) ==
    [c \in DOMAIN devices |->
       first + CHOOSE k \in DOMAIN TableOrder(devices) : TableOrder(devices)[k] = c]
\* Mutant: the device tables are shared with the copy.
CopiedShallow(cells, map) == cells \o <<cells[map.uniform], cells[map.devices]>>
Copied(cells, map) ==
    LET devices == cells[map.devices]
        order == TableOrder(devices)
    IN  cells \o <<cells[map.uniform], CopiedDevices(devices, Len(cells) + 2)>>
              \o [k \in DOMAIN order |-> cells[devices[order[k]]]]
CopyOf(cells) == [uniform |-> Len(cells) + 1, devices |-> Len(cells) + 2]
CopiedNoise(cells, model) == cells \o <<cells[model.noises], cells[model.readouts]>>
NoiseCopyOf(cells) == [noises |-> Len(cells) + 1, readouts |-> Len(cells) + 2]

\* What a map and a model say, read through the heap.
Contents(cells, model, map) ==
    [noises |-> cells[model.noises], readouts |-> cells[model.readouts],
     uniform |-> cells[map.uniform],
     devices |-> [c \in DOMAIN cells[map.devices] |-> cells[cells[map.devices][c]]]]

\* The user sets the map aside and goes on with a copy of it.
KeepOriginal ==
    /\ Len(held) < MaxHeld
    /\ heap' = Copied(heap, rules)
    /\ rules' = CopyOf(heap)
    /\ held' = Append(held, [kind |-> "kept", noise |-> noise, rules |-> rules,
                             contents |-> Contents(heap, noise, rules)])
    /\ lowered' = Nothing
    /\ UNCHANGED <<noise, log, edits>>

-----------------------------------------------------------------------------
(* Simulators.                                                             *)

\* _noise_model_rejection_reasons, of a matrix simulator without carrier loss.
DualForm == {"AmplitudeDamping", "TransitionRelaxation", "PhaseDamping", "Depolarizing"}
\* Mutant: a missing channel implementation is found by the run.
RejectedLate(cells, map, registration) ==
    \/ registration.decl.type \in {"Loss", "ThermalRelaxation"}
    \/ registration.op = "background"
    \/ registration.decl.type \in DualForm /\ Given(registration.decl.rate)
Rejected(cells, map, registration) ==
    LET type == registration.decl.type
    IN  \/ type = "Loss"
        \/ registration.op = "background"
        \/ type = "ThermalRelaxation"
        \/ ~Supports(cells, map, type)
        \/ type \in DualForm /\ Given(registration.decl.rate)

\* _lindblad_noise_rejection_reasons, of a pulse emulator: its local dimension, whether
\* noise may follow an operation, and the types its Lindblad map registers.
Families == [transmon |-> [dim |-> 3, scoped |-> TRUE,
                           types |-> PulseTypes \ {"AmplitudeDamping", "ThermalRelaxation"}],
             atoms |-> [dim |-> 2, scoped |-> FALSE, types |-> PulseTypes]]
GeneratorRejected(family, registration) ==
    LET d == registration.decl
    IN  \/ Width(d) # 1
        \/ d.type = "TransitionRelaxation" /\ PulseRuleRefuses(d, family.dim)
        \/ d.type \in DualForm /\ Given(d.p)
        \/ ~family.scoped /\ registration.op # "background"
        \/ d.type \notin family.types
ReadoutRejected(registration) == Len(registration.decl.terms) # 2

\* Copies of the user's map and model, made by the constructors before they validate.
Hold(kind) ==
    LET cells == Copied(heap, rules)
    IN  /\ Len(held) < MaxHeld
        /\ heap' = CopiedNoise(cells, noise)
        /\ held' = Append(held, [kind |-> kind, noise |-> NoiseCopyOf(cells),
                                 rules |-> CopyOf(heap),
                                 contents |-> Contents(heap, noise, rules)])
        /\ lowered' = Nothing
        /\ UNCHANGED <<noise, rules, log, edits>>

\* Simulator.__init__.
Construct ==
    /\ \A k \in DOMAIN heap[noise.noises] : ~Rejected(heap, rules, heap[noise.noises][k])
    /\ Hold("simulator")

\* _PulseBackend.__init__ with the validation of TransmonEmulator and Atom2LevelEmulator.
ConstructEmulator(name) ==
    /\ \A k \in DOMAIN heap[noise.noises] :
          ~GeneratorRejected(Families[name], heap[noise.noises][k])
    /\ \A k \in DOMAIN heap[noise.readouts] : ~ReadoutRejected(heap[noise.readouts][k])
    /\ Hold(name)

-----------------------------------------------------------------------------
(* Lowering.                                                               *)

OperandsOf(targets) == [k \in DOMAIN targets |-> Layout[targets[k].id]]
DimsOf(targets) == [k \in DOMAIN targets |-> DimOf[targets[k].id]]
Failed(error) == [Nothing EXCEPT !.error = error]

\* _lower_channels: the answer of the model, then for each declaration its rule on the
\* device operands of its extent; a rule of the map may refuse, and a rule of the user's
\* ("bad") may return operators of the wrong shape, which _validate_kraus_shapes refuses.
LowerChannels(cells, simulator, op, targets) ==
    LET found == NoiseForOccurrence(cells[simulator.noise.noises], op, targets, Layout)
        rule(n) == ImplementationFor(cells, simulator.rules, n.decl.type, OperandsOf(n.extent))
        refused(n) == \/ rule(n) = "bad"
                      \/ rule(n) = "builtin" /\ MatrixRuleRefuses(n.decl, DimsOf(n.extent))
    IN  IF found.error # "none" THEN Failed(found.error)
        ELSE IF \E k \in DOMAIN found.noise : rule(found.noise[k]) = "none"
        THEN Failed("no channel rule")
        ELSE IF \E k \in DOMAIN found.noise : refused(found.noise[k]) THEN Failed("rule")
        ELSE [Nothing EXCEPT !.channels =
                [k \in DOMAIN found.noise |-> [decl |-> found.noise[k].decl,
                                               extent |-> found.noise[k].extent,
                                               rule |-> rule(found.noise[k])]]]

\* _lower_gate of the matrix simulator: the rule on the device operands, the shape of its
\* matrix, then the channels.
LowerGate(cells, simulator, op, targets) ==
    LET rule == ImplementationFor(cells, simulator.rules, op, OperandsOf(targets))
    IN  IF rule = "none" THEN Failed("no rule")
        ELSE IF rule = "bad" THEN Failed("rule")
        ELSE [LowerChannels(cells, simulator, op, targets) EXCEPT !.rule = rule]

\* _resolve_confusions of a measurement: per target the one matrix, of its dimension.
LowerMeasurement(cells, simulator, targets, dims) ==
    LET found(k) == ReadoutFor(cells[simulator.noise.readouts], targets[k], Layout)
    IN  IF \E k \in DOMAIN targets : found(k).error # "none" THEN Failed("ambiguous")
        ELSE IF \E k \in DOMAIN targets : \E c \in found(k).confusion : Len(c.terms) # dims[k]
        THEN Failed("confusion shape")
        ELSE IF \A k \in DOMAIN targets : found(k).confusion = {} THEN Nothing
        ELSE [Nothing EXCEPT !.channels = [k \in DOMAIN targets |-> found(k).confusion]]

\* _resolve_operation_noise and _resolve_background_noise of an emulator: generators of
\* one subsystem; the background is asked once for every operand of the device.
LowerGenerators(answer, family) ==
    IF answer.error # "none" THEN Failed(answer.error)
    ELSE IF \E k \in DOMAIN answer.noise : Len(answer.noise[k].extent) # 1 THEN Failed("extent")
    ELSE IF \E k \in DOMAIN answer.noise : PulseRuleRefuses(answer.noise[k].decl, family.dim)
    THEN Failed("rule")
    ELSE [Nothing EXCEPT !.channels =
            [k \in DOMAIN answer.noise |-> [decl |-> answer.noise[k].decl,
                                            extent |-> answer.noise[k].extent,
                                            rule |-> "generator"]]]
BackgroundAnswer(cells, emulator, ref) ==
    LET found == BackgroundNoiseFor(cells[emulator.noise.noises], ref, Layout)
    IN  [error |-> found.error,
         noise |-> [k \in DOMAIN found.noise |-> [decl |-> found.noise[k], extent |-> <<ref>>]]]

Lowered(holder, occurrence) ==
    LET op == occurrence.op
        targets == occurrence.targets
        digits == IF holder.kind = "simulator" THEN DimsOf(targets)
                  ELSE [k \in DOMAIN targets |-> 2]
        labels == {Layout[r] : r \in DOMAIN Layout}
    IN  IF ~ValidFor(heap[holder.noise.noises], heap[holder.noise.readouts], DOMAIN Layout, labels)
        THEN Failed("foreign selector")
        ELSE CASE op = "measure" -> LowerMeasurement(heap, holder, targets, digits)
          [] op = "background" /\ holder.kind # "simulator" ->
               LowerGenerators(BackgroundAnswer(heap, holder, targets[1]), Families[holder.kind])
          [] op \notin {"measure", "background"} /\ holder.kind = "simulator" ->
               LowerGate(heap, holder, op, targets)
          [] op \notin {"measure", "background"} /\ holder.kind # "simulator" ->
               LowerGenerators(NoiseForOccurrence(heap[holder.noise.noises], op, targets, Layout),
                               Families[holder.kind])
          [] OTHER -> Nothing
Lower(k, occurrence) ==
    /\ held[k].kind # "kept"
    /\ LET result == Lowered(held[k], occurrence)
       IN  lowered' = [result EXCEPT !.occurrence = <<held[k], occurrence>>]
    /\ UNCHANGED <<heap, noise, rules, held, log, edits>>

Next ==
    \/ \E call \in NoiseCalls : AddReadout(call)
    \/ \E call \in NoiseCalls : AddNoise(call)
    \/ \E call \in RuleCalls : AddUniform(call)
    \/ \E call \in RuleCalls : AddDevice(call)
    \/ \E class \in Removable : Remove(class)
    \/ KeepOriginal
    \/ Construct
    \/ \E name \in DOMAIN Families : ConstructEmulator(name)
    \/ \E k \in DOMAIN held, occurrence \in Occurrences : Lower(k, occurrence)

Spec == Init /\ [][Next]_vars

-----------------------------------------------------------------------------
(* Properties.                                                             *)

\* A simulator, and a map the user set aside, keep what they were given: no later edit
\* of the model or of the map, and no edit of a copy, reaches them.
HeldStayFrozen ==
    \A k \in DOMAIN held :
       LET now == Contents(heap, held[k].noise, held[k].rules)
       IN  /\ now.uniform = held[k].contents.uniform
           /\ now.devices = held[k].contents.devices
           /\ held[k].kind # "kept" => now = held[k].contents

\* The map is its edits: for every class and operands the rule of the last add that
\* covers them since the last remove, and a family is uniform or device-specific.
Removals(class) == {k \in DOMAIN log : log[k].class = class /\ log[k].form = "removed"}
Since(class) == {k \in DOMAIN log : log[k].class = class /\ \A j \in Removals(class) : j < k}
StillDefault(class) == class \in DefaultRules /\ Removals(class) = {}
RuleByLog(class, operands) ==
    LET covering == {k \in Since(class) : ~Given(log[k].operands) \/ operands \in log[k].operands}
        last == CHOOSE k \in covering : \A j \in covering : j <= k
    IN  IF covering # {} THEN log[last].rule
        ELSE IF StillDefault(class) THEN "builtin" ELSE "none"
MapIsItsEdits ==
    \A call \in RuleCalls :
       /\ \A operands \in UNION {other.operands : other \in RuleCalls} :
             ImplementationFor(heap, rules, call.class, operands)
                = RuleByLog(call.class, operands)
       /\ Supports(heap, rules, call.class) <=> Since(call.class) # {} \/ StillDefault(call.class)
       /\ \A j, k \in Since(call.class) : Given(log[j].operands) <=> Given(log[k].operands)

\* What a map or a held copy holds is decided by its own edits alone.
MapsAreTheirEdits == HeldStayFrozen /\ MapIsItsEdits

\* No occurrence is noisy twice over: of one kind of declaration at most one acts on a
\* subsystem (transitions add up), and each acts as wide as it was declared.  A conflict
\* that add() let through is between a selector of refs and one of device labels.
IsLowered == lowered.occurrence # <<>>
NoiseUnambiguous ==
    IsLowered /\ lowered.occurrence[2].op # "measure" =>
       LET holder == lowered.occurrence[1]
           occurrence == lowered.occurrence[2]
           matches == Matching(heap[holder.noise.noises], occurrence.op, occurrence.targets, Layout)
       IN  /\ \A j, k \in DOMAIN lowered.channels :
                 /\ j # k
                 /\ lowered.channels[j].decl.type = lowered.channels[k].decl.type
                 /\ lowered.channels[j].decl.type # "TransitionRelaxation"
                 => \A m \in DOMAIN lowered.channels[j].extent :
                       \A n \in DOMAIN lowered.channels[k].extent :
                          lowered.channels[j].extent[m] # lowered.channels[k].extent[n]
           /\ \A k \in DOMAIN lowered.channels :
                 Width(lowered.channels[k].decl) \in {0, Len(lowered.channels[k].extent)}
           /\ lowered.error = "ambiguous" /\ occurrence.op # "background" =>
                 \E j, k \in matches :
                    /\ IsRefSelector(heap[holder.noise.noises][j].selector)
                    /\ ~IsRefSelector(heap[holder.noise.noises][k].selector)

\* A measured target is confused by the one matrix declared for it, by ref or by device
\* label or for all, and by no matrix when it was given none.
ReadoutsUnambiguous ==
    IsLowered /\ lowered.occurrence[2].op = "measure" /\ lowered.error = "none" =>
       LET readouts == heap[lowered.occurrence[1].noise.readouts]
           targets == lowered.occurrence[2].targets
           given(k) == {readouts[r].decl : r \in
                          {m \in DOMAIN readouts :
                             readouts[m].selector = <<>> \/ targets[k] = readouts[m].selector[1]
                             \/ readouts[m].selector[1] = LabelsOf(targets, Layout)[k]}}
       IN  \A k \in DOMAIN targets :
              /\ Cardinality(given(k)) <= 1
              /\ (IF lowered.channels = <<>> THEN {} ELSE lowered.channels[k]) = given(k)

\* Noise and readout of an occurrence are each the one that was declared for it.
DeclarationsUnambiguous == NoiseUnambiguous /\ ReadoutsUnambiguous

\* What validation accepted does not fail later for want of an implementation, unless the
\* channel has device-specific rules and none for this extent, or for its strength mode.
ValidationSuffices ==
    IsLowered =>
       LET holder == lowered.occurrence[1]
           registrations == heap[holder.noise.noises]
       IN  /\ lowered.error = "no channel rule" =>
                 \E k \in DOMAIN registrations :
                    registrations[k].decl.type \in DOMAIN heap[holder.rules.devices]
           /\ \A k \in DOMAIN lowered.channels :
                 lowered.occurrence[2].op # "measure" =>
                    (lowered.channels[k].rule = "generator"
                       <=> ~Given(lowered.channels[k].decl.p)
                           /\ lowered.channels[k].decl.type # "PauliChannel")

\* The operators mean what the declarations document: Depolarizing(p) replaces the state
\* by the maximally mixed one with probability p, PhaseDamping(p) scales every coherence by
\* 1 - p, every channel keeps the trace; Depolarizing(rate) generates
\* rate (tr(rho) I / d - rho) and PhaseDamping(rate) decays a qubit's coherence at rate.
DocumentedChannel(decl, dims, rho, dim) ==
    LET channel == KrausOps(decl, dims)
        p == ValueOf(decl.p)
        result == Sandwiched(channel.ops, rho)
        scaled(z) == <<channel.den * z[1], channel.den * z[2]>>
        trace == SumOf(dim, LAMBDA k: rho[k][k])
    IN  CASE decl.type = "Depolarizing" ->
               \A r, c \in 1..dim :
                  Times(Real(Whole * dim), result[r][c]) =
                     scaled(Plus(Times(Real((Whole - p) * dim), rho[r][c]),
                                 IF r = c THEN Times(Real(p), trace) ELSE Zero))
          [] decl.type = "PhaseDamping" ->
               \A r, c \in 1..dim :
                  Times(Real(Whole), result[r][c]) =
                     scaled(Times(Real(IF r = c THEN Whole ELSE Whole - p), rho[r][c]))
          [] OTHER -> TracePreserving(channel)
Generated(decl, rho, dim) ==
    LET generator == LindbladOps(decl, dim)
        gram == Completeness(generator.ops)
        gain == Sandwiched(generator.ops, rho)
    IN  [den |-> 2 * generator.den,
         m |-> Sum2(Scaled(Real(2), gain),
                    Scaled(Real(-1), Sum2(MatMul(gram, rho), MatMul(rho, gram))))]
DocumentedGenerator(decl, rho, dim) ==
    LET rate == ValueOf(decl.rate)
        generated == Generated(decl, rho, dim)
        trace == SumOf(dim, LAMBDA k: rho[k][k])
    IN  CASE decl.type = "Depolarizing" ->
               \A r, c \in 1..dim :
                  Times(Real(dim), generated.m[r][c]) =
                     Times(Real(generated.den * rate),
                           Plus(IF r = c THEN trace ELSE Zero, Times(Real(0 - dim), rho[r][c])))
          [] decl.type = "PhaseDamping" ->
               \A r, c \in 1..dim :
                  generated.m[r][c] =
                     Times(Real(0 - generated.den * rate * (r - c) * (r - c)), rho[r][c])
          [] OTHER -> SumOf(dim, LAMBDA k: generated.m[k][k]) = Zero
ProbeStates(dim) ==
    {MatrixOf(dim, LAMBDA r, c: <<r + 2 * c + 1, r * c - 1>>), Diagonal([k \in 1..dim |-> Real(k)])}
OperatorsMeanDeclarations ==
    IsLowered /\ lowered.occurrence[2].op # "measure" =>
       \A k \in DOMAIN lowered.channels :
          LET decl == lowered.channels[k].decl
              dims == DimsOf(lowered.channels[k].extent)
              family == Families[lowered.occurrence[1].kind]
          IN  /\ lowered.channels[k].rule = "builtin" =>
                    \A rho \in ProbeStates(Product(dims)) :
                       DocumentedChannel(decl, dims, rho, Product(dims))
              /\ lowered.channels[k].rule = "generator" /\ (decl.type = "Depolarizing" => family.dim = 2) =>
                    \A rho \in ProbeStates(family.dim) :
                       DocumentedGenerator(decl, rho, family.dim)
=============================================================================
