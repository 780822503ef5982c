# FatQat in TLA+

FatQat is a quantum-computing toolkit. A `Program` is an ordered list of gates,
measurements, resets, guards and pulse controls on registers. It may be compiled
for a hardware target, and it is executed by a simulator (matrices on a state
vector, a density matrix or an operator), by a hardware profile (a loadable atom
array, a superconducting grid) or by a pulse emulator (Hamiltonian evolution under
scheduled pulses). Almost all of the code is sequential, and much of it is
numerical. What is hard about it is **order, deferral and reuse**: operations are
reordered, merged, batched, fused, deferred, routed, patched and replayed by code
that must not be observable, and each of these tricks rests on a claim that two
things commute or that what was kept is still the same. Those claims are what this
directory states and checks.

Paths below are relative to `src/src/fatqat/`. `PROJECT.json` lists, per
definition, the lines of code it stands for.

## 1. Inventory

| component | state it keeps | operations | hard about it | what makes it correct |
|---|---|---|---|---|
| **Program, registers, parameters** (`program.py`, `registers.py`, `_parameter_binding.py`) | append-only list of steps with a cached tuple; free parameters | `add`, `measure`, conditions, `copy`, `assign_parameters` | copies share; grouped targets; columns in call order | a program is exactly the calls made on it; no slot twice |
| **Instruction DAG, interaction graph** (`_program_graph.py`) | last writer per qubit and clbit | one scan of the program | which dependencies are edges | everything that depends is ordered, nothing else |
| **Compiler core and pipelines** (`compiler/core.py`, `pipelines.py`) | an immutable IR between passes | pass, verify, pass, ... | passes assume what an earlier verifier checked | what is static and supported compiles, and means the same |
| **SC normalisation** (`compiler/passes/sc.py`) | nodes with holes; one wire per qubit | `add`, merge, cancel, `freeze` | nodes vanish behind others; wires must agree | meaning kept; nothing left to merge |
| **SABRE routing** (`compiler/algorithms/sabre.py`, `sc_dag.py`) | two layout maps, cursor of the DAG, decay | execute ready node, insert SWAP, reverse pass | a heuristic with decay; measurements emitted last | native program executes the source on couplings |
| **SC native lowering, simulator bridge** (`passes/sc_target.py`, `dialects/sc_native.py`) | none | lower events, defer measurements | two native bases | meaning kept |
| **NA normalisation** (`passes/na.py`, `dialects/na_gate.py`) | a list of native gates | lowering by table | identities of rotations | meaning kept |
| **OpenQASM** (`qasm.py`) | none | export, parse, import | names, definitions, broadcast, conditions as numbers | a text means its calls; a round trip loses nothing |
| **ZAP stage scheduler** (`compiler/algorithms/zap/scheduler.py`) | stages, next free stage per atom | place a gate, insert a stage | insertion shifts stages remembered elsewhere | gates on an atom keep their order; joint stages are tight |
| **ZAP placement and routing** (`zap/placer.py`, `router.py`) | atom positions, AOD rows and columns | choose sites, batch compatible moves, park, detour | moves that wait for one another; greedy batches | no two atoms meet, pairs do; it ends |
| **Zoned programs** (`passes/na_zap.py`, `dialects/na_zoned.py`) | position of each atom | translate, replay, verify | two readings of one plan | the plan replays and is the source |
| **Pulse scheduling** (`emulator/_core/scheduling.py`) | start times of a region | ASAP and ALAP loops, explicit starts | two loops that must agree; a tolerance | exclusive claims in source order, optimal placement |
| **Virtual frames** (`emulator/_core/adapter_common.py`, the adapters' `_bind_run`) | ledger of frame angles, pending actions | complete, wait, bind, commit | visibility decided by comparing computed floats | every drive sees the actions before it in source order |
| **Pulse engine** (`emulator/_core/engine.py`, `_backends/_execution_analysis.py`) | shot context: state, memory, frames, clock | flush a region, cross a boundary, copy, sample | four strategies, in-place runners, deferral | every outcome is a source-order run of the plan |
| **Atom array** (`simulator/fake_atom_array.py`, `_connectivity.py`, per-shot executor) | pairing graph; occupancy, digits, state | pair, unpair, put, gate, channel, loss, reset, measure | two phases: pairing at lowering, occupancy at run time | the program read top to bottom, on the atoms present |
| **Shot execution** (`simulator/_engine/`: policy, Python and compiled workflows, `parallel.py`) | seeds, batches, one runner per batch | validate, choose, replay or single pass, merge | threads, processes, deferral, shared register | every row is one source-order run from its own seed |
| **Simulator front end, sweeps, estimators** (`simulator/simulator.py`, `_engine/binding.py`, `estimator/`) | the job of a call, its rows | check, lower, bind, execute, assemble | which check runs when; states shared by terms | a call that is accepted ends with the answer it means |
| **Matrix engines and kernels** (`_engine/engines/`, `_engine/numerics/`, compiled workflows) | arrays; caches by step identity | layouts, four loops, fusion, packing, draws | recycled identities, in-place parallel loops, patched payloads | every path computes the matrix product; caches never stale |
| **Noise model** (`noise/`) | registrations in order | `add`, look-up by operation, target, label | selectors of two kinds that may meet | one noise of a kind per occurrence; operators as documented |
| **Implementation map, gate matrices** (`implementation/`) | uniform and device-specific rules | `add`, `remove`, look-up, copy | two modes; shared tables | the map is its edits; a simulator keeps what it was given |
| Pulse language, lowering, models (`emulator/_core/planning.py`, `realization.py`, `model.py`, ...) | none | table look-up, Hamiltonians | floating point | numerical |
| Hardware profiles, results, jobs, Qiskit bridge, drawing | none | static checks, containers, conversion | none | outside this project |

Components in **bold** are modelled. They interact like this.

```
calls --> Program --DAG, interaction graph--> drawing, users
             |--> OpenQASM text <--> Program
             |--lower--> SC normalisation --> SABRE --> SC native --bridge--+
             |--lower--> NA normalisation --> ZAP stages --> placer/router  |
             |                                     --> zoned plan, replayed |
             |--lower, bind--> resolved plan <------------------------------+
             |       noise model, implementation map --^
             |       `--> policy --> Python workflow | trajectories | batch | packed operators
             |                          `-- layouts, caches, kernels --'
             `--lower--> pulse plan --> pulse engine --region--> pulse scheduling
                                            |  <--starts, end---     |
                                            +--run, starts--> virtual frames, solver
```

The engine calls the scheduler once per region and hands its answer to the
runner; the runner keeps the frame ledger that the engine carries from region to
region and from shot to shot. The atom-array profile lowers programs itself and
shares the per-shot executor with the simulators. The simulator copies the noise
model and the map it is given; its engine keeps caches from call to call.

## 2. Modules, and which composes which

| | module(s) | abstract specification or reference | state |
|---|---|---|---|
| 1 | `PulseSchedule` | `PulsePlacement`, implemented | checked and proved |
| 2 | `PulseEngine` | `ShotSemantics`, implemented | checked and proved |
| 3 | `AtomArray` | `AtomSemantics`, implemented | checked and proved |
| 4 | `SabreRouting` | the source program, by symbolic execution | checked, all safety proved |
| 5 | `ShotExecution` | `ShotContract`, implemented | checked and proved |
| 6 | `FrameLedger` | the ledger in source order | checked |
| 7 | `ZapSchedule` <- `ZapPlacement` <- `ZapRouting` <- `ZonedPlan` | order on an atom, geometry, the replay, the source | checked, stage invariants proved |
| 8 | `ProgramTargets` <- `ProgramAuthoring` | the calls made | checked and proved |
| 9 | `ScNormalize`, `NaNormalize`, `NativeLowering`, `QasmText` in `CompilerPipeline` | `CliffordAction`, conjugation of Pauli strings | checked |
| 10 | `GateMatrices` <- `NoiseRules` <- `SimulatorSetup` | the edits made; the documented channels | checked, declarations proved |
| 11 | `GateMatrices` <- `MatrixKernels` <- `MatrixSession` | the product of embedded matrices, `Walked` | checked |

`A <- B`: B extends A; the last module of a chain holds the specification that
is run. `ShotSemantics` and `AtomSemantics` are instantiated by the modules that
implement them. `CompilerPipeline` instantiates its passes and takes any routing
`SabreRouting` may return. `FrameLedger` repeats the two loops of `PulseSchedule`
with rounded times, so that the difference between exact and computed times shows.

Planned next: the fixed-photon engine; the lowering of pulse programs with the
atom-arrangement motion of the atom emulators; a sweep of an emulator with a
failing row. Planned proofs: that the chunks of a parallel loop partition its cosets, and
the acceptance of calls of `MatrixSession`.

## 3. How the modules correspond to the code

In every module a definition keeps the name of the function it stands for where
TLA+ allows; operators marked `Faulty variant` or `Mutant` are the code with one
plausible mistake and are used by no specification. They show that a property
would notice.

**PulseSchedule** (`schedule_pulse_run`, `_schedule_starts`). One iteration of a
loop is a step. `blocks`, `boundary` and `mode` are the arguments, `asap` and
`relative` the two lists, `cursor` the loop index, `starts` and `end` the answer.
`Reject` and `AcceptExplicit` are the two ends of explicit validation; `PlaceAsap`,
`CloseHorizon`, `PlaceAlap` and `Publish` the automatic path. Times are integer
ticks, `Epsilon` is `TIME_EPSILON`. `PulsePlacement` says what a caller may rely
on without saying how starts are found.

**PulseEngine** (`run`, `run_trajectories`, `run_terminal_measurement_groups`,
`_analyze_terminal_measurements`). One plan step, sample or terminal measurement
is a step. A quantum state is symbolic: per subsystem, the sequence of operations
that touched it. Two executions have equal states exactly when they differ only
in the order of operations on disjoint subsystems, so "this deferral commutes" is
an equality. States live in a heap, because the runner protocol allows a runner
to change a state object in place and the engine's `copy_state` calls exist for
that. The open blocks and the deferred measurements are sets of step numbers, which
the code keeps as lists in that order. `Runners` describes runners: in place or not, batching or not, with or
without background noise and frames. `ShotSemantics` has one action: an outcome
of a source-order execution is delivered.

**AtomArray** (`AtomArraySimulator._lower`, `_apply_pairing`, `_AtomConnectivity`,
`_run_one_shot`). `Scan`, `OpenSegment`, `LowerNext`, `ApplyPairing` and
`StartShot` are the lowering loop; each later action is one branch of the
per-shot executor. Pairing exists only while lowering and occupancy only in the
shot, as in the code. `AtomSemantics` is the documentation's reading of a
program: top to bottom, each operation on the atoms present, its noise after it.
An instruction has four slots (itself, its loss, its channel on either target), and
both modules number what happens by slot, so that the order of two steps is the
order of two numbers.

**SabreRouting** (`sabre_map`, `_route`, `build_dag_index`, `DAGCursor`,
`_lower_events`). Executing a ready node, inserting a swap, turning to the next
of seven passes, lowering an event and emitting the deferred measurements are
steps. Scores are the code's fractions over a common denominator. Ties between
equal scores are left open, as is the choice of initial layout. Two history
variables hold what the properties talk about: `path`, the layout before each
routed event, and `device`, for each site the qubit whose content it holds and the
nodes applied to it, moved by the SWAPs of the native program as it is written.
Measurements are emitted one at a time, in the order of the code's loop.

**ShotExecution** (`_execution_policy.py`, `python_workflow.py`,
`trajectories.py`, `parallel.py`). `Dispatch` chooses path, strategy, batches and
the draws of every shot's seed; runners then interleave plan step by plan step. A
register cell is a digit together with the history of the subsystem it was read
from. `ShotContract` allows exactly the answers of source-order runs: it says of a run
which steps touch each subsystem (`History`) and which write to a clbit is the last
before a step (`DigitBefore`, `OriginBefore`), given what chance decides. A confused
readout reports any digit, a non-identity map the other one. Counts are the rows
they count. `Spent` is the number of draws after each step, `Replayed` a shot
taken step by step on one stream, alone (`AloneStep`), and `Gathered` the rows of
the first batches: recursive functions over a plan or a list of batches, and what
the proofs compare the interleaved runners with.

**FrameLedger** (`adapter_common.py`, `_bind_run`, `evolve`, and the loops of
`_schedule_starts` again). Floats are integers rounded to `Precision` significant
bits after every operation, in the order the code evaluates them; ten to the
power of a block's number is the angle it adds, so a ledger entry spells out
which shifts reached a frame, and how often. `Flush` places a
region and evaluates its conditions, `Bind` is one iteration of the binding loop,
`Commit` hands the ledger back to the shot.

**ZapSchedule** (`Scheduler.asap_joint`, `asap_separate`, `save_results`): one loop
iteration is a step; `list_scheduling` is kept as the stage of each gate.
**ZapPlacement** (`placer.py`): a call of `placing()` is an operator, because
nothing happens while it runs; distances are rounded square roots, log-fidelities
integers. **ZapRouting** (`router.py`, `api.py`): a loop iteration of the router is
a step: asking for positions, taking a batch, parking an atom, taking a detour,
moving, firing the stage. `instructions` is what it writes. **ZonedPlan**
(`na_zap.py`, `na_zoned.py`): one instruction translated, or one event replayed, is
a step. The real router was run beside the model on some two hundred random gate
lists: the instructions agree, except where two exactly equal weights are told
apart by the last bit of a float.

**ProgramTargets** and **ProgramAuthoring**
(`registers.py`, `program.py`, `logical_program.py`, `_program_graph.py`,
`_parameter_binding.py`). The actions are `add`, `measure`, `measure_all`, `copy`,
`assign_parameters` and the property that caches the tuple; lists are objects apart
from the programs that own them, so that sharing one would show. The graph's
dictionaries of the last writer are read off the program. The parameters that
remain free are a set. `DagOrdersShared` says that the transitive reduction loses
nothing: a set of nodes closed under the edges is closed under dependence.

**ScNormalize**, **NaNormalize**, **NativeLowering**, **QasmText**,
**CompilerPipeline** (`compiler/`, `qasm.py`). A user writes a program or a text,
exports or imports it, and calls `compile`; one pass or verification is a step.
Lowering one logical gate, with everything it makes the builder do, is one
operator application. Angles are eighths of a turn; the programs of the run use
multiples of a quarter, so every gate is a Clifford gate and **CliffordAction**
decides meaning exactly: a gate is what it does to Pauli strings, for every
valuation of the classical bits. A reset exchanges its qubit with a fresh one,
hence one reset per program; a measurement copies its qubit to the wire of its
bit. A text is the list of statements that the regular expressions cut.

**GateMatrices**, **NoiseRules**, **SimulatorSetup**
(`implementation/`, `noise/`, constructors, `planning._lower_gate`,
`_lower_channels`). Arithmetic is exact: a complex number is a pair of integers, a
matrix is known up to a positive scale, probabilities count twenty-fifths so that
the square roots of 9/25 and 16/25 exist, angles are quarter turns and dimensions
2 or 4. Python objects are cells of a heap. The actions are `add` and `remove` on
both containers, setting a map aside, constructing a simulator or an emulator, and
lowering an occurrence; a call that the code refuses changes nothing and is a
stutter.

**MatrixKernels**, **MatrixSession** (`_engine/`,
`simulator.py`, `estimator/`). `Submit` is everything an accepted call does before its
first execution; a `Begin...` action binds and builds a payload; then the steps of one
of four workflows follow: the Python workflow and compiled trajectories plan step
by plan step, the rows of a compiled sweep in any interleaving, the workers of a
parallel loop reading and writing one piece at a time in any interleaving
(`Fork`, `Read`, `Write`, `Join`). Thresholds that decide between loops
(sizes, grain, batch rows) are constants with small values, so that both sides of
each are reached. Step identities are numbers that the least free one is given
again, as Python does. `Walked` is the reference: the whole matrix of each
instruction, embedded and applied in program order, with the outcomes drawn.

## 4. Runs

| run | instance | distinct states | what it shows |
|---|---|---|---|
| `schedule` | regions of three blocks over two claims, durations 0 to 2, two boundaries; with explicit starts, two blocks | 80,616 | placement is exclusive, contained, optimal for its mode (`PlacedBest`), implements `PulsePlacement`, and returns |
| `engine` | plans of up to four steps on two subsystems, two shots; a coherent in-place runner and noisy trajectories | 205,038 | every strategy implements `ShotSemantics`; the source of samples is never measured |
| `engine_noisy_fast` | the same plans on a density-matrix runner with background noise | violated | see Disagreements |
| `atoms` | programs of up to four operations on three sites, with and without loss | 549,738 | lowering and execution implement `AtomSemantics`; empty sites hold nothing; the estimator's forecast is exact |
| `sabre` | three qubits on four sites, a line and a device in two parts, up to four nodes | 57,418 | layouts stay inverse, the cursor is exact, `RoutedFaithfully`; connected devices are always mapped |
| `shots` | thirteen plans, every engine and request; three shots on one or two workers for counts, up to two shots for every output | 1,053,366 | every answer is one of `ShotContract`; a row depends only on its seed |
| `frames_short` | up to three gates of a transmon library on two frames, 8-bit floats, clocks whose rounding stays below the tolerance | 64,119 | drives see the ledger of source order; waiting actions commute |
| `zoned_plan` | two pairs in every constellation and eleven eventful lists on six atoms and two zones; every list of up to four gates on three atoms under `asap_separate` | 22,467 | `JointIsAsap`, `PairLayersKept`; batches proceed; `PlanSound` from placement to replay; every list compiles |
| `authoring` | two programs over a grid, qutrits and several registers, up to three instructions; sweeps of two vectors | 32,690 | a program is its calls; grouped targets never collide; sweeps bind their columns; the DAG orders what depends |
| `compile` | every pair of gates on three qubits, triples of composite gates, four gates that cancel on wires, three routed gates, refused programs, programs and texts in both OpenQASM versions | 57,838 | meaning at every boundary; what may compile does, to a normal form; texts are faithful |
| `simulator_setup` | two edits out of 37 calls around one construction of a simulator or an emulator | 52,435 | containers are their own edits; declarations are unambiguous; validation suffices; operators mean what is documented |
| `matrix_session` | 116 sessions of one to four calls: four methods, both backends, feedback, noise, ququarts, sweeps, threads, fusion, estimators, refused calls | 10,275 | results, odds and expectation values are those of the program; workers stay apart; caches stay fresh; accepted calls complete |

Deadlock is checked in `zoned_plan` and `matrix_session`, where a call that has
ended stutters by an action of its own and any other state must go on; the other
modules model calls that return and stop.

**Bounds.** Three blocks are the least for a conflict that skips a neighbour, and
for a chain whose middle block moves. Three plan steps are the least for a
measurement, an operation and a second measurement; four let two regions stand
around a boundary. Two shots show that one leaks into the next, three make two
workers take unequal batches. Three atoms and four gates let an inserted stage
push a remembered one. Six atoms on two rows of three traps make atoms park, take
detours, be lifted twice and move in four batches; the eventful lists are the ones
that do. Four gates let a pair of CZ become neighbours after what
stood between them has vanished on both wires. Three sites let two edges share an
atom. Two edits are the least for a conflict, and for an edit behind a copy. Three
rows in batches of two leave a batch that is not full; two calls are the least for a
stale cache, three subsystems for a coset that two chunks share. `MaxBlocks`,
`MaxGates`, `MaxSeparate`, `Shots`, `Programs`, `Plans`, `Families`, `Inputs`,
`NoiseCalls`, `RuleCalls`, `Occurrences`, `MaxEdits`, `MaxHeld`, `MaxLength`,
`MaxTotal`, `MaxSwaps`, `Sessions` and `CandidateStarts` are the only bounds;
`CandidateStarts` reaches past every makespan of the instance. The thresholds of
`MatrixSession.tla` (`MinSizeToThread` 8, `MinSizeToFuse` 16, `Grain` 16, `BatchRows`
2, ...) stand for thresholds of thousands and decide only which loop runs.

**Fairness.** Weak fairness of the whole next-state relation, in `PulseSchedule`,
`SabreRouting`, `AtomArray` and `ZonedPlan`: these are loops of one thread
that nothing outside can stop, so a step that stays possible is taken. No action
is fair on its own. `ZonedPlan` writes it as `RunsOn`, without ENABLED, because
TLC would evaluate a placement anew for every ENABLED. `Returns`,
`MapsWhenConnected` and `CompilationSucceeds` are the liveness
properties: both loops of the scheduler end; the greedy router does
not spend its swap budget on a device whose sites are connected; the zoned
compiler ends with a plan for every gate list for which there is room.

## 5. Disagreements between the code and what is said of it

- `engine_noisy_fast` (a run): a measurement deferred past a later region is
  sampled after the background noise of that region has acted on the measured
  subsystem, though the analysis calls such operations disjoint.

The others are known from the models; the runs above stay inside the programs
and clocks for which code and documentation agree, and no run shows them.

- A reset of several sites does nothing at all when one of
  them is empty (`python_workflow.py:347`); the documentation says it has no effect
  on the empty one (`fake_atom_array.py:90`, `operations/reset.py:13`).
  `AtomArray` does what the code does, `AtomSemantics` what is documented, and
  `atoms` writes only single-site resets.
- Past about 16 microseconds, with calibrated durations that are
  not dyadic, one rounding error exceeds the absolute tolerance `TIME_EPSILON`
  and a drive misses an action that ends when it starts (`adapter_common.py:34`).
  `FrameLedger` with the clock 1304 shows it; the clocks of `frames_short` stay below.
- The router announces "compatible move batches" (`router.py:508`), but parking and
  detours change where the moves of a batch begin and end after it was chosen
  (`router.py:366`): the emitted batch may ask one column to part. Atoms stay apart
  all the same (`PlanSound`).
- `asap_separate` leaves the remembered stages of other atoms behind when it inserts
  a stage, so a one-atom gate may be put before a pair it must follow; only the
  order of pairs survives (`PairLayersKept`). `compile_interactions` selects only
  `asap_joint`.
- The zoned router never returns atoms to their homes (homes only break ties, and
  `_return_all_to_original_traps` is unused); a cell of the status table is compared with a
  string although it is a dictionary; idle atoms may stay beside the pairs of
  a later stage; an activated row or column may be activated again; a zone with fewer
  pairs of traps than a stage has pairs ends in "No valid pair found".
- The instruction DAG does not order a guard before the next write of the bit it reads.
- OpenQASM: a conditioned reset of several qubits is exported to version 3 as a
  block of several lines that the importer refuses, and so is a guard that asks for
  two values of one bit, which `Program` accepts; a register of size one acts as
  a scalar in a broadcast.

## 6. Proofs

All proofs are checked by TLAPS for every value of the constants, under the named
assumption of the module.

`PulseSchedule_proofs`, from `SchedulingAssumption` (times are naturals, `NoStart`
is not a number). The invariant `IInv` adds to the type what each loop has
established so far: before the cursor, ASAP starts respect every earlier
conflicting block and are least; behind it, ALAP starts respect every later one,
are greatest, and never lie before the ASAP start of the same block. That last
part is why subtracting durations cannot reach below the boundary, and cannot be
had from the ALAP loop alone. From it: `TypeCorrect`, `ExclusiveReservations`,
`RegionContainment`, `PlacementOptimal` (ASAP earliest, ALAP latest, makespan
minimal, for any number of blocks and claims) and the refinement
`ImplementsContract`.

`SabreRouting_proofs`, from `RoutingAssumption` (couplings join two different
sites; `Nobody` is no qubit). `LayoutInv` types the two maps; a SWAP changes both,
and they stay inverse whether one, both or neither site is occupied
(`LayoutsStayInverse`). `CursorInv` says a waiting node's count is the number of
its unconsumed predecessors and that the ready set is where it is zero, in
forward and in reversed passes (`CursorIsExact`); it needs that no node waits for
itself and that counts are cardinalities of finite sets. `RoutingIsFaithful` is the
whole property: `OrderInv` says that the nodes routed so far are closed under
dependence in either direction of a pass and that the events list the routed nodes
of the last pass once each, in an order of the program; `PathInv` that `path` goes
from the initial layout to the present one by the events' swaps; `DeviceInv` that
after each lowered event every qubit's content is where `path` says and has had
exactly the emitted nodes of its wire, in order. A measurement ends its wire, which
is why emitting it last is the same.

`ZapSchedule_proofs`, from `SchedulerAssumption`. `OrderInv` says that what has
been placed on an atom lies before the stage free for it, which gates have been
placed at each point of each loop, and that pairs keep their layers. `TightInv`
adds the converse for the joint loop: a stage that is free for an atom, unless the
first, lies just behind a placed gate on that atom. From both `JointKeepsOrder`
(joint stages are in list order and as early as that allows), from the first
`PairLayersPreserved`, across insertions too,
because an insertion shifts both pairs of any comparison alike, which is exactly
what it fails to do for the remembered stages.

`AtomArray_proofs`, from `AtomAssumption` (operations are well formed: a CZ or a
pairing has two different sites). `LoweringInv`: the plan so far has a step in
each slot that is due and no other, in order (`Covers`); the pairing graph holds
exactly the pairs whose last pairing instruction paired them; every check so far
passed. `ShotInv`: an empty site has no history, and if the plan is estimable the
occupancy is the one the forecast computes from the initial digits. From them
`EmptySitesStayGround` and `ForecastIsExact`, and, with `SingleSiteResets` (the
programs for which code and documentation agree, section 5), the refinement
`ImplementsSemanticsForAll`: each step of a shot is a slot of the documentation's
reading, the slots between two steps are empty, and a program is refused exactly
when it is not admissible.

`PulseEngine_proofs`, from `EngineAssumption` (a runner that batches keeps no frames, as
the two-level atom adapter, the only one that does; groups are not empty) and
`PlansAreLowered` (a plan has pulses, measurements and resets, and no measurement has a
condition). First `SourceIsNeverMeasured`: the object that
samples are drawn from is not the one that a terminal measurement collapses, for all
four strategies and for runners that work in place. `HeapInv` says which objects
exist and who refers to them, `CountInv` that outcomes are counted per group and
that a group being served lacks one, `SourceInv` that the source object has no
measurement in its history and is not the context's object while terminal
measurements remain, the last sample of the fast strategy excepted: it may measure
the source, because nobody samples afterwards.

Then the refinement `ImplementsSemanticsForAll`, for every call that satisfies `QuietCall`:
the calls it leaves out are those of `run` with background noise where a pulse follows a
measurement on the fast path, for which the refinement is false (`engine_noisy_fast`).
`ValueInv` says what the state objects hold. While a plan is traversed, the context is
that of a source-order run up to the last boundary, and the steps since are the pulses of
the open region (`TraverseInv`); when the strategy defers measurements the run is one
without them. While samples are drawn, every object they may be drawn from is the state
evolved without measurements (`SampleInv`), and the sample in progress is that state with
the measurements up to the cursor applied, its memory what source order has written by
then (`MeasureInv`). `RegionEvolves` and `FlushProgress` show that evolving a region as one
is running its pulses one by one, at the time the region begins, with the noise at its
end. `Deferral` is what the fast path rests on: if nothing touches at a later step what a
measurement touched, running without the measurements and then the measurements alone
gives the state of the run in source order, proved by following, per subsystem, which of
the two parts a history is in. `FastReady`, `BatchReady` and `GroupReady` show that
`IsDynamic`, `IsTerminalBatch` and the shape of a terminal group let through only plans
of which that is true, conditions and frames included.

`ProgramAuthoring_proofs`, from `AuthoringAssumption` (registers have at least one row and
column, references lie inside them). `HandleInv`: a program owns its list, and list
and cached view are the program's history; hence `InstructionsStayCalls`.
`StepsInv`: every recorded instruction is of the type that target grouping yields,
its slots inside their registers; hence `ApplicationsStayApart` (the cells of a view
are distinct because row, column and block are arithmetic progressions inside the
register), `SweepsBindColumns` and `GraphsAreExact` (whose lemmas say that the last
writer of a slot reaches every earlier one by edges).

`ShotExecution_proofs`, from `ExecutionAssumption` and `PlansAreLowered` (only a measurement
reports digits, and it has no condition): `SeedDecides` and the refinement
`ImplementsContractForAll`. `RunnerInv` says of each runner
that its finished rows are those of its shots run alone, and that it is itself where
the shot it is in would be alone, the number of draws included. Hence the draw it
takes is inside its own slice of the shared array (`Spent` is bounded by the budget),
and by a lemma on quotients the slices of two shots are apart. `PolicyInv` says that
the batches partition the shots in order, for every number of workers
(`SplitPartition`), and `GatheredRows` that their rows, concatenated, are the rows of
the shots in order. For the refinement, `ChanceOf` is what chance decided in a shot, read
off the stream at the places where the shot alone asks for a number; `Agrees` says that
after k steps the shot's states are the contract's histories and its cells the last
writes before step k + 1 (`ReplayIsRun`). In a single pass nothing touches a subsystem
after it is measured, or the policy would have asked for trajectories: what the pass
holds at the end is what the measurement read (`PassKnows`), so a sampled index decodes
to the row, and collapses to the state, of the run in which every measurement finds
that index (`SampledIsRun`, `CollapsedIsRun`). `JInv` adds to the invariant that no answer
is given twice, that the path is the one the call needs, that a finished batch keeps
the state of its last shot, and where the single pass is.

`SimulatorSetup_proofs`, for any set of calls and any number of edits and of
simulators. The assumptions say that the calls come through the constructors:
a scalar selector has one item, declarations are what their `__post_init__` accepts
(`NoiseCallsAssumption`), device operands are given at most once and a rule is given
(`RuleCallsAssumption`), and an occurrence has targets, each a different
subsystem of the program (`OccurrencesAssumption`). `SetupInv` is the invariant.
Nothing stays what it was on a shared heap unless cells lie apart: `UserSound` says
that the user's two containers take cells of their own, `HeldSound` that no cell of
what is held is among them, device tables included, and that these cells still say
what they said when it was copied. It also carries what each list was built
by: registrations that the conflict checks let stand beside each other, rules of one mode
per class, and a map equal to its log. Hence `MapsStayTheirEdits` (the last `add` covering
a class and operands since the last `remove`) and `NoDoubleNoise`, where two matching
registrations of a kind are either refused when they were added or are a ref and
a label, refused at the look-up. `ValidationIsEnough` needs one part more: the last
occurrence was lowered on the heap as it is (`LoweredFits`), and what it reads there is
what the constructor validated.

What a recursive function computes is proved here by the least number for
which it would fail (`LeastNatural`): the library's induction theorems take operators
as arguments and cannot be instantiated.

Only model-checked: liveness (fairness and ENABLED are outside TLAPS); the meaning of compiled programs and of texts, whose modules
use RECURSIVE operators (`CompilerPipeline`, `QasmText`), out of the prover's reach;
matrices, kernels and declared noise, which are sums and products over finite ranges of
concrete matrices; placement and routing of atoms, which are geometry with rounded
distances; the frame ledger, whose property depends on the size of rounding errors of
the clocks of the run.

## 7. Not modelled

Numbers: Hamiltonians, angles that are not quarter turns, dimensions other than 2
and 4 in the matrix modules, solver tolerances, sampling frequencies and standard
errors; a solver call is one symbolic event, and a draw is any outcome whose weight
is not zero, its odds being a property. Rounding is modelled in `FrameLedger` alone,
where it decides something, and in `ZapPlacement`, where it ranks sites. The
conversions between a probability and a rate, the beam splitter, two transitions
into one level from two sources, and the generators of a three-level transmon's
depolarisation are left out.

Of the matrix engines: the fixed-photon engine; readout confusion, occupancy and loss in a
compiled run (they are in `ShotExecution` and `AtomArray`); shots in worker
processes of a session (in `ShotExecution`); custom operations; the identity of
layout objects, whose prepared permutation is computed anew here. One shot stands
for the shots of an execution, because shots are independent by `ShotExecution`.

Of the compilers: T, Tdg and CCX are lowered but written by no run, because they
are not Clifford gates (`CCX` is checked by an assumption on phases); an
implementation map that names a CZ for one order of sites; durations and distances
of moves; user-given initial mappings, which the compiler never passes. Gate names of OpenQASM are
case-insensitive in the code and one spelling here.

Text: comments, number formats, drawing, error wording. Argument validation, except
where a refusal is part of a contract (`Reject` in the scheduler, pairing in the atom
array, request validation, the boundaries of the compiler, noise and rules).
The pulse language and its lowering, pulse models and solvers, the atom emulators'
adapters, hardware profiles, results and jobs, the Qiskit bridge and visualisation,
with reasons in `PROJECT.json`.
