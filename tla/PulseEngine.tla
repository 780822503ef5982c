---------------------------- MODULE PulseEngine ----------------------------
(***************************************************************************)
(* The whole-plan orchestrator of the pulse emulators:                     *)
(* emulator/_core/engine.py, PulseEngine, with the terminal-measurement    *)
(* analysis of _backends/_execution_analysis.py.                           *)
(*                                                                         *)
(* One call of run, run_trajectories or run_terminal_measurement_groups is *)
(* one behaviour.  The engine chooses a strategy, traverses the plan,      *)
(* flushes continuous regions at measurements and resets, and samples      *)
(* deferred measurements from copies of the evolved state.  States live in *)
(* a heap because that is what copy_state is about: the runner protocol    *)
(* lets a runner change a state object in place (InPlace) or replace it.   *)
(* A state's value is the symbolic one of ShotSemantics.                   *)
(***************************************************************************)
EXTENDS Integers, Sequences, FiniteSets

CONSTANTS
    Subsystems, Clbits, Shots,
    Plans,         \* the lowered plans a call may be given
    Groups,        \* the sequences of terminal measurement groups, none empty
    Runners        \* the runners a backend may drive, see Runner

Runner == [apis : SUBSET {"run", "trajectories", "groups"},
           background : BOOLEAN,  \* model-wide collapse operators act
           frames : BOOLEAN,      \* a virtual-frame ledger is kept
           batch : BOOLEAN,       \* run_trajectory_batch is implemented, as by the
                                 \* two-level atom adapter, which has no frames
           inPlace : BOOLEAN]     \* state objects are changed in place

ASSUME EngineAssumption ==
    /\ Shots \in Nat \ {0}
    /\ Runners \subseteq Runner
    /\ \A r \in Runners : ~(r.batch /\ r.frames)
    /\ \A p \in Plans : p \in Seq({p[i] : i \in 1..Len(p)})
    /\ \A g \in Groups : Len(g) \in Nat \ {0}

\* The steps of a lowered plan, PulsePlanStep; a measurement has no condition.
ASSUME PlansAreLowered ==
    /\ \A p \in Plans : \A i \in 1..Len(p) : p[i].kind \in {"pulse", "measure", "reset"}
    /\ \A p \in Plans : \A i \in 1..Len(p) : p[i].kind = "measure" => p[i].condition = {}
    /\ \A g \in Groups : \A k \in 1..Len(g) : g[k].kind = "measure" /\ g[k].condition = {}

VARIABLES
    runner,             \* the _PulseModelRunner of the engine
    api, plan, groups,  \* the call
    pc,                 \* choose, traverse, sample, measure or returned
    strategy,           \* per_shot, fast, groups or batch
    at,                 \* next step of the traversal
    pending,            \* pulse blocks of the open region, by step index
    heap,               \* state objects
    context,            \* _ShotContext of the shot in progress
    source,             \* evolved context the samples are drawn from
    terminal,           \* deferred measurements, by step index
    group,              \* running group
    delivered,          \* outcomes per group
    cursor              \* last terminal measurement of the sample, 0 at first

call == <<runner, api, plan, groups>>
vars == <<call, pc, strategy, at, pending, heap, context, source, terminal,
          group, delivered, cursor>>

Requests == IF api = "groups" THEN [g \in 1..Len(groups) |-> Append(plan, groups[g])]
                              ELSE <<plan>>

Semantics == INSTANCE ShotSemantics
    WITH requests <- Requests, returned <- pc = "returned"

Bits == Semantics!Bits
IsPulse(step) == Semantics!IsPulse(step)
IsMeasurement(step) == Semantics!IsMeasurement(step)
Indices == 1..Len(plan)

\* A terminal group's measurement follows the plan.
StepAt(i) == IF i <= Len(plan) THEN plan[i] ELSE groups[group]

Blank == [s \in Subsystems |-> <<>>]

Fresh(ref) == [state |-> ref, memory |-> [c \in Clbits |-> 0], frame |-> {}, time |-> 0]

Init ==
    /\ runner \in Runners
    /\ api \in runner.apis
    /\ plan \in Plans
    /\ groups \in IF api = "groups" THEN Groups ELSE {<<>>}
    /\ api = "groups" => \A i \in Indices : IsPulse(plan[i])
    /\ pc = "choose" /\ strategy = "none"
    /\ at = 1 /\ pending = {}
    /\ heap = <<Blank>>
    /\ context = Fresh(1) /\ source = Fresh(1)
    /\ terminal = {} /\ group = 1 /\ cursor = 0
    /\ delivered = [g \in 1..Len(Requests) |-> <<>>]
----------------------------------------------------------------------------
(* Strategy: _analyze_terminal_measurements, _split_terminal_...           *)

\* Faulty variant: only conditions and resets of measured subsystems count.
TouchesOnlyByReset(i) ==
    \E m \in 1..(i - 1) : /\ IsMeasurement(plan[m]) /\ plan[i].kind = "reset"
                          /\ plan[m].targets \cap plan[i].targets # {}

TouchesMeasured(i) ==
    \E m \in 1..(i - 1) : /\ IsMeasurement(plan[m])
                          /\ plan[m].targets \cap plan[i].targets # {}

IsDynamic ==
    \E i \in Indices : /\ ~IsMeasurement(plan[i])
                       /\ plan[i].condition # {} \/ TouchesMeasured(i)

\* Faulty variant: a pulse after the first measurement is not noticed.
TerminalBatchIgnoringOrder ==
    /\ \E i \in Indices : IsPulse(plan[i])
    /\ \A i \in Indices : /\ plan[i].kind # "reset"
                          /\ IsPulse(plan[i]) => plan[i].condition = {}

\* Unconditioned pulses, at least one, then measurements only.
IsTerminalBatch ==
    /\ \E i \in Indices : IsPulse(plan[i])
    /\ \A i \in Indices :
          /\ plan[i].kind # "reset"
          /\ IsPulse(plan[i]) => /\ plan[i].condition = {}
                                 /\ \A m \in 1..(i - 1) : ~IsMeasurement(plan[m])

AllMeasurements == {i \in Indices : IsMeasurement(plan[i])}
Deferring       == strategy = "fast"

ChooseStrategy ==
    /\ pc = "choose"
    /\ strategy' = CASE api = "groups" -> "groups"
                     [] api = "run" -> IF IsDynamic THEN "per_shot" ELSE "fast"
                     [] OTHER -> IF runner.batch /\ IsTerminalBatch THEN "batch"
                                                                   ELSE "per_shot"
    /\ pc' = IF strategy' = "batch" THEN "batch" ELSE "traverse"
    /\ terminal' = CASE strategy' = "groups" -> {Len(plan) + 1}
                     [] strategy' = "per_shot" -> {}
                     [] OTHER -> AllMeasurements
    /\ UNCHANGED <<call, at, pending, heap, context, source, group, delivered, cursor>>
----------------------------------------------------------------------------
(* The runner: evolve, execute_boundary and copy_state change the heap.    *)

Matches(condition, memory) == \A term \in condition : memory[term[1]] = term[2]

Touch(state, event) == Semantics!Touch(state, event)

Pulse(i, boundary, drives) ==
    [kind |-> "pulse", step |-> i, from |-> boundary, bit |-> 0,
     on |-> IF drives THEN plan[i].targets ELSE {}]

Idle(i, boundary, passes) ==
    [kind |-> "idle", step |-> i, from |-> boundary, bit |-> 0,
     on |-> IF runner.background /\ passes THEN Subsystems ELSE {}]

\* evolve: the enabled blocks of a region in source order, and its noise.
Evolve(state, region, boundary, enabled) ==
    Semantics!After(state,
        [i \in Indices |-> Pulse(i, boundary, i \in region \cap enabled)],
        [i \in Indices |-> Idle(i, boundary, i = Semantics!Latest(region))], Len(plan))

\* A runner's update of the state object at ref: the heap and the reference.
Update(h, ref, state) ==
    IF runner.inPlace THEN [heap |-> [h EXCEPT ![ref] = state], ref |-> ref]
               ELSE [heap |-> Append(h, state), ref |-> Len(h) + 1]

\* copy_state.
Copy(h, ref) == [heap |-> Append(h, h[ref]), ref |-> Len(h) + 1]

\* execute_boundary, for a measurement with the given result.
Boundary(h, c, i, bit) ==
    LET step  == StepAt(i)
        on    == IF IsMeasurement(step) \/ Matches(step.condition, c.memory)
                   THEN step.targets ELSE {}
        event == [kind |-> step.kind, step |-> i, from |-> 0, bit |-> bit, on |-> on]
        new   == Update(h, c.state, Touch(h[c.state], event))
    IN  [heap |-> new.heap,
         context |-> [c EXCEPT !.state = new.ref,
                               !.memory = IF IsMeasurement(step) THEN [@ EXCEPT ![step.clbit] = bit]
                                                                 ELSE @]]

Results(i) == IF IsMeasurement(StepAt(i)) THEN Bits ELSE {0}
----------------------------------------------------------------------------
(* Traversal: _run_one_shot, one plan step per action.                     *)

Enabled(region, memory) == {i \in region : Matches(plan[i].condition, memory)}

\* Faulty variant: the clock stays at the previous boundary.
FlushWithoutClock(h, c) ==
    IF pending = {} THEN [heap |-> h, context |-> c]
    ELSE LET enabled == Enabled(pending, c.memory)
             new == Update(h, c.state, Evolve(h[c.state], pending, c.time, enabled))
         IN  [heap |-> new.heap,
              context |-> [c EXCEPT !.state = new.ref,
                                    !.frame = IF runner.frames THEN @ \cup enabled ELSE @]]

\* flush: schedule and evolve the open region, advance the clock.
Flush(h, c) ==
    IF pending = {} THEN [heap |-> h, context |-> c]
    ELSE LET enabled == Enabled(pending, c.memory)
             new == Update(h, c.state, Evolve(h[c.state], pending, c.time, enabled))
         IN  [heap |-> new.heap,
              context |-> [c EXCEPT !.state = new.ref,
                                    !.frame = IF runner.frames THEN @ \cup enabled ELSE @,
                                    !.time = Semantics!Latest(pending)]]

TakePulse ==
    /\ pc = "traverse" /\ at <= Len(plan)
    /\ IsPulse(plan[at])
    /\ pending' = pending \cup {at}
    /\ at' = at + 1
    /\ UNCHANGED <<call, pc, strategy, heap, context, source, terminal, group, delivered, cursor>>

\* Faulty variant: the boundary is executed before the open region.
CrossBoundaryUnflushed ==
    /\ pc = "traverse" /\ at <= Len(plan)
    /\ ~IsPulse(plan[at])
    /\ \E bit \in Results(at) :
          LET crossed == IF Deferring /\ IsMeasurement(plan[at])
                           THEN [heap |-> heap, context |-> context]
                           ELSE Boundary(heap, context, at, bit)
          IN  heap' = crossed.heap /\ context' = crossed.context
    /\ at' = at + 1
    /\ UNCHANGED <<call, pc, strategy, pending, source, terminal, group, delivered, cursor>>

CrossBoundary ==
    /\ pc = "traverse" /\ at <= Len(plan)
    /\ ~IsPulse(plan[at])
    /\ \E bit \in IF Deferring THEN {0} ELSE Results(at) :
          LET flushed == Flush(heap, context)
              crossed == IF Deferring /\ IsMeasurement(plan[at])
                           THEN flushed
                           ELSE Boundary(flushed.heap, flushed.context, at, bit)
          IN  heap' = crossed.heap /\ context' = crossed.context
    /\ pending' = {}
    /\ at' = at + 1
    /\ UNCHANGED <<call, pc, strategy, source, terminal, group, delivered, cursor>>

\* finish_shot.
Payload(h, c) == [state |-> h[c.state], memory |-> c.memory, frame |-> c.frame]

Answer(outcome) == delivered' = [delivered EXCEPT ![group] = Append(@, outcome)]

\* Faulty variant: the classical memory survives into the next shot.
EndShotKeepingMemory ==
    /\ pc = "traverse" /\ at > Len(plan)
    /\ strategy = "per_shot"
    /\ LET flushed == Flush(heap, context)
       IN  /\ Answer(Payload(flushed.heap, flushed.context))
           /\ context' = [Fresh(1) EXCEPT !.memory = flushed.context.memory]
    /\ pc' = IF Len(delivered[group]) + 1 = Shots THEN "returned" ELSE "traverse"
    /\ heap' = <<Blank>>
    /\ at' = 1 /\ pending' = {}
    /\ UNCHANGED <<call, strategy, source, terminal, group, cursor>>

\* The plan is exhausted in a per-shot replay: close the shot, start the next.
EndShot ==
    /\ pc = "traverse" /\ at > Len(plan)
    /\ strategy = "per_shot"
    /\ LET flushed == Flush(heap, context)
       IN  Answer(Payload(flushed.heap, flushed.context))
    /\ pc' = IF Len(delivered[group]) + 1 = Shots THEN "returned" ELSE "traverse"
    /\ heap' = <<Blank>>
    /\ context' = Fresh(1)
    /\ at' = 1 /\ pending' = {}
    /\ UNCHANGED <<call, strategy, source, terminal, group, cursor>>
----------------------------------------------------------------------------
(* Sampling: _sample_terminal_measurements and _run_terminal_batch.        *)

PreserveSource == strategy = "groups"

\* Faulty variant: the first sample is drawn from the source itself.
EndEvolutionWithoutCopy ==
    /\ pc = "traverse" /\ at > Len(plan)
    /\ strategy # "per_shot"
    /\ LET flushed == Flush(heap, context)
       IN  /\ heap' = flushed.heap
           /\ context' = flushed.context
           /\ source' = flushed.context
    /\ pending' = {}
    /\ pc' = "sample"
    /\ UNCHANGED <<call, strategy, at, terminal, group, delivered, cursor>>

\* The shared evolution is over: fix the state the samples are drawn from.
EndEvolution ==
    /\ pc = "traverse" /\ at > Len(plan)
    /\ strategy # "per_shot"
    /\ LET flushed == Flush(heap, context)
           needs   == ~PreserveSource /\ terminal # {} /\ Shots > 1
           kept    == IF needs THEN Copy(flushed.heap, flushed.context.state)
                               ELSE [heap |-> flushed.heap, ref |-> flushed.context.state]
       IN  /\ heap' = kept.heap
           /\ context' = flushed.context
           /\ source' = [flushed.context EXCEPT !.state = kept.ref]
    /\ pending' = {}
    /\ pc' = "sample"
    /\ UNCHANGED <<call, strategy, at, terminal, group, delivered, cursor>>

\* run_trajectory_batch: one final state per shot, of the single region.
RunTrajectoryBatch ==
    /\ pc = "batch"
    /\ LET blocks == {i \in Indices : IsPulse(plan[i])}
           evolved == Evolve(Blank, blocks, 0, blocks)
       IN  /\ heap' = [n \in 1..Shots |-> evolved]
           /\ source' = [Fresh(1) EXCEPT !.time = Semantics!Latest(blocks)]
    /\ pc' = "sample"
    /\ UNCHANGED <<call, strategy, at, pending, context, terminal, group, delivered, cursor>>

Drawn == Len(delivered[group])

\* The context of the next sample: the evolved one itself, or a copy.
StartSample ==
    /\ pc = "sample"
    /\ IF strategy = "fast" /\ Drawn = 0
         THEN UNCHANGED <<heap, context>>
         ELSE LET from == IF strategy = "batch" THEN Drawn + 1 ELSE source.state
                  copy == Copy(heap, from)
              IN  /\ heap' = copy.heap
                  /\ context' = [Fresh(copy.ref) EXCEPT !.frame = source.frame,
                                                        !.time = source.time]
    /\ cursor' = 0
    /\ pc' = "measure"
    /\ UNCHANGED <<call, strategy, at, pending, source, terminal, group, delivered>>

Ahead == {i \in terminal : i > cursor}

MeasureTerminal ==
    /\ pc = "measure"
    /\ \E i \in Ahead : \E bit \in Bits :
          LET measured == Boundary(heap, context, i, bit)
          IN  /\ \A j \in Ahead : i <= j
              /\ heap' = measured.heap /\ context' = measured.context
              /\ cursor' = i
    /\ UNCHANGED <<call, pc, strategy, at, pending, source, terminal, group, delivered>>

\* Faulty variant: the sampling loop draws one sample too many.
FinishSampleOneMore ==
    /\ pc = "measure" /\ Ahead = {}
    /\ Answer(Payload(heap, context))
    /\ IF Drawn < Shots
         THEN pc' = "sample" /\ group' = group
         ELSE IF group < Len(delivered)
           THEN pc' = "sample" /\ group' = group + 1
           ELSE pc' = "returned" /\ group' = group
    /\ UNCHANGED <<call, strategy, at, pending, heap, context, source, terminal, cursor>>

FinishSample ==
    /\ pc = "measure" /\ Ahead = {}
    /\ Answer(Payload(heap, context))
    /\ IF Drawn + 1 < Shots
         THEN pc' = "sample" /\ group' = group
         ELSE IF group < Len(delivered)
           THEN pc' = "sample" /\ group' = group + 1
           ELSE pc' = "returned" /\ group' = group
    /\ UNCHANGED <<call, strategy, at, pending, heap, context, source, terminal, cursor>>

Next ==
    \/ ChooseStrategy
    \/ TakePulse \/ CrossBoundary \/ EndShot \/ EndEvolution
    \/ RunTrajectoryBatch \/ StartSample \/ MeasureTerminal \/ FinishSample

Spec == Init /\ [][Next]_vars
----------------------------------------------------------------------------
(* Properties.                                                             *)

Refs == 1..Len(heap)

ContextType == [state : Refs, memory : [Clbits -> Bits], frame : SUBSET Indices,
                time : 0..Len(plan)]

TypeOK ==
    /\ runner \in Runners
    /\ api \in runner.apis
    /\ pc \in {"choose", "traverse", "batch", "sample", "measure", "returned"}
    /\ strategy \in {"none", "per_shot", "fast", "groups", "batch"}
    /\ at \in 1..(Len(plan) + 1)
    /\ pending \subseteq Indices
    /\ context \in ContextType
    /\ source \in ContextType
    /\ group \in 1..Len(Requests)
    /\ terminal \subseteq 1..(Len(plan) + 1) /\ cursor \in terminal \cup {0}
    /\ \A g \in DOMAIN delivered : Len(delivered[g]) <= Shots

\* The operations of a state that are measurements.
Measured(state) == {s \in Subsystems : \E k \in DOMAIN state[s] : state[s][k].kind = "measure"}

(* Contexts are well formed, and the state that later samples are drawn    *)
(* from has never been measured: neither the first sample, which reuses    *)
(* the evolved context, nor an in-place runner collapses it                *)
(* (engine.py:432-444).                                                    *)
SourceStaysUnmeasured ==
    /\ TypeOK
    /\ (pc \in {"sample", "measure"} /\ (Drawn + 1 < Shots \/ group < Len(delivered))) =>
          IF strategy = "batch"
            THEN \A n \in (Drawn + 2)..Shots : Measured(heap[n]) = {}
            ELSE Measured(heap[source.state]) = {}

(* Every outcome handed out is a source-order execution of the plan it was *)
(* asked for: operations per subsystem, the times pulses were bound at,    *)
(* classical memory and frames.  This is what the fast path and its        *)
(* analysis promise (_execution_analysis.py:31-37): deferring a            *)
(* measurement past later operations is not observable.                    *)
OutcomesInSourceOrder ==
    \A g \in DOMAIN delivered : \A n \in DOMAIN delivered[g] :
       Semantics!Legal(Requests[g], delivered[g][n])

(* The engine implements the abstract semantics: per request the outcomes  *)
(* of independent source-order executions appear one by one, exactly Shots *)
(* of them, and only then does the call return.                            *)
ImplementsSemantics == Semantics!Spec
=============================================================================
