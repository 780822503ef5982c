--------------------------- MODULE ShotExecution ---------------------------
(***************************************************************************)
(* How the matrix simulators execute the shots of one lowered plan:        *)
(* request validation (simulator.py), the choice of path and strategy      *)
(* (_engine/_execution_policy.py and engines/numba_engine.py), the single  *)
(* pass with deferred measurements and the per-shot replay                 *)
(* (workflows/python_workflow.py), compiled trajectories                   *)
(* (workflows/numba_workflow/trajectories.py) and process batches          *)
(* (parallel.py).                                                          *)
(*                                                                         *)
(* A runner executes one batch of shots, one plan step per action; runners *)
(* of different batches interleave.  States and cells are the symbolic     *)
(* ones of ShotContract.  Carriers that can be lost and custom operations  *)
(* are not in this module: see AtomArray.                                  *)
(***************************************************************************)
EXTENDS Integers, Sequences

CONSTANTS
    Subsystems, Clbits, Draws, None,
    Plans, Starts, Wants,  \* what a call may be given
    ShotNumbers,
    Engines,               \* among numpy_sv, numba_sv and dm
    Asks,                  \* shot_parallelism: auto, serial, threads, processes
    WorkerCeilings,        \* processes or threads available
    ParallelMinShots       \* _PARALLEL_MIN_SHOTS

ASSUME ExecutionAssumption ==
    /\ ShotNumbers \subseteq Nat \ {0}
    /\ WorkerCeilings \subseteq Nat \ {0}
    /\ ParallelMinShots \in Nat \ {0}
    /\ Engines \subseteq {"numpy_sv", "numba_sv", "dm"}
    /\ Asks \subseteq {"auto", "serial", "threads", "processes"}
    /\ Draws \subseteq [Subsystems -> {0, 1}] /\ Starts \subseteq [Clbits -> {0, 1}]
    /\ \A w \in Wants : w.counts \in BOOLEAN /\ w.state \in BOOLEAN /\ w.register \in BOOLEAN

\* A lowered step.  Only a measurement reports digits, and it is unconditional.
LoweredSteps ==
    {step \in [kind : {"gate", "channel", "reset", "measure"},
               targets : Seq(Subsystems), clbits : Seq(Clbits),
               condition : SUBSET (Clbits \X {0, 1}), confused : BOOLEAN, flips : BOOLEAN] :
        IF step.kind = "measure"
          THEN step.condition = {} /\ Len(step.clbits) = Len(step.targets)
          ELSE ~step.confused /\ ~step.flips}

ASSUME PlansAreLowered == Plans \subseteq Seq(LoweredSteps)

VARIABLES
    plan, start, want, shots,  \* program, initial digits, outputs, repetitions
    engine, ask, workers,      \* how to execute it
    pc,                        \* call, run, returned, rejected or failed
    path, strategy, compiled,  \* the execution policy
    streams,                   \* random draws of every shot's seed
    batches,                   \* shot numbers of every batch
    runners,                   \* per batch, the evolution in progress and its rows
    result

call   == <<plan, start, want, shots, engine, ask, workers>>
policy == <<path, strategy, compiled, streams, batches>>
vars   == <<call, pc, policy, runners, result>>

stochastic == engine # "dm"

Contract == INSTANCE ShotContract

IsMeasurement(step) == step.kind = "measure"
Targets(step) == {step.targets[j] : j \in 1..Len(step.targets)}
Indices == 1..Len(plan)
----------------------------------------------------------------------------
(* Validation and policy.                                                  *)

HasMeasurement == \E i \in Indices : IsMeasurement(plan[i])
HasNonunitary  == \E i \in Indices : plan[i].kind \in {"reset", "channel"}

StochasticFinalState == HasMeasurement \/ (stochastic /\ HasNonunitary)

\* Faulty variant: only gates on a measured subsystem count.
TouchesOnlyByGate(i) ==
    /\ plan[i].kind = "gate"
    /\ \E m \in 1..(i - 1) : IsMeasurement(plan[m]) /\ Targets(plan[m]) \cap Targets(plan[i]) # {}

\* Step i follows a measurement of one of its targets.
TouchesMeasured(i) ==
    \E m \in 1..(i - 1) : IsMeasurement(plan[m]) /\ Targets(plan[m]) \cap Targets(plan[i]) # {}

\* Faulty variant: a requested register is taken from the single pass.
NeedsTrajectoriesForgettingRegister ==
    \E i \in Indices :
       \/ plan[i].condition # {}
       \/ stochastic /\ plan[i].kind \in {"reset", "channel"}
       \/ TouchesMeasured(i)

\* _select_execution_path, for state methods without occupancy.
NeedsTrajectories ==
    \E i \in Indices :
       \/ plan[i].condition # {}
       \/ IsMeasurement(plan[i]) /\ want.register
       \/ stochastic /\ plan[i].kind \in {"reset", "channel"}
       \/ TouchesMeasured(i)

Shardable == want.counts /\ ~want.state /\ ~want.register

\* _validate_run_request and _validate_shot_parallelism.
Rejected ==
    \/ (want.state \/ want.register) /\ StochasticFinalState /\ shots # 1
    \/ ask \in {"threads", "processes"} /\ ~(NeedsTrajectories /\ Shardable /\ shots >= 2)

\* _plan_compilable: the compiled loop knows no reported-digit maps.
Compilable == \A i \in Indices : ~plan[i].flips

\* NumbaSVEngine._select_policy.
UsesCompiled ==
    /\ engine = "numba_sv" /\ ask \in {"auto", "threads"}
    /\ NeedsTrajectories /\ shots > 1 /\ Shardable /\ Compilable

Strategy ==
    CASE UsesCompiled /\ workers >= 2 -> "threads"
      [] UsesCompiled /\ ask = "auto" -> "serial"
      [] ~UsesCompiled /\ ask = "processes" /\ workers >= 2 -> "processes"
      [] ~UsesCompiled /\ ask = "auto" /\ NeedsTrajectories /\ Shardable
            /\ shots >= ParallelMinShots /\ workers > 1 -> "processes"
      [] ~UsesCompiled /\ ask \in {"auto", "serial"} ->
            IF NeedsTrajectories THEN "serial" ELSE "none"
      [] OTHER -> "unsupported"

\* Faulty variant: the remainder of the division is dropped.
SplitWithoutRemainder(items, n) ==
    LET count == IF n < Len(items) THEN n ELSE Len(items)
        base  == Len(items) \div count
    IN  [b \in 1..count |-> SubSeq(items, (b - 1) * base + 1, b * base)]

\* _split_into_batches: sizes differ by at most one.
SplitIntoBatches(items, n) ==
    LET count == IF n < Len(items) THEN n ELSE Len(items)
        base  == Len(items) \div count
        extra == Len(items) % count
        Before(b) == (b - 1) * base + (IF b - 1 < extra THEN b - 1 ELSE extra)
    IN  [b \in 1..count |-> SubSeq(items, Before(b) + 1, Before(b + 1))]

\* One runner per prange iteration, per submitted batch, or one in all.
Batches(how) ==
    LET iterations == IF want.counts THEN shots ELSE 1
        items == [n \in 1..iterations |-> n]
    IN  CASE how = "threads" -> [n \in 1..iterations |-> <<n>>]
          [] how = "processes" -> SplitIntoBatches(items, workers)
          [] how = "none" -> <<<<1>>>>
          [] OTHER -> <<items>>
----------------------------------------------------------------------------
(* Randomness: one stream per shot, spawned before batching.               *)

\* The draws of a step when the steps of the given kinds draw once, and a
\* confused readout once more for every position.
Cost(step, kinds) ==
    (IF step.kind \in kinds THEN 1 ELSE 0) + (IF step.confused THEN Len(step.targets) ELSE 0)

\* The draws of the first k steps of p.
Spent(p, kinds) ==
    LET upTo[k \in 0..Len(p)] == IF k = 0 THEN 0 ELSE upTo[k - 1] + Cost(p[k], kinds) IN upTo

\* Faulty variant: readout confusion is not in the budget.
MaxDrawsWithoutConfusion ==
    Len(SelectSeq(plan, LAMBDA step : step.kind \in {"measure", "reset", "channel"}))

\* max_draws of _compile_dynamic_plan.
MaxDraws == Spent(plan, {"measure", "reset", "channel"})[Len(plan)]

\* The kinds of steps that ask their generator for a number.
ChancyKinds == IF stochastic THEN {"measure", "reset", "channel"} ELSE {"measure"}

\* The draws a shot may ask its stream for.
StreamLength == Spent(plan, ChancyKinds)[Len(plan)]

Spawned == [1..shots -> [1..StreamLength -> Draws]]

\* Draw number n of a shot.  Compiled shots share one array of uniforms, and
\* reading past its end finds anything.
DrawOf(shot, n) ==
    LET place == (shot - 1) * MaxDraws + n
        owner == (place - 1) \div MaxDraws + 1
    IN  IF ~compiled THEN {streams[shot][n]}
        ELSE IF owner <= shots THEN {streams[owner][place - (owner - 1) * MaxDraws]}
        ELSE Draws

Blank == [s \in Subsystems |-> <<>>]
Register == [c \in Clbits |-> [digit |-> start[c], of |-> <<>>]]

Idle == [done |-> 0, at |-> 1, drawn |-> 0, state |-> Blank, clbits |-> Register, rows |-> <<>>]

Init ==
    /\ plan \in Plans /\ start \in Starts /\ want \in Wants /\ shots \in ShotNumbers
    /\ engine \in Engines /\ ask \in Asks /\ workers \in WorkerCeilings
    /\ pc = "call"
    /\ path = "none" /\ strategy = "none" /\ compiled = FALSE
    /\ streams = <<>> /\ batches = <<>> /\ runners = <<>>
    /\ result = None

Reject ==
    /\ pc = "call"
    /\ Rejected \/ Strategy = "unsupported"
    /\ pc' = "rejected"
    /\ UNCHANGED <<call, policy, runners, result>>

Dispatch ==
    /\ pc = "call"
    /\ ~Rejected /\ Strategy # "unsupported"
    /\ pc' = "run"
    /\ path' = IF NeedsTrajectories THEN "per_shot" ELSE "single_pass"
    /\ strategy' = Strategy
    /\ compiled' = UsesCompiled
    /\ streams' \in IF NeedsTrajectories THEN Spawned ELSE {<<>>}
    /\ batches' = Batches(Strategy)
    /\ runners' = [b \in 1..Len(batches') |-> Idle]
    /\ UNCHANGED <<call, result>>
----------------------------------------------------------------------------
(* Replay: _run_one_shot and _run_sv_trajectories, one step.               *)

Matches(condition, clbits) == \A term \in condition : clbits[term[1]].digit = term[2]

\* What a step leaves to chance is decided per subsystem.
Touch(state, k, on, decided) ==
    [s \in Subsystems |-> IF s \in on THEN Append(state[s], <<k, decided[s]>>) ELSE state[s]]

Undrawn == [s \in Subsystems |-> 0]

ShotOf(b) == batches[b][runners[b].done + 1]
Busy(b)   == runners[b].done < Len(batches[b])

\* Gate, or channel and reset of a density matrix: nothing is drawn.
Deterministic(b) ==
    LET r == runners[b] IN
    /\ plan[r.at].kind = "gate" \/ (~stochastic /\ plan[r.at].kind \in {"channel", "reset"})
    /\ runners' = [runners EXCEPT ![b] =
          [r EXCEPT !.at = @ + 1,
                    !.state = IF Matches(plan[r.at].condition, r.clbits)
                                THEN Touch(@, r.at, Targets(plan[r.at]), Undrawn) ELSE @]]

\* Channel or reset of a statevector: one draw, if it fires.
Branch(b) ==
    LET r == runners[b] IN
    /\ stochastic /\ plan[r.at].kind \in {"channel", "reset"}
    /\ \E draw \in DrawOf(ShotOf(b), r.drawn + 1) :
          runners' = [runners EXCEPT ![b] =
             IF Matches(plan[r.at].condition, r.clbits)
               THEN [r EXCEPT !.at = @ + 1, !.drawn = @ + 1,
                              !.state = Touch(@, r.at, Targets(plan[r.at]), draw)]
               ELSE [r EXCEPT !.at = @ + 1]]

\* The digit position j reports: the mapped digit, or one drawn for it.
ReportOf(step, shot, drawn, digits, j) ==
    IF step.confused THEN {draw[step.targets[j]] : draw \in DrawOf(shot, drawn + j)}
    ELSE {IF step.flips THEN 1 - digits[step.targets[j]] ELSE digits[step.targets[j]]}

Positions(step) == 1..Len(step.targets)

\* Positions are written in turn, so the last one wins a shared clbit.
Write(clbits, step, reports, state) ==
    [c \in Clbits |->
        LET written == {j \in Positions(step) : step.clbits[j] = c}
            last    == CHOOSE j \in written : \A i \in written : i <= j
        IN  IF written = {} THEN clbits[c]
            ELSE [digit |-> reports[last], of |-> state[step.targets[last]]]]

Measure(b) ==
    LET r == runners[b]
        step == plan[r.at]
    IN  /\ IsMeasurement(step)
        /\ \E digits \in DrawOf(ShotOf(b), r.drawn + 1) :
           \E reports \in [Positions(step) -> {0, 1}] :
              /\ \A j \in Positions(step) :
                    reports[j] \in ReportOf(step, ShotOf(b), r.drawn + 1, digits, j)
              /\ runners' = [runners EXCEPT ![b] =
                    [r EXCEPT !.at = @ + 1,
                              !.drawn = @ + 1 + (IF step.confused THEN Len(step.targets) ELSE 0),
                              !.state = Touch(@, r.at, Targets(step), digits),
                              !.clbits = Write(@, step, reports, r.state)]]

Replay(b) ==
    /\ pc = "run" /\ path = "per_shot"
    /\ Busy(b) /\ runners[b].at <= Len(plan)
    /\ Deterministic(b) \/ Branch(b) \/ Measure(b)
    /\ UNCHANGED <<call, pc, policy, result>>

\* Faulty variant: the next shot starts from the register of this one.
FinishShotSharingRegister(b) ==
    /\ pc = "run" /\ path = "per_shot"
    /\ Busy(b) /\ runners[b].at > Len(plan)
    /\ runners' = [runners EXCEPT ![b] =
          [Idle EXCEPT !.done = runners[b].done + 1,
                       !.rows = Append(runners[b].rows, runners[b].clbits),
                       !.state = IF runners[b].done + 1 = Len(batches[b])
                                   THEN runners[b].state ELSE Blank,
                       !.clbits = runners[b].clbits]]
    /\ UNCHANGED <<call, pc, policy, result>>

\* The shot's row is taken; the next shot starts from a copy of the start.
FinishShot(b) ==
    /\ pc = "run" /\ path = "per_shot"
    /\ Busy(b) /\ runners[b].at > Len(plan)
    /\ LET r == runners[b]
           over == r.done + 1 = Len(batches[b])
       IN  runners' = [runners EXCEPT ![b] =
              [Idle EXCEPT !.done = r.done + 1,
                           !.rows = Append(r.rows, r.clbits),
                           !.state = IF over THEN r.state ELSE Blank,
                           !.clbits = IF over THEN r.clbits ELSE Register]]
    /\ UNCHANGED <<call, pc, policy, result>>

\* A worker raises or dies: executor.map re-raises, no row is returned.
WorkerFails ==
    /\ pc = "run" /\ strategy = "processes"
    /\ \E b \in DOMAIN batches : Busy(b)
    /\ pc' = "failed"
    /\ UNCHANGED <<call, policy, runners, result>>

\* The rows of the first batches, one batch after the other.
Gathered(finished, n) ==
    LET joined[b \in 0..n] == IF b = 0 THEN <<>> ELSE joined[b - 1] \o finished[b].rows
    IN  joined

\* Batches are concatenated in the order they were submitted.
Collect ==
    /\ pc = "run" /\ path = "per_shot"
    /\ \A b \in DOMAIN batches : ~Busy(b)
    /\ LET last == runners[Len(batches)]
       IN  result' = [rows |-> IF want.counts THEN Gathered(runners, Len(batches))[Len(batches)]
                                              ELSE None,
                      state |-> IF want.state THEN last.state ELSE None,
                      register |-> IF want.register THEN last.clbits ELSE None]
    /\ pc' = "returned"
    /\ UNCHANGED <<call, policy, runners>>
----------------------------------------------------------------------------
(* Single pass: _run_single_pass.                                          *)

EvolveOnce ==
    /\ pc = "run" /\ path = "single_pass"
    /\ runners[1].at <= Len(plan)
    /\ IF IsMeasurement(plan[runners[1].at])
         THEN runners' = [runners EXCEPT ![1].at = @ + 1]
         ELSE Deterministic(1)
    /\ UNCHANGED <<call, pc, policy, result>>

\* deferred_measurements: a step and a position in it.
DeferredPairs ==
    UNION {{i} \X Positions(plan[i]) : i \in {m \in Indices : IsMeasurement(plan[m])}}

Later(p, q) == p[1] > q[1] \/ (p[1] = q[1] /\ p[2] > q[2])

\* Faulty variant: an earlier report survives a later write.
ReporterFirst(c) ==
    LET writes == {p \in DeferredPairs : plan[p[1]].clbits[p[2]] = c}
    IN  CHOOSE p \in writes : \A q \in writes : ~Later(p, q)

\* _reporting_by_clbit: the last writer's report holds.
Reporter(c) ==
    LET writes == {p \in DeferredPairs : plan[p[1]].clbits[p[2]] = c}
    IN  CHOOSE p \in writes : \A q \in writes : ~Later(q, p)

Written == {plan[p[1]].clbits[p[2]] : p \in DeferredPairs}

LastWriter(c) ==
    LET writes == {p \in DeferredPairs : plan[p[1]].clbits[p[2]] = c}
    IN  CHOOSE p \in writes : \A q \in writes : ~Later(q, p)

\* Faulty variant: unwritten clbits are zero, whatever the caller gave.
SampledRowFromZero(sample, confusion) ==
    [c \in Clbits |->
        IF c \notin Written THEN [digit |-> 0, of |-> <<>>]
        ELSE LET s == plan[LastWriter(c)[1]].targets[LastWriter(c)[2]]
                 report == plan[Reporter(c)[1]]
             IN  [digit |-> IF report.confused THEN confusion[s]
                            ELSE IF report.flips THEN 1 - sample[s] ELSE sample[s],
                  of |-> runners[1].state[s]]]

\* The row that a sampled basis index and a draw of the confusions decode to.
SampledRow(sample, confusion) ==
    [c \in Clbits |->
        IF c \notin Written THEN [digit |-> start[c], of |-> <<>>]
        ELSE LET s == plan[LastWriter(c)[1]].targets[LastWriter(c)[2]]
                 report == plan[Reporter(c)[1]]
             IN  [digit |-> IF report.confused THEN confusion[s]
                            ELSE IF report.flips THEN 1 - sample[s] ELSE sample[s],
                  of |-> runners[1].state[s]]]

\* _collapse: the projection onto the sampled index.
Collapsed(state, sample) ==
    [s \in Subsystems |->
        IF \E p \in DeferredPairs : plan[p[1]].targets[p[2]] = s
          THEN LET p == CHOOSE p \in DeferredPairs : plan[p[1]].targets[p[2]] = s
               IN  Append(state[s], <<p[1], sample[s]>>)
          ELSE state[s]]

Sample ==
    /\ pc = "run" /\ path = "single_pass"
    /\ runners[1].at > Len(plan)
    /\ \E samples \in [1..shots -> Draws] : \E confusions \in [1..shots -> Draws] :
          result' = [rows |-> IF want.counts
                                THEN [n \in 1..shots |-> SampledRow(samples[n], confusions[n])]
                                ELSE None,
                     state |-> IF want.state THEN Collapsed(runners[1].state, samples[shots])
                                             ELSE None,
                     register |-> IF want.register THEN Register ELSE None]
    /\ pc' = "returned"
    /\ UNCHANGED <<call, policy, runners>>

Next ==
    \/ Reject \/ Dispatch
    \/ \E b \in DOMAIN batches : Replay(b) \/ FinishShot(b)
    \/ WorkerFails \/ Collect
    \/ EvolveOnce \/ Sample

Spec == Init /\ [][Next]_vars
----------------------------------------------------------------------------
(* Properties.                                                             *)

CellType == [digit : {0, 1}, of : Seq(Indices \X {0, 1})]

TypeOK ==
    /\ pc \in {"call", "run", "returned", "rejected", "failed"}
    /\ path \in {"none", "single_pass", "per_shot"}
    /\ strategy \in {"none", "serial", "threads", "processes"}
    /\ compiled \in BOOLEAN
    /\ DOMAIN runners = DOMAIN batches
    /\ \A b \in DOMAIN batches :
          /\ runners[b].done \in 0..Len(batches[b])
          /\ runners[b].at \in 1..(Len(plan) + 1)
          /\ runners[b].drawn \in 0..MaxDraws
          /\ runners[b].clbits \in [Clbits -> CellType]
          /\ Len(runners[b].rows) = runners[b].done

(* Every answer is one the contract allows: a row is the register of some  *)
(* source-order run, though the single pass defers measurements, decodes   *)
(* sampled indices and applies the last writer's report, and though shots  *)
(* run concurrently; no answer has rows missing.                           *)
ImplementsContract == Contract!Spec

\* Step k of plan p, taken by a shot that runs alone on its own stream.
AloneStep(r, p, k, kinds, stream) ==
    LET step  == p[k]
        draw  == stream[r.drawn + 1]
        draws == step.kind \in kinds
        Report(j) == LET s == step.targets[j]
                     IN  IF step.confused THEN stream[r.drawn + 1 + j][s]
                         ELSE IF step.flips THEN 1 - draw[s] ELSE draw[s]
    IN  IF ~Matches(step.condition, r.clbits) THEN r
        ELSE [state  |-> Touch(r.state, k, Targets(step), IF draws THEN draw ELSE Undrawn),
              clbits |-> IF IsMeasurement(step)
                           THEN Write(r.clbits, step, [j \in Positions(step) |-> Report(j)], r.state)
                           ELSE r.clbits,
              drawn  |-> r.drawn + Cost(step, kinds)]

Begun(register) == [state |-> Blank, clbits |-> register, drawn |-> 0]

\* A shot after each number of steps.
Replayed(p, register, kinds, stream) ==
    LET after[k \in 0..Len(p)] ==
          IF k = 0 THEN Begun(register)
          ELSE AloneStep(after[k - 1], p, k, kinds, stream)
    IN  after

\* The row of one shot replayed alone, on its own stream.
Alone(stream) == Replayed(plan, Register, ChancyKinds, stream)[Len(plan)].clbits

(* Row n depends on the stream of shot n and on nothing else: not on the   *)
(* number of workers, the batch the shot is in, the shots run before it on *)
(* the same engine, or the array compiled shots share (parallel.py:115-117,    *)
(* trajectories.py:743-751).                                               *)
SeedDecidesRow ==
    /\ TypeOK
    /\ (result # None /\ path = "per_shot" /\ want.counts) =>
          \A n \in 1..shots : result.rows[n] = Alone(streams[n])
=============================================================================
