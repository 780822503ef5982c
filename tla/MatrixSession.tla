--------------------------- MODULE MatrixSession ---------------------------
(***************************************************************************)
(* One matrix simulator and the calls made on it: run, run_sweep and an    *)
(* estimator's request (simulator.py), from the checks of a call to its    *)
(* results.  The engine keeps its caches from call to call, binds the rows *)
(* of a sweep, and executes them by the Python workflow, by compiled       *)
(* trajectories, by a compiled sweep or by a packed operator plan          *)
(* (_engine/engines, _engine/workflows).                                   *)
(*                                                                         *)
(* A call is [kind "run" | "sweep" | "expect", dims, nc, code, noise,      *)
(* columns, start, clbits, config, observables]; an instruction is [kind,  *)
(* op, fields, targets, cond, outs], its fields naming the columns of a    *)
(* sweep.  One shot stands for all the shots of an execution.              *)
(***************************************************************************)
EXTENDS MatrixKernels

CONSTANTS Sessions,                         \* [method, backend, calls] of one simulator
          MinSizeToThread, ThreadCapacity,  \* _MIN_SIZE_TO_THREAD and _MAX_THREADS
          MinSizeToFuse, Grain,             \* _MIN_SIZE_TO_FUSE, _GRAIN_TO_THREAD_OPERATOR
          BatchRows, BaseRows               \* rows of a compiled batch, of a chunk of base states

VARIABLES session, turn, phase,
          job,      \* the call in progress: its plan, script, tails
          at,       \* the execution of the script in progress
          rows,     \* the bound rows of the sweep
          cache,    \* the resolutions kept for steps, by the identity of the step
          items,    \* the prepared payload of the execution
          pc, psi, clbits,
          drawn,    \* the outcomes drawn so far
          team,     \* the workers of a parallel loop
          batch,    \* the rows of a compiled sweep
          saved,    \* base states of a sampled expectation, states of a compiled sweep
          outputs,  \* what the executions of this call returned
          results
vars == <<session, turn, phase, job, at, rows, cache, items, pc, psi, clbits, drawn, team, batch,
          saved, outputs, results>>

Call == session.calls[turn]
Method == session.method
Numba == session.backend = "numba"
IsOperator(method) == method \in {"unitary", "superop"}
\* nonunitary_is_stochastic of the engine's capabilities.
Branching(method) == method \in {"statevector", "unitary"}
SystemDims(call) == Flipped(call.dims)

-----------------------------------------------------------------------------
(* Lowering.                                                               *)

MakeStep(kind, op, matrix, ops, targets, cond, outs, fields) ==
    [id |-> 0, kind |-> kind, op |-> op, key |-> op.name, matrix |-> matrix, ops |-> ops,
     targets |-> targets, cond |-> cond, outs |-> outs, fields |-> fields]
NoOp == [name |-> "none", args |-> <<>>]
\* _allocate_engine_indices: the subsystems in reverse.
EngineTargets(call, targets) == [k \in DOMAIN targets |-> Len(call.dims) + 1 - targets[k]]
\* _lower_gate: the gate, then the channel its noise rule names, under one condition.
LowerGate(call, i) ==
    LET t == EngineTargets(call, i.targets)
        d == TargetDims(call.dims, i.targets)
        gate == IF DOMAIN i.fields # {}
                THEN MakeStep("parametric", i.op, Identity(Product(d)), <<>>, t, i.cond, <<>>, i.fields)
                ELSE MakeStep("matrix", i.op, BuiltinMatrix(i.op, d), <<>>, t, i.cond, <<>>, <<>>)
    IN  <<gate>> \o (IF i.op.name \in DOMAIN call.noise
                     THEN <<MakeStep("channel", NoOp, <<>>, call.noise[i.op.name], t, i.cond, <<>>, <<>>)>>
                     ELSE <<>>)
\* _lower, with _lower_measurement and _lower_reset; a barrier leaves nothing.
LowerOne(call, i) ==
    CASE i.kind = "barrier" -> <<>>
      [] i.kind = "measure" -> <<MakeStep("measure", NoOp, <<>>, <<>>, EngineTargets(call, i.targets),
                                          <<>>, i.outs, <<>>)>>
      [] i.kind = "reset" -> <<MakeStep("reset", NoOp, <<>>, <<>>, EngineTargets(call, i.targets),
                                        i.cond, <<>>, <<>>)>>
      [] OTHER -> LowerGate(call, i)
Lowered(call) ==
    LET upTo[k \in 0..Len(call.code)] ==
          IF k = 0 THEN <<>> ELSE upTo[k - 1] \o LowerOne(call, call.code[k])
    IN  upTo[Len(call.code)]

Has(plan, kind) == \E k \in DOMAIN plan : plan[k].kind = kind
HasCondition(plan) == \E k \in DOMAIN plan : plan[k].cond # <<>>
\* _analyze_common_plan_facts: whether the final state depends on draws.
Stochastic(plan, method) ==
    Has(plan, "measure") \/ (Branching(method) /\ (Has(plan, "reset") \/ Has(plan, "channel")))

\* _plan_term_occurrences: terms without factors are constants, null terms nothing.
Occurrences(call) ==
    LET terms == [o \in DOMAIN call.observables |->
                    SelectSeq(call.observables[o], LAMBDA t: t.coeff # 0 /\ t.factors # <<>>)]
        tagged(o) == [k \in DOMAIN terms[o] |->
                        [observable |-> o, coeff |-> terms[o][k].coeff,
                         factors |-> [f \in DOMAIN terms[o][k].factors |->
                            [terms[o][k].factors[f] EXCEPT !.axis = Len(call.dims) + 1 - @]]]]
        upTo[o \in 0..Len(terms)] == IF o = 0 THEN <<>> ELSE upTo[o - 1] \o tagged(o)
    IN  upTo[Len(terms)]
ConstantOf(terms) ==
    Total(Len(terms), LAMBDA k: IF terms[k].factors = <<>> THEN terms[k].coeff ELSE 0)
\* _build_expectation_tail: rotate each Pauli to the computational basis and measure into
\* scratch digits behind the program's own.
ExpectationTail(call, occurrence) ==
    LET f == occurrence.factors
        gate(name, axis) == MakeStep("matrix", [name |-> name, args |-> <<>>], FixedMatrix(name),
                                     <<>>, <<axis>>, <<>>, <<>>, <<>>)
        turn1(k) == CASE f[k].kind = "X" -> <<gate("H", f[k].axis)>>
                      [] f[k].kind = "Y" -> <<gate("Sdg", f[k].axis), gate("H", f[k].axis)>>
                      [] OTHER -> <<>>
        turns[k \in 0..Len(f)] == IF k = 0 THEN <<>> ELSE turns[k - 1] \o turn1(k)
    IN  Append(turns[Len(f)],
               MakeStep("measure", NoOp, <<>>, <<>>, [k \in DOMAIN f |-> f[k].axis], <<>>,
                        [k \in DOMAIN f |-> call.nc + k], <<>>))
\* _reconstruct_term_outcome.
TermOutcome(factors, digits) ==
    Product([k \in DOMAIN factors |->
       CASE factors[k].kind = "P" -> IF digits[k] = factors[k].level THEN 1 ELSE 0
         [] factors[k].kind = "N" -> digits[k]
         [] OTHER -> IF digits[k] = 0 THEN 1 ELSE -1])

-----------------------------------------------------------------------------
(* The checks of a call, in the order they are made.                       *)

Capable(method) == ~IsOperator(method)   \* supports_classical_register
Want(config, measured, stochastic) ==
    [counts |-> IF config.counts = "default" THEN measured ELSE config.counts = "yes",
     state |-> IF config.state = "default" THEN ~stochastic ELSE config.state = "yes",
     classical |-> config.classical, shots |-> config.shots]
FirstOf(reasons) ==
    LET holds == {k \in DOMAIN reasons : reasons[k][2]}
    IN  IF holds = {} THEN "" ELSE reasons[Least(holds)][1]
\* _SimulationConfig: threads asked for twice, or with one worker.
Contradictory(config) ==
    \/ config.shot = "threads" /\ config.kernel = "threads"
    \/ config.workers = 1 /\ "threads" \in {config.shot, config.kernel}
\* Program, configuration and initial state: run, _prepare_execution,
\* _prepare_initial_state, _validate_initial_state.
StartRefusal(call, method) ==
    LET size == Product(call.dims)
    IN  FirstOf(<<
          <<"unbound", call.kind = "run" /\ \E k \in DOMAIN call.code : DOMAIN call.code[k].fields # {}>>,
          <<"parallelism", Contradictory(call.config)>>,
          <<"start of an operator", IsOperator(method) /\ call.start.kind # "none">>,
          <<"register of an operator", call.clbits # {} /\ ~Capable(method)>>,
          <<"register size", \E c \in call.clbits : Len(c) # call.nc>>,
          <<"shape", call.start.kind = "array"
                     /\ Len(call.start.array) \notin
                          ({size} \cup (IF method = "density_matrix" THEN {size * size} ELSE {}))>>>>)
\* Mutant: guards are not looked at.
SupportRefusalUnguarded(call, method, numba, plan) ==
    FirstOf(<<
      <<"kernel threads", call.config.kernel = "threads" /\ ~numba>>,
      <<"fusion", call.config.fusion /\ ~(numba /\ IsOperator(method))>>,
      <<"measurement", Has(plan, "measure") /\ ~Capable(method)>>,
      <<"not unitary", method = "unitary" /\ Has(plan, "reset")>>>>)
\* _validate_engine_support.
SupportRefusal(call, method, numba, plan) ==
    FirstOf(<<
      <<"kernel threads", call.config.kernel = "threads" /\ ~numba>>,
      <<"fusion", call.config.fusion /\ ~(numba /\ IsOperator(method))>>,
      <<"measurement", Has(plan, "measure") /\ ~Capable(method)>>,
      <<"condition", HasCondition(plan) /\ ~Capable(method)>>,
      <<"not unitary", method = "unitary" /\ (Has(plan, "reset") \/ Has(plan, "channel"))>>>>)
\* _validate_run_request and _validate_result_shots.
RequestRefusal(call, method, plan) ==
    LET stochastic == Stochastic(plan, method)
        want == Want(call.config, Has(plan, "measure"), stochastic)
    IN  FirstOf(<<
          <<"counts of an operator", call.config.counts = "yes" /\ IsOperator(method)>>,
          <<"no shots", want.counts /\ want.shots <= 0>>,
          <<"state of many shots", call.config.state = "yes" /\ stochastic /\ want.shots # 1>>,
          <<"register of an operator", want.classical /\ IsOperator(method)>>,
          <<"register of many shots", want.classical /\ stochastic /\ want.shots # 1>>>>)
\* Estimator._validate_program and _prepare_expectation.
ExpectRefusal(call, method, plan) ==
    FirstOf(<<
      <<"expectation of an operator", IsOperator(method)>>,
      <<"exact stochastic state", call.config.shots = 0 /\ method = "statevector"
                                  /\ Stochastic(plan, method)>>>>)
Refusal(call, method, numba) ==
    LET plan == Lowered(call)
    IN  FirstOf(<<
          <<"measured program", call.kind = "expect" /\ Has(plan, "measure")>>,
          <<StartRefusal(call, method), StartRefusal(call, method) # "">>,
          <<SupportRefusal(call, method, numba, plan), SupportRefusal(call, method, numba, plan) # "">>,
          <<"request", IF call.kind = "expect" THEN ExpectRefusal(call, method, plan) # ""
                       ELSE RequestRefusal(call, method, plan) # "">>>>)

-----------------------------------------------------------------------------
(* The policy of an execution (_execution_policy.py, numba_engine.py).  A   *)
(* policy with an error is the exception its selection raises.             *)

\* _select_execution_path.
ExecutionPath(plan, method, classical) ==
    LET measuredBefore(k) == UNION {Elements(plan[j].targets) :
                                      j \in {n \in 1..(k - 1) : plan[n].kind = "measure"}}
        again(k) == Elements(plan[k].targets) \cap measuredBefore(k) # {}
        perShot(k) ==
            \/ plan[k].cond # <<>>
            \/ plan[k].kind = "measure" /\ classical
            \/ plan[k].kind \in {"reset", "channel"} /\ Branching(method)
            \/ again(k)
    IN  IF IsOperator(method) THEN "operator"
        ELSE IF \E k \in DOMAIN plan : perShot(k) THEN "per_shot" ELSE "single_pass"
\* _validate_shot_parallelism.
ShotError(config, path, want) ==
    FirstOf(<<
      <<"per-shot evolution", config.shot = "threads" /\ path # "per_shot">>,
      <<"two shots", config.shot = "threads" /\ want.shots < 2>>,
      <<"result fields", config.shot = "threads" /\ (~want.counts \/ want.state \/ want.classical)>>>>)
\* _explicit_thread_worker_ceiling, _adaptive_thread_worker_ceiling and
\* _resolve_kernel_scheduling; config.workers is 0 when max_workers is None.
Explicit(config) == Largest(1, Least({IF config.workers = 0 THEN ThreadCapacity ELSE config.workers,
                                      ThreadCapacity}))
Adaptive(config) == IF config.workers = 0 THEN 0
                    ELSE Largest(1, Least({config.workers, ThreadCapacity}))
KernelScheduling(config, numba) ==
    IF config.kernel = "threads"
    THEN [error |-> IF Explicit(config) < 2 THEN "thread capacity" ELSE "",
          kernels |-> "threads", workers |-> Explicit(config)]
    ELSE IF config.kernel = "serial" \/ ~numba \/ ThreadCapacity < 2 \/ config.workers = 1
    THEN [error |-> "", kernels |-> "serial", workers |-> 1]
    ELSE [error |-> "", kernels |-> "adaptive", workers |-> Adaptive(config)]
Policy(error, path, kernels, workers, workflow) ==
    [error |-> error, path |-> path, kernels |-> kernels, workers |-> workers, workflow |-> workflow]
\* _kernel_thread_workers.
KernelWorkers(policy) ==
    IF policy.kernels = "serial" THEN 1
    ELSE IF policy.workers = 0 THEN ThreadCapacity ELSE policy.workers

\* _plan_python_execution with _resolve_python_workflow_scheduling; the selection of
\* _NumbaOperatorRunMixin differs in its workflow only.
PythonPolicy(config, path, want, numba) ==
    LET scheduling == KernelScheduling(config, numba)
        error == FirstOf(<<<<ShotError(config, path, want), ShotError(config, path, want) # "">>,
                           <<"threads of the Python workflow",
                             config.shot = "threads" /\ path # "operator">>,
                           <<scheduling.error, scheduling.error # "">>>>)
    IN  Policy(error, path, scheduling.kernels, scheduling.workers,
               IF numba /\ path = "operator" THEN "numba_operator" ELSE "python")
\* NumbaSVEngine._select_policy.
NumbaVectorPolicy(config, plan, path, want, dims) ==
    LET python == PythonPolicy(config, path, want, TRUE)
        shotError == ShotError(config, path, want)
        usePython == \/ config.kernel = "threads"
                     \/ config.shot = "serial" /\ config.kernel = "auto"
                     \/ want.shots <= 1
                     \/ path # "per_shot"
                     \/ ~want.counts \/ want.state \/ want.classical
        compiledBatch == /\ Has(plan, "parametric")
                         /\ \A k \in DOMAIN plan : plan[k].kind = "parametric"
                                                      => plan[k].op.name \in AngleNames
    IN  IF shotError # "" THEN python
        ELSE IF usePython
        THEN IF /\ compiledBatch /\ path = "single_pass" /\ python.kernels # "threads"
                /\ Product(dims) < MinSizeToThread
             THEN [python EXCEPT !.workflow = "numba_single_pass"] ELSE python
        ELSE Policy(IF config.shot = "threads" /\ Explicit(config) < 2 THEN "thread capacity" ELSE "",
                    path, "serial",
                    IF config.shot = "threads" THEN Explicit(config)
                    ELSE IF config.shot = "serial" THEN 1 ELSE Adaptive(config),
                    "numba_trajectories")
PolicyOf(call, method, numba, plan, want) ==
    LET path == ExecutionPath(plan, method, want.classical)
    IN  IF numba /\ method = "statevector"
        THEN NumbaVectorPolicy(call.config, plan, path, want, SystemDims(call))
        ELSE PythonPolicy(call.config, path, want, numba)

-----------------------------------------------------------------------------
(* The executions of a call, in order.  An execution is [use, row,          *)
(* occurrence, opens, prepares, policy, want, nc]: it opens a binding of   *)
(* the sweep's rows, and prepares its payload or takes the last one.       *)

RowCountOf(call) == IF call.kind = "run" \/ DOMAIN call.columns = {} THEN 1
                    ELSE Len(call.columns[CHOOSE c \in DOMAIN call.columns : TRUE])
Execution(use, row, occurrence, opens, prepares, policy, want, nc) ==
    [use |-> use, row |-> row, occurrence |-> occurrence, opens |-> opens, prepares |-> prepares,
     policy |-> policy, want |-> want, nc |-> nc]
Concatenated(n, part(_)) ==
    LET upTo[k \in 0..n] == IF k = 0 THEN <<>> ELSE upTo[k - 1] \o part(k) IN upTo[n]

\* execute: one execution for each row; a compiled sweep evolves a batch of rows first.
RowsScript(call, use, plan, policy, want) ==
    LET n == RowCountOf(call)
    IN  IF policy.workflow = "numba_single_pass"
        THEN Concatenated(n, LAMBDA r:
               (IF (r - 1) % BatchRows = 0
                THEN <<Execution("batch", r, 0, r = 1, r = 1, policy, want, call.nc)>> ELSE <<>>)
               \o <<Execution(use, r, 0, FALSE, FALSE, policy, want, call.nc)>>)
        ELSE [r \in 1..n |-> Execution(use, r, 0, r = 1, TRUE, policy, want, call.nc)]
StateOnly(classical) == [counts |-> FALSE, state |-> TRUE, classical |-> classical, shots |-> 1]
CountsOnly(shots) == [counts |-> TRUE, state |-> FALSE, classical |-> FALSE, shots |-> shots]
\* _execute_sampled_expectation: chunks of base states, each continued by every tail, or the
\* whole program with each tail when its state depends on draws.
SampledScript(call, method, numba, plan, tails) ==
    LET n == RowCountOf(call)
        width(o) == call.nc + Len(tails[o][Len(tails[o])].targets)
        want == CountsOnly(call.config.shots)
        policy(steps, w) == PolicyOf(call, method, numba, steps, w)
        base == policy(plan, StateOnly(TRUE))
        whole(o, r) == Execution("whole", r, o, r = 1, TRUE, policy(plan \o tails[o], want), want,
                                 width(o))
        tail(o, r, first) == Execution("tail", r, o, FALSE, first, policy(tails[o], want), want, width(o))
        last(c) == Least({n, c * BaseRows})
        first(c) == (c - 1) * BaseRows + 1
        bases == RowsScript(call, "base", plan, base, StateOnly(TRUE))
        basesOf(c) == SelectSeq(bases, LAMBDA e: first(c) <= e.row /\ e.row <= last(c))
    IN  IF Stochastic(plan, method)
        THEN Concatenated(Len(tails), LAMBDA o: [r \in 1..n |-> whole(o, r)])
        ELSE Concatenated((n + BaseRows - 1) \div BaseRows, LAMBDA c:
               basesOf(c) \o Concatenated(Len(tails), LAMBDA o:
                 [k \in 1..(last(c) - first(c) + 1) |-> tail(o, first(c) + k - 1, k = 1)]))
Script(call, method, numba, plan, tails) ==
    LET want == Want(call.config, Has(plan, "measure"), Stochastic(plan, method))
    IN  IF call.kind # "expect"
        THEN RowsScript(call, "run", plan, PolicyOf(call, method, numba, plan, want), want)
        ELSE IF tails = <<>>
        THEN <<Execution("constants", 0, 0, FALSE, FALSE,
                         PolicyOf(call, method, numba, plan, [StateOnly(FALSE) EXCEPT !.state = FALSE,
                                                              !.shots = call.config.shots]),
                         StateOnly(FALSE), call.nc)>>
        ELSE IF call.config.shots = 0
        THEN RowsScript(call, "exact", plan, PolicyOf(call, method, numba, plan, StateOnly(FALSE)),
                        StateOnly(FALSE))
        ELSE SampledScript(call, method, numba, plan, tails)

-----------------------------------------------------------------------------
(* Steps have an identity, id(step); an identity is free again when nothing *)
(* refers to its step, a cache entry included.                             *)

Ids(plan) == {plan[k].id : k \in DOMAIN plan}
\* Mutant: a cache entry does not hold its step.
HeldElsewhere(c, current) ==
    Ids(job.plan) \cup UNION {Ids(job.tails[o]) : o \in DOMAIN job.tails}
      \cup UNION {Ids(rows[r]) : r \in {n \in DOMAIN rows : n >= current}}
      \cup {items[k].step.id : k \in {n \in DOMAIN items : items[n].held}}
Held(c, current) ==
    Ids(job.plan) \cup UNION {Ids(job.tails[o]) : o \in DOMAIN job.tails}
      \cup UNION {Ids(rows[r]) : r \in {n \in DOMAIN rows : n >= current}}
      \cup {items[k].step.id : k \in {n \in DOMAIN items : items[n].held}}
      \cup DOMAIN c
Numbered(plan, taken) ==
    LET free == From((1..(Cardinality(taken) + Len(plan))) \ taken)
    IN  [k \in DOMAIN plan |-> [plan[k] EXCEPT !.id = free[k]]]

\* _bind_parameter_batch with _bind_step and _build_matrix_batch: every row of the sweep is
\* bound before the first is executed; the other steps are shared by the rows.
BoundOp(call, step, row) ==
    [step.op EXCEPT !.args = [f \in DOMAIN @ |->
        IF f \in DOMAIN step.fields THEN call.columns[step.fields[f]][row] ELSE @[f]]]
BoundStep(call, step, row) ==
    LET d == TargetDims(SystemDims(call), step.targets)
        columns == [f \in DOMAIN step.fields |-> call.columns[step.fields[f]]]
    IN  [step EXCEPT !.kind = "matrix", !.fields = <<>>,
                     !.matrix = MatrixStack(step.op, columns, RowCountOf(call), d)[row]]
BoundRows(call, plan, taken) ==
    LET open == From({k \in DOMAIN plan : plan[k].kind = "parametric"})
        n == RowCountOf(call)
        bound == Numbered([j \in 1..(n * Len(open)) |->
                             BoundStep(call, plan[open[((j - 1) \div n) + 1]], ((j - 1) % n) + 1)],
                          taken)
        place(k) == CHOOSE j \in DOMAIN open : open[j] = k
    IN  [r \in 1..n |-> [k \in DOMAIN plan |->
           IF plan[k].kind = "parametric" THEN bound[(place(k) - 1) * n + r] ELSE plan[k]]]

-----------------------------------------------------------------------------
(* The caches and the payloads.                                            *)

\* What _MatrixStructureCache, _SuperoperatorCache and _ChannelRouteCache keep of a step.
Resolved(method, step) ==
    IF step.kind = "channel" /\ method = "statevector" THEN UnitaryBranches(step.ops)
    ELSE IF method \in {"statevector", "unitary"} THEN MatrixKernel(step)
    ELSE SuperopKernel(step)
Kept(c, plan) == [i \in DOMAIN c \cap Ids(plan) |-> c[i]]
\* An entry holds its step and counts for that step alone.
Hit(c, step) == step.id \in DOMAIN c /\ c[step.id].step = step
Lookup(c, method, step) == IF Hit(c, step) THEN c[step.id].value ELSE Resolved(method, step)
Stored(c, method, steps) ==
    LET named(i) == {s \in Elements(steps) : s.id = i}
        entry(s) == IF Hit(c, s) THEN c[s.id] ELSE [step |-> s, value |-> Resolved(method, s)]
    IN  [i \in DOMAIN c \cup Ids(steps) |->
           IF named(i) = {} THEN c[i] ELSE entry(CHOOSE s \in named(i) : TRUE)]
Caches(method, numba, step) ==
    IF numba THEN step.kind \in {"matrix", "channel"}
    ELSE step.kind = "channel" /\ method = "statevector"

\* A payload is a sequence of items.  Those of the Python workflow are the steps alone; a
\* packed payload is arrays and holds no step.
PlainItems(plan) == [k \in DOMAIN plan |-> [step |-> plan[k], held |-> TRUE, kernel |-> <<>>, layout |-> <<>>]]
\* _compile_dynamic_plan: the gates with their loops and addresses.
PackedItem(step, kernel, dims) ==
    IF step.kind # "matrix" THEN [step |-> step, held |-> FALSE, kernel |-> <<>>, layout |-> <<>>]
    ELSE LET ready == PreparedFor(kernel, UnitaryLayout(dims, step.targets, FALSE), 1)
         IN  [step |-> step, held |-> FALSE, kernel |-> ready.kernel, layout |-> ready.layout]
PackedItems(plan, c, dims) ==
    Tabulated([k \in DOMAIN plan |->
       PackedItem(plan[k], IF plan[k].kind = "matrix" THEN c[plan[k].id].value ELSE <<>>, dims)])
\* Mutant: the addresses of the row before are kept, and its matrices with them.
PatchedNothing(packed, plan, positions, c, dims) == packed
\* _patch_gate_matrices: a later row replaces the loops of the parametric gates.
PatchedItems(packed, plan, positions, c, dims) ==
    [k \in DOMAIN packed |->
       IF k \in positions THEN PackedItem(plan[k], c[plan[k].id].value, dims) ELSE packed[k]]

\* _placeholder_plan: a parametric gate stands as the identity.
Placeholders(plan) ==
    [k \in DOMAIN plan |-> IF plan[k].kind = "parametric" THEN [plan[k] EXCEPT !.kind = "matrix"]
                           ELSE plan[k]]
\* Mutant: a diagonal gate keeps the values of its placeholder.
FilledMatrices(call, packed, row) ==
    [k \in DOMAIN packed |->
       IF DOMAIN packed[k].step.fields = {} THEN packed[k].kernel
       ELSE LET op == BoundOp(call, packed[k].step, row)
            IN  [packed[k].kernel EXCEPT
                   !.matrix = FilledMatrix(op, Len(packed[k].step.matrix))]]
\* _run_sv_batch, before the gates of a row: its copy of the matrices is filled.
FilledItems(call, packed, row) ==
    [k \in DOMAIN packed |->
       IF DOMAIN packed[k].step.fields = {} THEN packed[k].kernel
       ELSE LET op == BoundOp(call, packed[k].step, row)
                m == FilledMatrix(op, Len(packed[k].step.matrix))
            IN  [packed[k].kernel EXCEPT
                   !.matrix = m,
                   !.values = IF packed[k].kernel.code = "diagonal"
                              THEN [r \in DOMAIN m |-> m[r][r]] ELSE @]]

\* _operator_execution_plan and _operator_payloads; a reset is a channel for each subsystem,
\* built once (_ResetChannelCache) under an identity that is never free.
ResetStepOf(q, dim) ==
    [MakeStep("channel", NoOp, <<>>, ResetChannel(dim), <<q>>, <<>>, <<>>, <<>>)
       EXCEPT !.id = 1000 + 10 * q + dim]
WithoutResets(plan, dims) ==
    Concatenated(Len(plan), LAMBDA k:
      IF plan[k].kind # "reset" THEN <<plan[k]>>
      ELSE [j \in DOMAIN plan[k].targets |-> ResetStepOf(plan[k].targets[j], dims[plan[k].targets[j]])])
JoinedPlan(plan, taken) ==
    LET joined == FuseGateChannels(plan)
        isNew(k) == joined[k] \notin Elements(plan)
        fresh == Numbered(SelectSeq(joined, LAMBDA s: s \notin Elements(plan)), taken)
        rank(k) == Cardinality({j \in 1..k : isNew(j)})
    IN  [k \in DOMAIN joined |-> IF isNew(k) THEN fresh[rank(k)] ELSE joined[k]]
RowDims(method, dims) == IF method = "unitary" THEN dims ELSE dims \o dims
PayloadOf(method, step, kernel, dims) ==
    [matrix |-> kernel.matrix, code |-> kernel.code, columns |-> kernel.columns,
     values |-> kernel.values, sparse |-> kernel.sparse,
     targets |-> IF method = "unitary" THEN step.targets
                 ELSE Shifted(step.targets, Len(dims)) \o step.targets]
OperatorPayloads(method, config, plan, c, dims) ==
    LET payloads == [k \in DOMAIN plan |-> PayloadOf(method, plan[k], c[plan[k].id].value, dims)]
        side == Product(RowDims(method, dims))
    IN  IF config.fusion /\ side * side >= MinSizeToFuse
        THEN FusePayloads(payloads, RowDims(method, dims)) ELSE payloads
\* _pack_operator_plan and _run_operator_plan_parallel: the columns of one worker, through
\* the whole plan.
ColumnWork(method, payloads, dims, lo, hi) ==
    LET side == Product(RowDims(method, dims))
        layout(k) == OperatorLayout(RowDims(method, dims), payloads[k].targets, side)
        work(k) == LET l == layout(k)
                       pieces == ColumnPieces(l, lo, hi)
                   IN  [n \in DOMAIN pieces |-> [kernel |-> payloads[k], layout |-> l, piece |-> pieces[n]]]
    IN  Concatenated(Len(payloads), work)
OperatorTeam(method, payloads, policy, dims) ==
    LET side == Product(RowDims(method, dims))
        n == OperatorChunks(Len(payloads), side * side, side, policy.kernels, KernelWorkers(policy),
                            Grain)
    IN  [w \in 1..n |->
           [todo |-> ColumnWork(method, payloads, dims, Chunk(w - 1, n, side).start,
                                Chunk(w - 1, n, side).end),
            gathered |-> <<>>]]

-----------------------------------------------------------------------------
(* The session.                                                            *)

NoBatch == [items |-> <<>>, entries |-> <<>>, slots |-> <<>>]
NoJob == [plan |-> <<>>, tails |-> <<>>, script |-> <<>>]
Init ==
    /\ session \in Sessions
    /\ turn = 1 /\ phase = "idle" /\ job = NoJob /\ at = 0
    /\ rows = <<>> /\ cache = <<>> /\ items = <<>>
    /\ pc = 0 /\ psi = <<>> /\ clbits = <<>> /\ drawn = <<>>
    /\ team = <<>> /\ batch = NoBatch
    /\ saved = <<>> /\ outputs = <<>> /\ results = <<>>

Now == job.script[at]
Dims == SystemDims(Call)
Closed == /\ phase' = "idle" /\ turn' = turn + 1
          /\ job' = NoJob /\ at' = 0 /\ rows' = <<>> /\ items' = <<>>
          /\ pc' = 0 /\ psi' = <<>> /\ clbits' = <<>> /\ drawn' = <<>>
          /\ team' = <<>> /\ batch' = NoBatch
          /\ saved' = <<>> /\ outputs' = <<>>
          /\ UNCHANGED <<session, cache>>
Report(kind, why, out) == results' = Append(results, [kind |-> kind, why |-> why, outputs |-> out])

\* A call that fails its checks leaves the engine as it was.
Refuse ==
    /\ phase = "idle" /\ turn <= Len(session.calls)
    /\ \E why \in {Refusal(Call, Method, Numba)} \ {""} : Report("refused", why, <<>>)
    /\ Closed
\* The measurement tails of the sampled terms, their steps numbered apart.
TailsFrom(lowered, taken) ==
    LET all == Numbered(Concatenated(Len(lowered), LAMBDA o: lowered[o]), taken)
        before(o) == Total(o - 1, LAMBDA j: Len(lowered[j]))
    IN  [o \in DOMAIN lowered |-> [k \in DOMAIN lowered[o] |-> all[before(o) + k]]]
JobOf(plan, tails) ==
    [plan |-> plan, tails |-> tails, script |-> Script(Call, Method, Numba, plan, tails)]
PlannedJob(plan) ==
    LET occurrences == IF Call.kind = "expect" THEN Occurrences(Call) ELSE <<>>
    IN  JobOf(plan, TailsFrom([o \in DOMAIN occurrences |-> ExpectationTail(Call, occurrences[o])],
                              DOMAIN cache \cup Ids(plan)))
\* run, run_sweep and _run_expectation up to the first execution.
Submit ==
    /\ phase = "idle" /\ turn <= Len(session.calls)
    /\ Refusal(Call, Method, Numba) = ""
    /\ job' = PlannedJob(Numbered(Lowered(Call), DOMAIN cache))
    /\ at' = 1 /\ phase' = "prepare"
    /\ UNCHANGED <<session, turn, rows, cache, items, pc, psi, clbits, drawn, team, batch, saved,
                   outputs, results>>
\* A policy that cannot be had: the job ends in status ERROR.
Fail ==
    /\ phase = "prepare" /\ Now.policy.error # ""
    /\ Report("error", Now.policy.error, <<>>)
    /\ Closed
NothingToRun ==
    /\ phase = "prepare" /\ Now.policy.error = "" /\ Now.use = "constants"
    /\ Report("done", "", <<>>)
    /\ Closed

\* initialize: a fresh copy of the start, or the state an execution continues.
ZeroDigits(n) == [k \in 1..n |-> 0]
StartOf(call, method) ==
    Allocate(method, [kind |-> call.start.kind,
                      levels |-> IF call.start.kind = "basis" THEN Flipped(call.start.levels)
                                 ELSE ZeroDigits(Len(call.dims)),
                      array |-> call.start.array], SystemDims(call))
\* A basis start without levels is the ground state.
GroundOr(call) == IF call.start.kind = "none"
                  THEN [call EXCEPT !.start = [kind |-> "basis", levels |-> ZeroDigits(Len(call.dims)),
                                               array |-> <<>>]]
                  ELSE call
\* The digits of the register: None is the empty set until a step needs them.
DigitsOf(call, nc) ==
    IF call.clbits = {} THEN ZeroDigits(nc)
    ELSE LET c == CHOOSE x \in call.clbits : TRUE IN [k \in 1..nc |-> IF k <= Len(c) THEN c[k] ELSE 0]
\* No shot is run for a per-shot execution that reports nothing.
NoShots(e) == e.policy.path = "per_shot" /\ ~e.want.counts /\ ~e.want.state /\ ~e.want.classical

BoundHere(e) == IF e.opens THEN BoundRows(Call, job.plan, Held(cache, Len(rows) + 1)) ELSE rows
PlanHere(e, bound) ==
    CASE e.use = "tail" -> job.tails[e.occurrence]
      [] e.use = "whole" -> bound[e.row] \o job.tails[e.occurrence]
      [] OTHER -> bound[e.row]
\* An engine assertion stops an operator plan it cannot represent.
Unrepresentable(method, numba, plan) ==
    /\ IsOperator(method)
    /\ \/ Has(plan, "measure")
       \/ ~numba /\ HasCondition(plan)
       \/ method = "unitary" /\ (Has(plan, "reset") \/ Has(plan, "channel"))
BeginState(e, n) ==
    /\ psi' = CASE e.use = "tail" -> saved[e.row].psi
                [] e.policy.workflow = "numba_single_pass" -> batch.entries[e.row].psi
                [] OTHER -> StartOf(GroundOr(Call), Method)
    /\ clbits' = DigitsOf(Call, e.nc)
    /\ drawn' = IF e.use = "tail" THEN saved[e.row].drawn ELSE <<>>
    /\ pc' = IF NoShots(e) THEN n + 1 ELSE 1
    /\ phase' = "run"

\* _dispatch_by_shot_strategy and continue_from_states: bind the rows, keep the entries of
\* the plan, and prepare the payload of the workflow.
BeginPython ==
    /\ phase = "prepare" /\ Now.use # "constants" /\ Now.policy.error = ""
    /\ Now.policy.workflow = "python"
    /\ LET bound == BoundHere(Now)
           plan == PlanHere(Now, bound)
       IN  /\ ~Unrepresentable(Method, Numba, plan)
           /\ rows' = bound
           /\ cache' = IF Now.prepares THEN Kept(cache, plan) ELSE cache
           /\ items' = IF Now.prepares THEN PlainItems(plan) ELSE items
           /\ BeginState(Now, Len(plan))
    /\ UNCHANGED <<session, turn, job, at, team, batch, saved, outputs, results>>
\* The cache of a plan whose steps of some kinds are resolved as it is prepared.
KeptFor(plan, kinds) ==
    Stored(Kept(cache, plan), Method, SelectSeq(plan, LAMBDA s: s.kind \in kinds))
\* prepare_payload and, after the first row, _patch_gate_matrices.
PackTrajectories(plan, kept) ==
    LET open == {k \in DOMAIN job.plan : job.plan[k].kind = "parametric"}
    IN  /\ cache' = kept
        /\ items' = IF Now.row = 1 THEN PackedItems(plan, kept, Dims)
                    ELSE PatchedItems(items, plan, open, kept, Dims)
        /\ BeginState(Now, Len(plan))
BeginTrajectories ==
    /\ phase = "prepare" /\ Now.policy.error = "" /\ Now.policy.workflow = "numba_trajectories"
    /\ LET bound == BoundHere(Now)
           plan == PlanHere(Now, bound)
       IN  rows' = bound /\ PackTrajectories(plan, KeptFor(plan, {"matrix"}))
    /\ UNCHANGED <<session, turn, job, at, team, batch, saved, outputs, results>>
\* _NumbaOperatorRunMixin.prepare_payload and execute_payload.
StepsOf(bound) ==
    WithoutResets(IF Method = "superop" /\ Call.config.fusion
                  THEN JoinedPlan(bound[Now.row],
                                  Held(cache, Now.row) \cup UNION {Ids(bound[r]) : r \in Now.row..Len(bound)})
                  ELSE bound[Now.row], Dims)
PackOperator(steps, kept) ==
    /\ cache' = kept
    /\ team' = OperatorTeam(Method, OperatorPayloads(Method, Call.config, steps, kept, Dims),
                            Now.policy, Dims)
PrepareOperator(steps) == PackOperator(steps, KeptFor(steps, {"matrix", "channel"}))
BeginOperator ==
    /\ phase = "prepare" /\ Now.policy.error = "" /\ Now.policy.workflow = "numba_operator"
    /\ LET bound == BoundHere(Now)
       IN  ~Unrepresentable(Method, TRUE, bound[Now.row]) /\ rows' = bound /\ PrepareOperator(StepsOf(bound))
    /\ BeginState(Now, 0)
    /\ items' = <<>>
    /\ UNCHANGED <<session, turn, job, at, batch, saved, outputs, results>>
\* A compiled sweep: its template is prepared once, then a batch of rows starts at a time.
BatchOf(packed) ==
    LET last == Least({Now.row + BatchRows - 1, RowCountOf(Call)})
    IN  [items |-> packed,
         entries |-> [r \in Now.row..last |-> [stage |-> 0, psi |-> StartOf(GroundOr(Call), Method)]],
         slots |-> [r \in Now.row..last |-> [k \in DOMAIN packed |-> packed[k].kernel]]]
PackTemplate(template, kept) ==
    /\ cache' = kept
    /\ batch' = BatchOf(PackedItems(template, kept, Dims))
PrepareTemplate(template) == PackTemplate(template, KeptFor(template, {"matrix"}))
BeginBatch ==
    /\ phase = "prepare" /\ Now.policy.error = "" /\ Now.use = "batch"
    /\ IF Now.prepares THEN PrepareTemplate(Numbered(Placeholders(job.plan), Held(cache, 1)))
       ELSE batch' = BatchOf(batch.items) /\ UNCHANGED cache
    /\ phase' = "batch"
    /\ UNCHANGED <<session, turn, job, at, rows, items, pc, psi, clbits, drawn, team, saved, outputs, results>>
\* The sampling payload of a compiled sweep has no gates.
BeginSampling ==
    /\ phase = "prepare" /\ Now.policy.error = "" /\ Now.use # "batch"
    /\ Now.policy.workflow = "numba_single_pass"
    /\ BeginState(Now, 0)
    /\ UNCHANGED <<session, turn, job, at, rows, cache, items, team, batch, saved, outputs, results>>

-----------------------------------------------------------------------------
(* An execution.                                                           *)

Sampling == Now.policy.workflow = "numba_single_pass"
Running == phase = "run" /\ team = <<>>
Item == items[pc]
Compiled1 == Now.policy.workflow = "numba_trajectories"
Route == IF Compiled1 THEN "trajectory" ELSE session.backend
AtStep == Running /\ ~Sampling /\ pc <= Len(items)
Passes(step) == \A k \in DOMAIN step.cond : clbits[step.cond[k][1]] = step.cond[k][2]
\* A plan of a single pass or of an operator has no condition to look at.
Applies(step) == Now.policy.path # "per_shot" \/ Passes(step)
Draws(step) ==
    IF step.kind = "measure" THEN Now.policy.path = "per_shot"
    ELSE step.kind \in {"reset", "channel"} /\ Method = "statevector"
Skip ==
    /\ AtStep
    /\ IF Item.step.kind = "measure" THEN Now.policy.path # "per_shot" ELSE ~Applies(Item.step)
    /\ pc' = pc + 1
    /\ UNCHANGED <<session, turn, phase, job, at, rows, cache, items, psi, clbits, drawn, team, batch,
                   saved, outputs, results>>

\* The loop of a step of the Python workflow with numba.
LayoutFor(method, dims, targets) ==
    IF method = "statevector" THEN UnitaryLayout(dims, targets, FALSE) ELSE SuperLayout(dims, targets, FALSE)
Threads(method, dims, targets, policy) ==
    LET layout == LayoutFor(method, dims, targets)
    IN  ChunkCount(layout.cosets, layout.cosets * Len(layout.offsets), MinSizeToThread,
                   KernelWorkers(policy), policy.kernels = "threads")
Looping(step) == Numba /\ step.kind \in {"matrix", "channel"} /\ ~Compiled1
ReadyLoop(step, threads) ==
    PreparedFor(Lookup(cache, Method, step), LayoutFor(Method, Dims, step.targets), threads)
\* What a step that draws nothing makes of the state.
Applied(step) ==
    CASE Compiled1 -> Looped(psi, Item.kernel, Item.layout)
      [] Looping(step) -> LET ready == ReadyLoop(step, 1) IN Looped(psi, ready.kernel, ready.layout)
      [] step.kind = "matrix" -> NumpyMatrix(Method, psi, step.matrix, step.targets, Dims)
      [] step.kind = "channel" -> NumpyChannel(Method, psi, step.ops, step.targets, Dims)
      [] Method = "superop" -> ResetSuperop(psi, step.targets, Dims)
      [] OTHER -> ResetDensity(psi, step.targets, Dims)
CacheAfter(step) ==
    IF Caches(Method, Numba, step) /\ ~Compiled1 THEN Stored(cache, Method, <<step>>) ELSE cache
ThreadsOf(step) == IF Looping(step) THEN Threads(Method, Dims, step.targets, Now.policy) ELSE 1
Quiet(step) == step.kind # "measure" /\ ~Draws(step) /\ Applies(step)
Apply1 ==
    /\ AtStep /\ Quiet(Item.step) /\ ThreadsOf(Item.step) = 1
    /\ psi' = Applied(Item.step)
    /\ cache' = CacheAfter(Item.step)
    /\ pc' = pc + 1
    /\ UNCHANGED <<session, turn, phase, job, at, rows, items, clbits, drawn, team, batch, saved,
                   outputs, results>>
\* The parallel loop: each worker takes its part of the cosets, piece by piece.
Crew(ready, n) ==
    LET part(w) == Chunk(w - 1, n, ready.layout.cosets)
        pieces(w) == Pieces(ready.kernel, ready.layout, part(w).start, part(w).end)
    IN  [w \in 1..n |->
           [todo |-> [k \in DOMAIN pieces(w) |->
                        [kernel |-> ready.kernel, layout |-> ready.layout, piece |-> pieces(w)[k]]],
            gathered |-> <<>>]]
Fork ==
    /\ AtStep /\ Quiet(Item.step) /\ ThreadsOf(Item.step) > 1
    /\ LET n == ThreadsOf(Item.step) IN team' = Crew(ReadyLoop(Item.step, n), n)
    /\ cache' = CacheAfter(Item.step)
    /\ UNCHANGED <<session, turn, phase, job, at, rows, items, pc, psi, clbits, drawn, batch, saved,
                   outputs, results>>
Read(w) ==
    /\ team[w].todo # <<>> /\ team[w].gathered = <<>>
    /\ LET next == Head(team[w].todo)
       IN  team' = [team EXCEPT ![w].gathered = ReadPiece(psi, next.layout, next.piece)]
    /\ UNCHANGED psi
Write(w) ==
    /\ team[w].gathered # <<>>
    /\ LET next == Head(team[w].todo)
       IN  psi' = WritePiece(psi, next.kernel, next.layout, next.piece, team[w].gathered)
    /\ team' = [team EXCEPT ![w] = [todo |-> SubSeq(@.todo, 2, Len(@.todo)), gathered |-> <<>>]]
Work ==
    /\ phase = "run"
    /\ \E w \in DOMAIN team : Read(w) \/ Write(w)
    /\ UNCHANGED <<session, turn, phase, job, at, rows, cache, items, pc, clbits, drawn, batch, saved,
                   outputs, results>>
Join ==
    /\ phase = "run" /\ team # <<>> /\ \A w \in DOMAIN team : team[w].todo = <<>>
    /\ team' = <<>> /\ pc' = pc + 1
    /\ UNCHANGED <<session, turn, phase, job, at, rows, cache, items, psi, clbits, drawn, batch, saved,
                   outputs, results>>

\* _measure_subsystems and _measure_step.
Digits(index, targets) == [k \in DOMAIN targets |-> EngineDigit(index, Dims, targets[k])]
Written(register, outs, digits) ==
    [c \in DOMAIN register |->
       LET at1 == {k \in DOMAIN outs : outs[k] = c}
       IN  IF at1 = {} THEN register[c] ELSE digits[Greatest(at1)]]
Picked(weights) == {SearchPick(weights, t) - 1 : t \in Edges(weights)}
DrawMeasure ==
    /\ AtStep /\ Item.step.kind = "measure" /\ Draws(Item.step)
    /\ \E index \in Picked(Probabilities(Method, psi, Dims)) :
          /\ psi' = Project(Method, session.backend, psi, index, Item.step.targets, Dims)
          /\ clbits' = Written(clbits, Item.step.outs, Digits(index, Item.step.targets))
          /\ drawn' = Append(drawn, index)
    /\ pc' = pc + 1
    /\ UNCHANGED <<session, turn, phase, job, at, rows, cache, items, team, batch, saved, outputs, results>>
\* _reset_statevector and _reset_step.
DrawReset ==
    /\ AtStep /\ Item.step.kind = "reset" /\ Draws(Item.step) /\ Applies(Item.step)
    /\ \E index \in Picked(Probabilities(Method, psi, Dims)) :
          /\ psi' = IF Numba THEN NumbaResetVector(psi, index, Item.step.targets, Dims)
                    ELSE NumpyResetVector(psi, index, Item.step.targets, Dims)
          /\ drawn' = Append(drawn, index)
    /\ pc' = pc + 1
    /\ UNCHANGED <<session, turn, phase, job, at, rows, cache, items, clbits, team, batch, saved, outputs,
                   results>>
\* _apply_channel_statevector and _apply_channel_step.
BranchesOf(step) == IF Compiled1 THEN UnitaryBranches(step.ops) ELSE Lookup(cache, Method, step)
WeightsOf(step) == ChannelWeights(Route, psi, step.ops, BranchesOf(step), step.targets, Dims)
DrawBranch(step, branches, weights) ==
    \E t \in Edges(weights) :
       LET k == ChannelChoice(Route, weights, branches, t)
       IN  /\ psi' = ChannelBranch(Route, psi, step.ops, branches, k, step.targets, Dims)
           /\ drawn' = Append(drawn, k)
DrawChannel ==
    /\ AtStep /\ Item.step.kind = "channel" /\ Draws(Item.step) /\ Applies(Item.step)
    /\ DrawBranch(Item.step, BranchesOf(Item.step), WeightsOf(Item.step))
    /\ cache' = CacheAfter(Item.step)
    /\ pc' = pc + 1
    /\ UNCHANGED <<session, turn, phase, job, at, rows, items, clbits, team, batch, saved, outputs, results>>

\* _run_sv_batch: the rows of a batch run in parallel, each on its own copy of the gate
\* tables.
\* Mutant: every row of a batch uses the tables of its first row.
SharedSlot(entry) == Now.row
Slot(entry) == entry
Fill(r) ==
    /\ batch.entries[r].stage = 0
    /\ batch' = [batch EXCEPT !.slots[Slot(r)] = FilledItems(Call, batch.items, r), !.entries[r].stage = 1]
Evolve(r) ==
    /\ batch.entries[r].stage \in DOMAIN batch.items
    /\ LET k == batch.entries[r].stage
           kernel == batch.slots[Slot(r)][k]
       IN  batch' = [batch EXCEPT !.entries[r] =
                       [stage |-> k + 1,
                        psi |-> IF batch.items[k].step.kind # "matrix" THEN @.psi
                                ELSE Looped(@.psi, kernel, batch.items[k].layout)]]
BatchWork ==
    /\ phase = "batch"
    /\ \E r \in DOMAIN batch.entries : Fill(r) \/ Evolve(r)
    /\ UNCHANGED <<session, turn, phase, job, at, rows, cache, items, pc, psi, clbits, drawn, team, saved,
                   outputs, results>>
BatchJoin ==
    /\ phase = "batch" /\ \A r \in DOMAIN batch.entries : batch.entries[r].stage = Len(batch.items) + 1
    /\ at' = at + 1 /\ phase' = "prepare"
    /\ UNCHANGED <<session, turn, job, rows, cache, items, pc, psi, clbits, drawn, team, batch, saved,
                   outputs, results>>

-----------------------------------------------------------------------------
(* The end of an execution.                                                *)

StepsHere == IF Sampling THEN job.plan ELSE [k \in DOMAIN items |-> items[k].step]
\* The measurements a single pass puts off to its end.
Deferred ==
    IF Now.policy.path # "single_pass" THEN <<>>
    ELSE SelectSeq(StepsHere, LAMBDA s: s.kind = "measure")
DeferredTargets == Concatenated(Len(Deferred), LAMBDA k: Deferred[k].targets)
DeferredOuts == Concatenated(Len(Deferred), LAMBDA k: Deferred[k].outs)
AtEnd == Running /\ (Sampling \/ pc > Len(items))
DrawsAtEnd == Deferred # <<>> /\ (Now.want.state \/ Now.want.counts)

\* export_state and the classical state; counts report one sampled row.
Output(v, register, outcomes) ==
    [use |-> Now.use, row |-> Now.row, occurrence |-> Now.occurrence, drawn |-> outcomes,
     psi |-> IF ~Now.want.state THEN <<>>
             ELSE IF Method = "superop" THEN ExportSuperop(v, Dims) ELSE v,
     clbits |-> IF Now.want.counts \/ Now.want.classical THEN register ELSE <<>>,
     value |-> IF Now.use # "exact" THEN <<>>
               ELSE [o \in DOMAIN Call.observables |->
                       LET mine == SelectSeq(Occurrences(Call), LAMBDA t: t.observable = o)
                       IN  [constant |-> ConstantOf(Call.observables[o]),
                            terms |-> ExpectationOf(session.backend, Method, v, mine, Dims)]]]
Deliver(out) ==
    /\ saved' = IF Now.use = "base" THEN Append(saved, out) ELSE saved
    /\ outputs' = IF Now.use = "base" THEN outputs ELSE Append(outputs, out)
    /\ IF at < Len(job.script)
       THEN at' = at + 1 /\ phase' = "prepare"
       ELSE at' = at /\ phase' = "return"
\* _run_single_pass: the measurements that were put off are drawn once; the state collapses
\* when it was asked for.
DrawAtEnd ==
    /\ AtEnd /\ DrawsAtEnd
    /\ \E index \in Picked(Probabilities(Method, psi, Dims)) :
          /\ psi' = IF Now.want.state THEN Project(Method, session.backend, psi, index, DeferredTargets, Dims)
                    ELSE psi
          /\ clbits' = Written(clbits, DeferredOuts, Digits(index, DeferredTargets))
          /\ drawn' = Append(drawn, index)
          /\ Deliver(Output(psi', clbits', drawn'))
    /\ UNCHANGED <<session, turn, job, rows, cache, items, pc, team, batch, results>>
Finish ==
    /\ AtEnd /\ ~DrawsAtEnd
    /\ Deliver(Output(psi, clbits, drawn))
    /\ UNCHANGED <<session, turn, job, rows, cache, items, pc, psi, clbits, drawn, team, batch, results>>
\* _execute_plan and _assemble_result.
Return ==
    /\ phase = "return"
    /\ Report("done", "", outputs)
    /\ Closed
Ended == /\ phase = "idle" /\ turn > Len(session.calls)
         /\ UNCHANGED vars

Next == \/ Refuse \/ Submit \/ Fail \/ NothingToRun
        \/ BeginPython \/ BeginTrajectories \/ BeginOperator \/ BeginBatch \/ BeginSampling
        \/ Skip \/ Apply1 \/ Fork \/ Work \/ Join
        \/ DrawMeasure \/ DrawReset \/ DrawChannel \/ BatchWork \/ BatchJoin
        \/ DrawAtEnd \/ Finish \/ Return \/ Ended
Spec == Init /\ [][Next]_vars

-----------------------------------------------------------------------------
(* The reference: the program in its own order, every operator embedded in  *)
(* the whole system.  A measurement, a reset or a channel is a family of    *)
(* branch operators; where the engine draws, the walk takes the branch of   *)
(* the outcome drawn, and stops at the first draw not made yet.             *)

Branch(d, j, level) == [w |-> 1, m |-> MatrixOf(d, LAMBDA r, c: IF r = level /\ c = j THEN One ELSE Zero)]
Parts(call, row) ==
    LET part(i, kind, ops) == [kind |-> kind, ops |-> ops, targets |-> i.targets, cond |-> i.cond,
                               outs |-> i.outs]
        filled(i) == [i.op EXCEPT !.args = [f \in DOMAIN @ |->
                        IF f \in DOMAIN i.fields THEN call.columns[i.fields[f]][row] ELSE @[f]]]
        partsOf(i) ==
          LET dims == TargetDims(call.dims, i.targets)
              d == Product(dims)
          IN  CASE i.kind = "barrier" -> <<>>
                [] i.kind = "measure" -> <<part(i, "measure", [j \in 1..d |-> Branch(d, j - 1, j - 1)])>>
                [] i.kind = "reset" -> <<part(i, "reset", [j \in 1..d |-> Branch(d, j - 1, 0)])>>
                [] OTHER ->
                     <<part(i, "gate", <<[w |-> 1, m |-> BuiltinMatrix(filled(i), dims)]>>)>>
                       \o (IF i.op.name \in DOMAIN call.noise
                           THEN <<part(i, "channel", call.noise[i.op.name])>> ELSE <<>>)
    IN  Concatenated(Len(call.code), LAMBDA k: partsOf(call.code[k]))

Within(method, v, w, m, size) ==
    CASE method = "statevector" -> Apply(m, v)
      [] method = "density_matrix" ->
           Flattened(Scaled(Real(w), MatMul(MatMul(m, Square(v, size)), Dagger(m))))
      [] method = "unitary" -> Flattened(MatMul(m, Square(v, size)))
      [] OTHER -> Flattened(Scaled(Real(w), MatMul(Kron(ConjMatrix(m), m), Square(v, size * size))))
BranchState(method, v, part, j, dims) ==
    Within(method, v, part.ops[j].w, Embedded(part.ops[j].m, part.targets, dims), Product(dims))
SumOfBranches(method, v, part, dims) ==
    LET upTo[k \in 1..Len(part.ops)] ==
          IF k = 1 THEN BranchState(method, v, part, 1, dims)
          ELSE Added(upTo[k - 1], BranchState(method, v, part, k, dims), 1)
    IN  upTo[Len(part.ops)]
Mass(method, v, size) ==
    IF method = "statevector" THEN Power2(v)
    ELSE Total(size, LAMBDA a: v[(a - 1) * size + a][1])
\* The mass of a branch; the weight of a state vector's operator is apart from its matrix.
BranchMass(method, v, part, j, dims) ==
    (IF method = "statevector" THEN part.ops[j].w ELSE 1)
      * Mass(method, BranchState(method, v, part, j, dims), Product(dims))

StartReference(call, method) ==
    LET size == Product(call.dims)
        index == IF call.start.kind = "basis"
                 THEN Total(Len(call.dims), LAMBDA q: call.start.levels[q] * Stride(call.dims, q)) ELSE 0
    IN  CASE method = "unitary" -> Flattened(Identity(size))
          [] method = "superop" -> Flattened(Identity(size * size))
          [] method = "statevector" -> IF call.start.kind = "array" THEN call.start.array
                                       ELSE UnitVector(size, index)
          [] call.start.kind # "array" -> UnitVector(size * size, index * size + index)
          [] Len(call.start.array) = size -> Outer(call.start.array, call.start.array)
          [] OTHER -> call.start.array
\* once: all measurements share the first outcome, or wait when there is none.
WalkedThrough(call, method, parts, outcomes, once) ==
    LET passes(s, p) == \A k \in DOMAIN p.cond : s.register[p.cond[k][1]] = p.cond[k][2]
        drawnHere(p) == \/ p.kind = "measure"
                        \/ p.kind \in {"reset", "channel"} /\ method = "statevector"
        branch(p, outcome) == IF p.kind = "channel" THEN outcome
                              ELSE Local(outcome, call.dims, p.targets) + 1
        step(s, p) ==
          IF s.open # {} \/ ~passes(s, p) THEN s
          ELSE IF ~drawnHere(p) THEN [s EXCEPT !.v = SumOfBranches(method, @, p, call.dims)]
          ELSE LET next == IF once THEN 1 ELSE s.used + 1
               IN  IF next > Len(outcomes) THEN IF once THEN s ELSE [s EXCEPT !.open = {p}]
                   ELSE [s EXCEPT
                           !.v = BranchState(method, @, p, branch(p, outcomes[next]), call.dims),
                           !.register =
                             IF p.kind # "measure" THEN @
                             ELSE Written(@, p.outs, [k \in DOMAIN p.targets |->
                                            Digit(outcomes[next], call.dims, p.targets[k])]),
                           !.used = next]
        upTo[k \in 0..Len(parts)] ==
          IF k = 0 THEN [v |-> StartReference(call, method), register |-> DigitsOf(call, call.nc),
                         used |-> 0, open |-> {}]
          ELSE step(upTo[k - 1], parts[k])
    IN  upTo[Len(parts)]
Walked(call, method, row, outcomes, once) ==
    WalkedThrough(call, method, Parts(call, row), outcomes, once)

\* Equal up to a positive scale.
SameRay(u, v) ==
    /\ Len(u) = Len(v)
    /\ \E p \in DOMAIN v :
          /\ v[p] # Zero
          /\ LET ratio == Times(u[p], Conj(v[p])) IN ratio[1] > 0 /\ ratio[2] = 0
          /\ \A a \in DOMAIN v : Times(u[a], v[p]) = Times(v[a], u[p])

\* What a term is worth in a state of the reference.
TermIn(method, v, factors, dims) ==
    LET size == Product(dims)
        matrix(f) == CASE f.kind = "P" -> Branch(dims[f.axis], f.level, f.level).m
                       [] f.kind = "N" -> Diagonal([k \in 1..dims[f.axis] |-> Real(k - 1)])
                       [] OTHER -> FixedMatrix(f.kind)
        upTo[k \in 0..Len(factors)] ==
          IF k = 0 THEN Identity(size)
          ELSE MatMul(Embedded(matrix(factors[k]), <<factors[k].axis>>, dims), upTo[k - 1])
        whole == upTo[Len(factors)]
    IN  IF method = "statevector"
        THEN LET w == Apply(whole, v) IN SumOf(size, LAMBDA a: Times(Conj(v[a]), w[a]))[1]
        ELSE LET m == MatMul(whole, Square(v, size)) IN SumOf(size, LAMBDA a: m[a][a])[1]

-----------------------------------------------------------------------------
(* Properties.                                                             *)

\* Every state and register a call returns, and in a sweep the one at the position of each
\* row, is what the program means for the bindings of that row and the outcomes drawn: by
\* every workflow, through caches, patched payloads, fusion and every order of the workers.
\* A sampled expectation has one outcome of each term for each row, the rows in order.
Delivered == SelectSeq(job.script, LAMBDA e: e.use \notin {"batch", "base"})
ResultsExact ==
    phase = "return" =>
      /\ Len(outputs) = Len(Delivered)
      /\ \A k \in DOMAIN outputs :
            LET out == outputs[k]
                once == Delivered[k].policy.path = "single_pass"
                walked == Walked(Call, Method, IF Delivered[k].use = "run" THEN k ELSE Delivered[k].row,
                                 out.drawn, once)
            IN  Delivered[k].use \in {"run", "exact"} =>
                  /\ out.psi # <<>> => SameRay(out.psi, walked.v)
                  /\ out.clbits # <<>> => out.clbits = walked.register
      /\ \A o \in DOMAIN job.tails : Call.config.shots > 0 =>
            LET mine == SelectSeq(outputs, LAMBDA out: out.occurrence = o)
            IN  Len(mine) = RowCountOf(Call) /\ \A k \in DOMAIN mine : mine[k].row = k

\* Wherever an engine draws an outcome, the odds it gives each outcome are those of the
\* program up to there: for a measurement, for a reset, for a channel drawn from its jumps,
\* from the reduced state of a trajectory or from its unitary weights, and for all the
\* measurements a single pass puts off.
TailDraw ==
    /\ Running /\ Now.use \in {"tail", "whole"}
    /\ \/ AtEnd /\ DrawsAtEnd
       \/ AtStep /\ Item.step.kind = "measure" /\ Draws(Item.step)
InProgramOrder(targets) == [k \in DOMAIN targets |-> Len(Call.dims) + 1 - targets[k]]
ByDigits(weights, targets) ==
    LET t == InProgramOrder(targets)
    IN  [j \in 1..Product(TargetDims(Call.dims, t)) |->
           Total(Len(weights), LAMBDA a: IF Local(a - 1, Call.dims, t) = j - 1 THEN weights[a] ELSE 0)]
SameOdds(u, v) ==
    Len(u) = Len(v) /\ Sum(v) > 0 /\ \A j \in DOMAIN v : u[j] * Sum(v) = v[j] * Sum(u)
OddsOf(part, v) ==
    [j \in DOMAIN part.ops |-> BranchMass(Method, v, part, j, Call.dims)]
OddsExact ==
    /\ AtStep /\ Draws(Item.step) /\ Applies(Item.step) /\ ~TailDraw =>
         LET walked == Walked(Call, Method, Now.row, drawn, FALSE)
             weights == IF Item.step.kind = "channel" THEN WeightsOf(Item.step)
                        ELSE ByDigits(Probabilities(Method, psi, Dims), Item.step.targets)
         IN  \E p \in walked.open : SameOdds(weights, OddsOf(p, walked.v))
    /\ AtEnd /\ DrawsAtEnd /\ ~TailDraw =>
         LET t == InProgramOrder(DeferredTargets)
             d == Product(TargetDims(Call.dims, t))
             part == [ops |-> [j \in 1..d |-> Branch(d, j - 1, j - 1)], targets |-> t]
         IN  SameOdds(ByDigits(Probabilities(Method, psi, Dims), DeferredTargets),
                      OddsOf(part, Walked(Call, Method, Now.row, drawn, TRUE).v))

\* An exact expectation value is that of the observable in the state of the program, and the
\* average of a sampled term's outcomes, under the odds it is drawn with, is the value of
\* that term: with every combination of kernels, chunks of base states and rotated bases.
FactorsOf(o) == [k \in DOMAIN Occurrences(Call)[o].factors |->
                   [Occurrences(Call)[o].factors[k] EXCEPT !.axis = Len(Call.dims) + 1 - @]]
ExpectationExact ==
    /\ phase = "return" =>
         \A k \in DOMAIN outputs : outputs[k].use = "exact" =>
           LET out == outputs[k]
               v == Walked(Call, Method, k, out.drawn, FALSE).v
               size == Product(Call.dims)
           IN  \A o \in DOMAIN Call.observables :
                 /\ out.value[o].constant = ConstantOf(Call.observables[o])
                 /\ out.value[o].terms * Mass(Method, v, size) =
                      Mass(Method, out.psi, size)
                        * Total(Len(Occurrences(Call)), LAMBDA t:
                            IF Occurrences(Call)[t].observable # o THEN 0
                            ELSE Occurrences(Call)[t].coeff * TermIn(Method, v, FactorsOf(t), Call.dims))
    /\ TailDraw =>
         LET v == Walked(Call, Method, Now.row, drawn, FALSE).v
             f == Occurrences(Call)[Now.occurrence].factors
             axes == [k \in DOMAIN f |-> f[k].axis]
             p == Probabilities(Method, psi, Dims)
         IN  Total(Len(p), LAMBDA a: p[a] * TermOutcome(f, Digits(a - 1, axes)))
               * Mass(Method, v, Product(Call.dims))
             = TermIn(Method, v, FactorsOf(Now.occurrence), Call.dims) * Sum(p)

\* Two workers of one loop never hold amplitudes of the same addresses, so the order of
\* their reads and writes is free.
Addresses(w) == LET next == Head(team[w].todo)
                IN  {next.piece[k] + next.layout.offsets[r] :
                       k \in DOMAIN next.piece, r \in DOMAIN next.layout.offsets}
Holding == {w \in DOMAIN team : team[w].gathered # <<>>}
WorkersApart == \A v, w \in Holding : v # w => Addresses(v) \cap Addresses(w) = {}

\* An identity that Python gives again never meets the entry of the step that had it: while
\* a step may still be looked up, a cache entry under its identity is its own.
Live == Elements(job.plan) \cup UNION {Elements(job.tails[o]) : o \in DOMAIN job.tails}
          \cup UNION {Elements(rows[r]) : r \in DOMAIN rows}
          \cup {items[k].step : k \in {n \in DOMAIN items : items[n].held}}
CachesFresh ==
    \A i \in DOMAIN cache : \A s \in Live : s.id = i => cache[i].step = s

\* A call that passed the checks reaches its result: no engine meets a plan it cannot
\* represent, and a policy can be had unless threads were asked for by name.
AcceptedCallsComplete ==
    phase = "prepare" =>
      /\ ~Unrepresentable(Method, Numba, job.plan)
      /\ Now.policy.error # "" => "threads" \in {Call.config.kernel, Call.config.shot}
=============================================================================
