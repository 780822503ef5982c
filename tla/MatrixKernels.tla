--------------------------- MODULE MatrixKernels ---------------------------
(***************************************************************************)
(* The compiled kernels of the matrix engines: where a step's amplitudes   *)
(* lie in the flat state (_layouts.py), which of four loops applies it     *)
(* (_apply.py, _matrix_cache.py, _operator.py) and how consecutive steps   *)
(* are merged (_fusion.py).                                                *)
(*                                                                         *)
(* Engine indices, local rows and local columns count from 1, flat         *)
(* addresses from 0; the first subsystem is the least significant.  A loop *)
(* visits pieces: each is a sequence of base addresses whose local vectors *)
(* are all read before any is written.                                     *)
(*                                                                         *)
(* Then what an engine does to a state besides these loops: allocation,    *)
(* the numpy contractions, channels, measurement, reset, expectation       *)
(* values and export (numerics/numpy_kernels, numerics/numba_kernels,      *)
(* noise/base.py, trajectories.py).  A state is a flat sequence;           *)
(* amplitudes and densities are known up to a positive scale.  The random  *)
(* number of a draw is an integer t below the sum of the weights it is     *)
(* compared with.                                                          *)
(***************************************************************************)
EXTENDS GateMatrices

CONSTANTS MinRun, RunTile, RunScratch, SmallScratch,  \* _MIN_RUN_LENGTH ... _RUN_SMALL_SCRATCH
          MaxRunDense, RunOrderMin,                   \* _MAX_RUN_DENSE_DIM, _RUN_ORDER_MIN_SIZE
          DenseKnee, MaxFusedMonomial, MaxFusedDense, \* the costs and caps of _fusion.py
          AmplitudesPerRow, TableRows                 \* AMPLITUDES_PER_ROW and TABLE_ROWS

Least(S) == CHOOSE x \in S : \A y \in S : x <= y
Greatest(S) == CHOOSE x \in S : \A y \in S : x >= y
Elements(s) == {s[k] : k \in DOMAIN s}
\* The members of a set of integers, in order.
From(S) == Tabulated([k \in 1..Cardinality(S) |->
                        CHOOSE x \in S : Cardinality({y \in S : y < x}) = k - 1])

-----------------------------------------------------------------------------
(* Layouts.                                                                *)

EngineStride(dims, q) == Product(SubSeq(dims, 1, q - 1))
LocalPlace(inner, k) == Product(SubSeq(inner, k + 1, Len(inner)))
ApplyLayout(dims, targets) ==
    LET inner == TargetDims(dims, targets)
        others == From((DOMAIN dims) \ Elements(targets))
    IN  [offsets |-> Tabulated([r \in 1..Product(inner) |->
                       Total(Len(targets),
                             LAMBDA k: (((r - 1) \div LocalPlace(inner, k)) % inner[k])
                                       * EngineStride(dims, targets[k]))]),
         strides |-> [k \in DOMAIN others |-> EngineStride(dims, others[k])],
         dims |-> [k \in DOMAIN others |-> dims[others[k]]],
         cosets |-> Product(dims) \div Product(inner)]

\* _build_unitary_apply_layout and _build_superoperator_apply_layout; an operator's
\* columns are one more subsystem, the least significant.
Shifted(targets, by) == [k \in DOMAIN targets |-> targets[k] + by]
UnitaryLayout(dims, targets, batch) ==
    IF batch THEN ApplyLayout(<<Product(dims)>> \o dims, Shifted(targets, 1))
    ELSE ApplyLayout(dims, targets)
SuperLayout(dims, targets, batch) ==
    LET shift == IF batch THEN 1 ELSE 0
        rows == dims \o dims
    IN  ApplyLayout(IF batch THEN <<Product(rows)>> \o rows ELSE rows,
                    Shifted(targets, shift + Len(dims)) \o Shifted(targets, shift))

\* _choose_chunk_count, and the cosets of one worker of the parallel loop.
ChunkCount(cosets, size, minParallel, workers, force) ==
    IF workers <= 1 \/ (~force /\ size < minParallel) THEN 1
    ELSE Greatest({1, Least({workers, cosets})})
\* Mutant: every worker takes one coset too many, the last one excepted.
ChunkOverlapping(k, count, n) ==
    [start |-> (k * n) \div count,
     end |-> IF k + 1 = count THEN n ELSE (((k + 1) * n) \div count) + 1]
Chunk(k, count, n) == [start |-> (k * n) \div count, end |-> ((k + 1) * n) \div count]

\* _spread_base and _advance_base: the base address of a coset, and of the next one.
Spread(start, layout) ==
    LET digits == [k \in DOMAIN layout.dims |->
                     (start \div Product(SubSeq(layout.dims, 1, k - 1))) % layout.dims[k]]
    IN  [base |-> Total(Len(digits), LAMBDA k: digits[k] * layout.strides[k]), digits |-> digits]
Advance(at, layout) ==
    LET full == {k \in DOMAIN layout.dims : \A j \in 1..k : at.digits[j] = layout.dims[j] - 1}
        k == Cardinality(full) + 1
    IN  [base |-> at.base - Total(Cardinality(full),
                                  LAMBDA j: layout.strides[j] * (layout.dims[j] - 1))
                  + (IF k \in DOMAIN layout.dims THEN layout.strides[k] ELSE 0),
         digits |-> [j \in DOMAIN layout.dims |->
                       IF j < k THEN 0 ELSE IF j = k THEN at.digits[j] + 1 ELSE at.digits[j]]]
Walk(layout, start, end) ==
    LET at[k \in start..(end - 1)] ==
          IF k = start THEN Spread(start, layout) ELSE Advance(at[k - 1], layout)
    IN  [k \in 1..(end - start) |-> at[start + k - 1].base]

-----------------------------------------------------------------------------
(* The choice of a loop.                                                   *)

\* _classify_matrix; columns and values are those of a monomial matrix.
Monomial(m) == \A r \in 1..Len(m) : Cardinality({c \in 1..Len(m) : m[r][c] # Zero}) = 1
ColumnsOf(m) == [r \in 1..Len(m) |-> Greatest({c \in 1..Len(m) : m[r][c] # Zero})]
Classified(m) ==
    IF ~Monomial(m) THEN [code |-> "dense", columns |-> <<>>, values |-> <<>>]
    ELSE [code |-> IF \A r \in 1..Len(m) : ColumnsOf(m)[r] = r THEN "diagonal" ELSE "permutation",
          columns |-> ColumnsOf(m),
          values |-> [r \in 1..Len(m) |-> m[r][ColumnsOf(m)[r]]]]

\* _superop_csr: the nonzero entries of each row, unless they are more than half.
SparseRows(m) ==
    IF 2 * NonZeros(m) > Len(m) * Len(m) THEN {}
    ELSE {[r \in 1..Len(m) |-> From({c \in 1..Len(m) : m[r][c] # Zero})]}

\* _MatrixStructureCache.resolve and _SuperoperatorCache.resolve: a gate whose kernel key
\* declares it dense is not looked at.
Kernel(m, structure, sparse) ==
    [matrix |-> m, code |-> structure.code, columns |-> structure.columns,
     values |-> structure.values, sparse |-> sparse]
Dense == [code |-> "dense", columns |-> <<>>, values |-> <<>>]
MatrixKernel(step) ==
    Kernel(step.matrix, IF step.key \in DeclaredDense THEN Dense ELSE Classified(step.matrix), {})
KrausSuperop(ops) ==
    LET upTo[k \in 0..Len(ops)] ==
          IF k = 0 THEN Scaled(Zero, Kron(ops[1].m, ops[1].m))
          ELSE Sum2(upTo[k - 1], Scaled(Real(ops[k].w), Kron(ops[k].m, ConjMatrix(ops[k].m))))
    IN  upTo[Len(ops)]
SuperopKernel(step) ==
    LET m == IF step.kind = "matrix" THEN Kron(step.matrix, ConjMatrix(step.matrix))
             ELSE KrausSuperop(step.ops)
        structure == IF step.kind = "matrix" /\ step.key \in DeclaredDense THEN Dense
                     ELSE Classified(m)
    IN  Kernel(m, structure, IF structure.code = "dense" THEN SparseRows(m) ELSE {})

\* _contiguous_run and _run_tile: the leading other subsystems that lie side by side.
RunSubsystems(layout) ==
    Cardinality({k \in DOMAIN layout.strides :
                   \A j \in 1..k : layout.strides[j] = Product(SubSeq(layout.dims, 1, j - 1))})
RunLength(layout) == Product(SubSeq(layout.dims, 1, RunSubsystems(layout)))
TileOf(scratchRows, run) ==
    Least({run, RunTile, RunScratch \div Greatest({1, scratchRows})})
Shortest(scratchRows, tile) ==
    IF scratchRows * tile <= SmallScratch THEN MinRun ELSE 2 * tile

\* _run_walk_order and _reorder_permutation: a long permutation visits its rows in the
\* order of their addresses.
WalkOrder(layout, perRange) ==
    LET rows == Len(layout.offsets)
        tile == TileOf(rows, RunLength(layout))
        increasing == \A r \in 1..(rows - 1) : layout.offsets[r] < layout.offsets[r + 1]
    IN  IF rows * layout.cosets < RunOrderMin \/ tile < MinRun \/ perRange < Shortest(rows, tile)
              \/ increasing THEN {}
        ELSE {[k \in 1..rows |-> CHOOSE r \in 1..rows :
                 layout.offsets[r] = From(Elements(layout.offsets))[k]]}
Reordered(order, kernel) ==
    LET rank == [r \in DOMAIN order |-> CHOOSE k \in DOMAIN order : order[k] = r]
    IN  [kernel EXCEPT !.columns = [k \in DOMAIN order |-> rank[kernel.columns[order[k]]]],
                       !.values = [k \in DOMAIN order |-> kernel.values[order[k]]]]
\* _prepared_permutation without its cache: a kernel and the layout it runs on.
PreparedFor(kernel, layout, chunks) ==
    LET order == WalkOrder(layout, layout.cosets \div Greatest({1, chunks}))
    IN  IF kernel.code # "permutation" \/ order = {} THEN [kernel |-> kernel, layout |-> layout]
        ELSE LET o == CHOOSE s \in order : TRUE
             IN  [kernel |-> Reordered(o, kernel),
                  layout |-> [layout EXCEPT !.offsets = [k \in DOMAIN o |-> layout.offsets[o[k]]]]]

\* _apply_resolved_range: when the run loop is taken, and its tiles; else one coset at a
\* time.  The tiles of _apply_contiguous_range never cross a run.
TakesRuns(kernel, layout, start, end) ==
    /\ kernel.sparse = {}
    /\ kernel.code = "dense" => Len(layout.offsets) <= MaxRunDense
    /\ LET rows == IF kernel.code = "diagonal" THEN 0 ELSE Len(layout.offsets)
           tile == TileOf(rows, RunLength(layout))
       IN  tile >= MinRun /\ end - start >= Shortest(rows, tile)
RunTiles(kernel, layout, start, end) ==
    LET rows == IF kernel.code = "diagonal" THEN 0 ELSE Len(layout.offsets)
        run == RunLength(layout)
        tile == Least({TileOf(rows, run), end - start})
        outer == [layout EXCEPT !.strides = SubSeq(@, RunSubsystems(layout) + 1, Len(@)),
                                !.dims = SubSeq(@, RunSubsystems(layout) + 1, Len(@))]
        piece(at, position, width) == [j \in 1..width |-> at.base + position + j - 1]
        tiles[left \in 0..(end - start), position \in 0..run, n \in 0..layout.cosets] ==
          IF left = 0 THEN <<>>
          ELSE IF position = run THEN tiles[left, 0, n + 1]
          ELSE LET width == Least({tile, run - position, left})
               IN  <<piece(Spread(n, outer), position, width)>>
                     \o tiles[left - width, position + width, n]
    IN  tiles[end - start, start % run, start \div run]
Pieces(kernel, layout, start, end) ==
    IF TakesRuns(kernel, layout, start, end) THEN RunTiles(kernel, layout, start, end)
    ELSE LET bases == Walk(layout, start, end) IN [k \in DOMAIN bases |-> <<bases[k]>>]

\* _apply_sparse_range: the columns kept of every row.
SparseLocal(kernel, rows, v) ==
    [r \in DOMAIN v |-> SumOf(Len(rows[r]), LAMBDA k:
                          Times(kernel.matrix[r][rows[r][k]], v[rows[r][k]]))]
\* The loop bodies: what becomes of the local vector read at one base.
NewLocal(kernel, v) ==
    IF kernel.sparse # {} THEN SparseLocal(kernel, CHOOSE s \in kernel.sparse : TRUE, v)
    ELSE CASE kernel.code = "diagonal" -> [r \in DOMAIN v |-> Times(kernel.values[r], v[r])]
           [] kernel.code = "permutation" ->
                [r \in DOMAIN v |-> Times(kernel.values[r], v[kernel.columns[r]])]
           [] OTHER -> [r \in DOMAIN v |-> SumOf(Len(v), LAMBDA c: Times(kernel.matrix[r][c], v[c]))]

\* A piece read from, and written to, the flat state.
ReadPiece(state, layout, piece) ==
    Tabulated([k \in DOMAIN piece |->
                 Tabulated([r \in DOMAIN layout.offsets |->
                              state[piece[k] + layout.offsets[r] + 1]])])
WritePiece(state, kernel, layout, piece, gathered) ==
    LET new == Tabulated([k \in DOMAIN piece |-> Tabulated(NewLocal(kernel, gathered[k]))])
        hit(a) == {<<k, r>> \in (DOMAIN piece) \X (DOMAIN layout.offsets) :
                     piece[k] + layout.offsets[r] = a}
    IN  Tabulated([a \in 1..Len(state) |->
                     IF hit(a - 1) = {} THEN state[a]
                     ELSE LET p == CHOOSE q \in hit(a - 1) : TRUE IN new[p[1]][p[2]]])

-----------------------------------------------------------------------------
(* Operators: a step of a unitary or superoperator on some of its columns. *)

\* _pack_operator_plan scales the layout by the columns; the loops of _operator.py take
\* the columns lo..hi-1 of every coset at once.
OperatorLayout(rows, targets, columns) ==
    LET layout == ApplyLayout(rows, targets)
    IN  [layout EXCEPT !.offsets = [r \in DOMAIN @ |-> @[r] * columns],
                       !.strides = [k \in DOMAIN @ |-> @[k] * columns]]
ColumnPieces(layout, lo, hi) ==
    LET bases == Walk(layout, 0, layout.cosets)
    IN  [k \in DOMAIN bases |-> [j \in 1..(hi - lo) |-> bases[k] + lo + j - 1]]
\* _operator_chunks.
OperatorChunks(steps, size, columns, strategy, workers, grain) ==
    IF strategy = "serial" \/ workers <= 1 THEN 1
    ELSE IF strategy # "threads" /\ steps * size < workers * grain THEN 1
    ELSE Greatest({1, Least({workers, columns})})

-----------------------------------------------------------------------------
(* Fusion.  A payload is a kernel with its targets.                        *)

\* _fuse_gate_channels: a gate before the channel on the same targets joins its operators.
FuseGateChannels(plan) ==
    LET joins(k) == /\ k < Len(plan)
                    /\ plan[k].kind = "matrix" /\ plan[k + 1].kind = "channel"
                    /\ plan[k].cond = <<>> /\ plan[k + 1].cond = <<>>
                    /\ plan[k].targets = plan[k + 1].targets
        joined(k) == [plan[k + 1] EXCEPT !.ops =
                        [n \in DOMAIN @ |-> [@[n] EXCEPT !.m = MatMul(@, plan[k].matrix)]]]
        from[k \in 1..(Len(plan) + 1)] ==
          IF k > Len(plan) THEN <<>>
          ELSE IF joins(k) THEN <<joined(k)>> \o from[k + 2]
          ELSE <<plan[k]>> \o from[k + 1]
    IN  from[1]

\* _pass_cost, in units of one pass over DenseKnee.
PassCost(code, dim) ==
    IF code = "dense" THEN Greatest({DenseKnee, dim}) ELSE DenseKnee

\* _embed_dense with _embedding: a matrix on some of the union's subsystems.
InUnion(targets, union) == [k \in DOMAIN targets |->
                              CHOOSE p \in DOMAIN union : union[p] = targets[k]]
Widened(m, targets, union, dims) ==
    Embedded(m, InUnion(targets, union), TargetDims(dims, union))
MatrixOfKernel(kernel) ==
    IF kernel.code = "dense" THEN kernel.matrix
    ELSE MatrixOf(Len(kernel.columns), LAMBDA r, c: IF kernel.columns[r + 1] = c + 1
                                                    THEN kernel.values[r + 1] ELSE Zero)

\* Mutant: the step is taken to act before the block.
ComposedBackwards(block, step, union, dims) ==
    LET inner == TargetDims(dims, union)
        bAt == InUnion(block.targets, union)
        sAt == InUnion(step.targets, union)
        rowOf(x, at) == Local(x, inner, at) + 1
        read(x) == Placed(x, inner, bAt, block.columns[rowOf(x, bAt)] - 1)
        column(x) == Placed(read(x), inner, sAt, step.columns[rowOf(read(x), sAt)] - 1)
    IN  [columns |-> [x \in 1..Product(inner) |-> column(x - 1) + 1],
         values |-> [x \in 1..Product(inner) |->
                       Times(block.values[rowOf(x - 1, bAt)],
                             step.values[rowOf(read(x - 1), sAt)])]]
\* _compose_monomials: row x of the step reads row y of the block.
ComposedMonomial(block, step, union, dims) ==
    LET inner == TargetDims(dims, union)
        bAt == InUnion(block.targets, union)
        sAt == InUnion(step.targets, union)
        rowOf(x, at) == Local(x, inner, at) + 1
        read(x) == Placed(x, inner, sAt, step.columns[rowOf(x, sAt)] - 1)
        column(x) == Placed(read(x), inner, bAt, block.columns[rowOf(read(x), bAt)] - 1)
    IN  [columns |-> [x \in 1..Product(inner) |-> column(x - 1) + 1],
         values |-> [x \in 1..Product(inner) |->
                       Times(step.values[rowOf(x - 1, sAt)],
                             block.values[rowOf(read(x - 1), bAt)])]]

\* _merge_block: {} when the step stays apart, else the merged block.
LocalDim(payload) == IF payload.code = "dense" THEN Len(payload.matrix) ELSE Len(payload.columns)
MergeBlock(block, step, dims) ==
    LET union == From(Elements(block.targets) \cup Elements(step.targets))
        dim == Product(TargetDims(dims, union))
        monomial == block.code # "dense" /\ step.code # "dense"
        cap == IF monomial THEN MaxFusedMonomial ELSE MaxFusedDense
        apart == PassCost(block.code, LocalDim(block)) + PassCost(step.code, LocalDim(step))
        composed == ComposedMonomial(block, step, union, dims)
    IN  IF dim > cap \/ PassCost(IF monomial THEN "permutation" ELSE "dense", dim) >= apart THEN {}
        ELSE IF monomial
        THEN {[block EXCEPT !.targets = union, !.code = "permutation",
                            !.columns = composed.columns, !.values = composed.values]}
        ELSE {[block EXCEPT !.targets = union, !.code = "dense", !.columns = <<>>,
                            !.values = <<>>,
                            !.matrix = MatMul(Widened(MatrixOfKernel(step), step.targets, union, dims),
                                              Widened(MatrixOfKernel(block), block.targets, union, dims))]}
\* _block_payload: a merged monomial that is the identity on its rows is a diagonal.
BlockPayload(block) ==
    IF block.code # "dense" /\ \A r \in DOMAIN block.columns : block.columns[r] = r
    THEN [block EXCEPT !.code = "diagonal"] ELSE block
\* _fuse_operator_payloads: runs of payloads; one with sparse rows ends a run.
ClosedRun(run) ==
    run.done \o (IF run.open = {} THEN <<>> ELSE <<BlockPayload(CHOOSE b \in run.open : TRUE)>>)
FuseNext(run, p, dims) ==
    LET merged == MergeBlock(CHOOSE b \in run.open : TRUE, p, dims)
    IN  IF p.sparse # {} THEN [done |-> Append(ClosedRun(run), p), open |-> {}]
        ELSE IF run.open = {} \/ merged = {} THEN [done |-> ClosedRun(run), open |-> {p}]
        ELSE [done |-> run.done, open |-> merged]
FusePayloads(payloads, dims) ==
    LET upTo[k \in 0..Len(payloads)] ==
          IF k = 0 THEN [done |-> <<>>, open |-> {}]
          ELSE FuseNext(upTo[k - 1], payloads[k], dims)
    IN  ClosedRun(upTo[Len(payloads)])
-----------------------------------------------------------------------------
(* The state.                                                              *)

Flipped(s) == [k \in DOMAIN s |-> s[Len(s) + 1 - k]]
Sum(s) == Total(Len(s), LAMBDA k: s[k])
Power2(v) == Total(Len(v), LAMBDA a: Norm2(v[a]))
Largest(a, b) == IF a >= b THEN a ELSE b

-----------------------------------------------------------------------------
(* Allocation and export.  A start is a basis state or an array.           *)

\* _basis_index.
BasisIndex(levels, dims) ==
    Total(Len(dims), LAMBDA q: levels[q] * EngineStride(dims, q))
UnitVector(size, index) == Tabulated([a \in 1..size |-> IF a = index + 1 THEN One ELSE Zero])
Outer(v, w) ==
    Tabulated([a \in 1..(Len(v) * Len(w)) |->
                 Times(v[((a - 1) \div Len(w)) + 1], Conj(w[((a - 1) % Len(w)) + 1]))])
Flattened(m) == Tabulated([a \in 1..(Len(m) * Len(m)) |->
                             m[((a - 1) \div Len(m)) + 1][((a - 1) % Len(m)) + 1]])
Square(v, side) == MatrixOf(side, LAMBDA r, c: v[r * side + c + 1])
\* _allocate_statevector ... _allocate_superoperator.
Allocate(method, start, dims) ==
    LET size == Product(dims)
        index == BasisIndex(start.levels, dims)
    IN  CASE method = "unitary" -> Flattened(Identity(size))
          [] method = "superop" -> Flattened(Identity(size * size))
          [] start.kind = "basis" /\ method = "statevector" -> UnitVector(size, index)
          [] start.kind = "basis" /\ method = "density_matrix" ->
               UnitVector(size * size, index * size + index)
          [] start.kind = "array" /\ method = "density_matrix" /\ Len(start.array) = size ->
               Outer(start.array, start.array)
          [] OTHER -> start.array
\* _export_superoperator: the two subsystem groups of rows and of columns change places.
ExportSuperop(v, dims) ==
    LET size == Product(dims)
        turned(p) == (p % size) * size + (p \div size)
        side == size * size
    IN  Tabulated([a \in 1..Len(v) |->
                     v[turned((a - 1) \div side) * side + turned((a - 1) % side) + 1]])

-----------------------------------------------------------------------------
(* Applying a matrix.                                                      *)

\* _contract_local on the axes of the targets.
Contracted(v, m, targets, dims) ==
    LET shape == Flipped(dims)
        axes == [k \in DOMAIN targets |-> Len(dims) + 1 - targets[k]]
    IN  Tabulated([a \in 1..Len(v) |->
                     LET row == Local(a - 1, shape, axes) + 1
                     IN  SumOf(Len(m), LAMBDA c:
                                 Times(m[row][c], v[Placed(a - 1, shape, axes, c - 1) + 1]))])
\* _apply_statevector ... _apply_superoperator: kets after bras, columns last.
NumpyMatrix(method, v, m, targets, dims) ==
    LET n == Len(dims)
        size == Product(dims)
        both(shift, all) == Contracted(Contracted(v, m, Shifted(targets, shift + n), all),
                                       ConjMatrix(m), Shifted(targets, shift), all)
    IN  CASE method = "statevector" -> Contracted(v, m, targets, dims)
          [] method = "unitary" -> Contracted(v, m, Shifted(targets, 1), <<size>> \o dims)
          [] method = "density_matrix" -> both(0, dims \o dims)
          [] method = "superop" -> both(1, <<size * size>> \o dims \o dims)
\* _apply_kraus_sum.
Added(v, w, z) == Tabulated([a \in 1..Len(v) |-> Plus(v[a], Times(Real(z), w[a]))])
NumpyChannel(method, v, ops, targets, dims) ==
    LET upTo[k \in 0..Len(ops)] ==
          IF k = 0 THEN [a \in 1..Len(v) |-> Zero]
          ELSE Added(upTo[k - 1], NumpyMatrix(method, v, ops[k].m, targets, dims), ops[k].w)
    IN  upTo[Len(ops)]
\* A compiled loop over a whole state by one thread.
Looped(v, kernel, layout) ==
    LET pieces == Pieces(kernel, layout, 0, layout.cosets)
        upTo[k \in 0..Len(pieces)] ==
          IF k = 0 THEN v
          ELSE WritePiece(upTo[k - 1], kernel, layout, pieces[k],
                          ReadPiece(upTo[k - 1], layout, pieces[k]))
    IN  upTo[Len(pieces)]
\* _apply_unclassified_matrix and the gates of a trajectory: the matrix is classified.
Compiled(v, m, targets, dims) ==
    Looped(v, Kernel(m, Classified(m), {}), UnitaryLayout(dims, targets, FALSE))

-----------------------------------------------------------------------------
(* Draws.                                                                  *)

RunningSum(weights, k) == Total(k, LAMBDA j: weights[j])
\* _inverse_cdf_pick.
InverseCdfPick(weights, t) ==
    LET over == {k \in DOMAIN weights : RunningSum(weights, k) > t}
    IN  IF over = {} THEN Len(weights) ELSE Least(over)
\* _searchsorted_right over the running sums lo..hi.
Bisect(weights, t, first, last) ==
    LET from[lo \in first..last, hi \in first..last] ==
          IF lo >= hi THEN lo
          ELSE LET mid == (lo + hi) \div 2
               IN  IF RunningSum(weights, mid) <= t THEN from[mid + 1, hi] ELSE from[lo, mid]
    IN  from[first, last]
\* _sample_index_kernel and rng.choice; the search of _apply_channel_step.
SearchPick(weights, t) == Bisect(weights, t, 1, Len(weights) + 1)
ChannelPick(weights, t) ==
    IF t < weights[1] THEN 1 ELSE Least({Bisect(weights, t, 2, Len(weights) + 1), Len(weights)})
\* The ends of the intervals a draw can fall in.
Edges(weights) ==
    {t \in UNION {{RunningSum(weights, k), RunningSum(weights, k) - 1} : k \in 0..Len(weights)} :
       t >= 0 /\ t < Sum(weights)}

-----------------------------------------------------------------------------
(* Channels on a state vector.                                             *)

\* _unitary_branch_probabilities and _sampled_unitary_branches: {} for a channel that is
\* weighed against the state.  An operator is [w, m], for sqrt(w) m.
Gram(op) == Scaled(Real(op.w), MatMul(Dagger(op.m), op.m))
UnitaryBranches(ops) ==
    LET p(k) == Gram(ops[k])[1][1][1]
        isIdentity(m) == m = Scaled(m[1][1], Identity(Len(m))) /\ m[1][1][1] > 0 /\ m[1][1][2] = 0
    IN  IF \/ \E k \in DOMAIN ops : Gram(ops[k]) # Scaled(Real(p(k)), Identity(Len(ops[k].m)))
           \/ \A k \in DOMAIN ops : p(k) = 0 THEN {}
        ELSE {[weights |-> [k \in DOMAIN ops |-> p(k)],
               identities |-> [k \in DOMAIN ops |-> p(k) > 0 /\ isIdentity(ops[k].m)]]}

\* _apply_kraus_jump and _jump_branch_kernel: the norms of the branches.
NumpyJumps(v, ops, targets, dims) ==
    [k \in DOMAIN ops |-> ops[k].w * Power2(NumpyMatrix("statevector", v, ops[k].m, targets, dims))]
NumbaJumps(v, ops, targets, dims) ==
    [k \in DOMAIN ops |-> ops[k].w * Power2(Compiled(v, ops[k].m, targets, dims))]
\* Mutant: the conjugate of the density matrix.
ReducedTransposed(v, layout) ==
    LET bases == Walk(layout, 0, layout.cosets)
        d == Len(layout.offsets)
    IN  MatrixOf(d, LAMBDA a, b:
                   SumOf(Len(bases), LAMBDA n: Times(Conj(v[bases[n] + layout.offsets[a + 1] + 1]),
                                                     v[bases[n] + layout.offsets[b + 1] + 1])))
\* _compile_channel_table, _reduced_density and _reduced_diagonal: the weights of a
\* trajectory from the state of the targets alone.
ReducedDensity(v, layout) ==
    LET bases == Walk(layout, 0, layout.cosets)
        d == Len(layout.offsets)
    IN  MatrixOf(d, LAMBDA a, b:
                   SumOf(Len(bases), LAMBDA n: Times(v[bases[n] + layout.offsets[a + 1] + 1],
                                                     Conj(v[bases[n] + layout.offsets[b + 1] + 1]))))
ReducedDiagonal(v, layout) ==
    LET bases == Walk(layout, 0, layout.cosets)
    IN  [a \in DOMAIN layout.offsets |->
           Total(Len(bases), LAMBDA n: Norm2(v[bases[n] + layout.offsets[a] + 1]))]
ReducedWeights(v, ops, layout) ==
    LET diagonalOnly == \A k \in DOMAIN ops : IsDiagonal(Gram(ops[k]))
        diagonal == ReducedDiagonal(v, layout)
        rho == ReducedDensity(v, layout)
        weight(m) == IF diagonalOnly
                     THEN Total(Len(m), LAMBDA a: m[a][a][1] * diagonal[a])
                     ELSE SumOf(Len(m), LAMBDA a:
                            SumOf(Len(m), LAMBDA b: Times(m[a][b], rho[b][a])))[1]
    IN  [k \in DOMAIN ops |-> Largest(weight(Gram(ops[k])), 0)]

\* The weights a channel is drawn with: by the python workflow of either backend
\* (_apply_channel_statevector) and in a trajectory (_apply_channel_step).
ChannelWeights(route, v, ops, branches, targets, dims) ==
    IF branches # {} THEN (CHOOSE b \in branches : TRUE).weights
    ELSE CASE route = "numpy" -> NumpyJumps(v, ops, targets, dims)
           [] route = "numba" -> NumbaJumps(v, ops, targets, dims)
           [] route = "trajectory" -> ReducedWeights(v, ops, UnitaryLayout(dims, targets, FALSE))
ChannelChoice(route, weights, branches, t) ==
    IF route = "trajectory" /\ branches # {} THEN ChannelPick(weights, t)
    ELSE IF branches # {} \/ route = "numpy" THEN SearchPick(weights, t)
    ELSE InverseCdfPick(weights, t)
ChannelBranch(route, v, ops, branches, k, targets, dims) ==
    IF branches # {} /\ (CHOOSE b \in branches : TRUE).identities[k] THEN v
    ELSE IF route = "numpy" THEN NumpyMatrix("statevector", v, ops[k].m, targets, dims)
    ELSE Compiled(v, ops[k].m, targets, dims)

-----------------------------------------------------------------------------
(* Measurement.  A draw names a basis state of the whole system; the       *)
(* measured subsystems keep its digits.                                    *)

EngineDigit(index, dims, q) == (index \div EngineStride(dims, q)) % dims[q]
\* _dm_probabilities_kernel: the diagonal, its rounding below zero cut off.
DensityProbabilities(v, size) == [a \in 1..size |-> Largest(v[(a - 1) * size + a][1], 0)]
\* _sv_probabilities_kernel and the numpy forms of both.
Probabilities(method, v, dims) ==
    IF method = "statevector" THEN [a \in 1..Product(dims) |-> Norm2(v[a])]
    ELSE DensityProbabilities(v, Product(dims))
\* _measured_keep_mask; the loops of _project_statevector_strided and
\* _project_density_matrix_strided.
KeepMask(index, targets, dims) ==
    IF Elements(targets) = DOMAIN dims THEN {index}
    ELSE {flat \in 0..(Product(dims) - 1) :
            \A k \in DOMAIN targets :
               EngineDigit(flat, dims, targets[k]) = EngineDigit(index, dims, targets[k])}
StridedKeep(index, targets, dims) ==
    {flat \in 0..(Product(dims) - 1) :
       \A k \in DOMAIN targets : EngineDigit(flat, dims, targets[k])
                                   = EngineDigit(index, dims, targets[k])}
\* _project_statevector and _project_density_matrix with numpy: a vector times the mask,
\* a density matrix times the mask's outer product.
NumpyProject(method, v, index, targets, dims) ==
    LET keep == KeepMask(index, targets, dims)
        size == Product(dims)
        mask(a) == IF method = "statevector" THEN a \in keep
                   ELSE (a \div size) \in keep /\ (a % size) \in keep
    IN  Tabulated([a \in 1..Len(v) |-> Times(Real(IF mask(a - 1) THEN 1 ELSE 0), v[a])])
\* The compiled forms: every entry outside the kept rows and columns is zeroed.
StridedProject(method, v, index, targets, dims) ==
    LET keep == StridedKeep(index, targets, dims)
        size == Product(dims)
        dropped(a) == IF method = "statevector" THEN a \notin keep
                      ELSE (a \div size) \notin keep \/ (a % size) \notin keep
    IN  Tabulated([a \in 1..Len(v) |-> IF dropped(a - 1) THEN Zero ELSE v[a]])
Project(method, backend, v, index, targets, dims) ==
    IF backend = "numpy" THEN NumpyProject(method, v, index, targets, dims)
    ELSE StridedProject(method, v, index, targets, dims)

-----------------------------------------------------------------------------
(* Reset.                                                                  *)

\* _reset_statevector of numpy: project, then shift each measured level down to zero.
NumpyResetVector(v, index, targets, dims) ==
    LET upTo[k \in 0..Len(targets)] ==
          IF k = 0 THEN NumpyProject("statevector", v, index, targets, dims)
          ELSE LET d == dims[targets[k]]
                   outcome == EngineDigit(index, dims, targets[k])
               IN  IF outcome = 0 THEN upTo[k - 1]
                   ELSE NumpyMatrix("statevector", upTo[k - 1], ShiftMatrix(d, d - outcome),
                                    <<targets[k]>>, dims)
    IN  upTo[Len(targets)]
\* _sv_reset_kernel: project, then move the amplitudes of a level to level zero.
NumbaResetVector(v, index, targets, dims) ==
    LET upTo[k \in 0..Len(targets)] ==
          IF k = 0 THEN StridedProject("statevector", v, index, targets, dims)
          ELSE LET stride == EngineStride(dims, targets[k])
                   outcome == EngineDigit(index, dims, targets[k])
                   level(a) == EngineDigit(a, dims, targets[k])
               IN  IF outcome = 0 THEN upTo[k - 1]
                   ELSE Tabulated([a \in 1..Len(v) |->
                          CASE level(a - 1) = 0 -> upTo[k - 1][a + outcome * stride]
                            [] level(a - 1) = outcome -> Zero
                            [] OTHER -> upTo[k - 1][a]])
    IN  upTo[Len(targets)]
\* _reset_density_matrix: the targets are traced out and put in their level zero.
ResetDensity(v, targets, dims) ==
    LET n == Len(dims)
        shape == Flipped(dims \o dims)
        moved == [k \in DOMAIN targets |-> n + 1 - targets[k]]
                 \o [k \in DOMAIN targets |-> 2 * n + 1 - targets[k]]
        side == Product(TargetDims(dims, targets))
    IN  Tabulated([a \in 1..Len(v) |->
          IF Local(a - 1, shape, moved) # 0 THEN Zero
          ELSE SumOf(side, LAMBDA j: v[Placed(a - 1, shape, moved, (j - 1) * side + j - 1) + 1])])
\* _ResetChannelCache.resolve: the channel that takes every level to level zero.
ResetChannel(dim) ==
    [k \in 1..dim |-> [w |-> 1, m |-> MatrixOf(dim, LAMBDA r, c: IF r = 0 /\ c = k - 1
                                                                 THEN One ELSE Zero)]]
\* _reset_superoperator with numpy.
ResetSuperop(v, targets, dims) ==
    LET upTo[k \in 0..Len(targets)] ==
          IF k = 0 THEN v
          ELSE NumpyChannel("superop", upTo[k - 1], ResetChannel(dims[targets[k]]),
                            <<targets[k]>>, dims)
    IN  upTo[Len(targets)]

-----------------------------------------------------------------------------
(* Expectation values.  A factor is [axis, kind, level]: a Pauli "X", "Y"  *)
(* or "Z", a projector "P" on its level, or the number operator "N".       *)

\* Mutant: a Y flips no bit's sign.
TermMasksWithoutY(factors) ==
    LET axes(Test(_)) == {factors[k].axis : k \in {j \in DOMAIN factors : Test(factors[j])}}
    IN  [x |-> axes(LAMBDA f: f.kind \in {"X", "Y"}), z |-> axes(LAMBDA f: f.kind = "Z"),
         zero |-> axes(LAMBDA f: f.kind = "P" /\ f.level = 0),
         one |-> axes(LAMBDA f: f.kind = "N" \/ (f.kind = "P" /\ f.level = 1))]
\* _term_masks and the qubit kernels: bits to flip, signs, levels that must be 0 or 1.
TermMasks(factors) ==
    LET axes(Test(_)) == {factors[k].axis : k \in {j \in DOMAIN factors : Test(factors[j])}}
    IN  [x |-> axes(LAMBDA f: f.kind \in {"X", "Y"}), z |-> axes(LAMBDA f: f.kind \in {"Y", "Z"}),
         zero |-> axes(LAMBDA f: f.kind = "P" /\ f.level = 0),
         one |-> axes(LAMBDA f: f.kind = "N" \/ (f.kind = "P" /\ f.level = 1))]
Entry(method, v, size, ket, bra) ==
    IF method = "statevector" THEN Times(Conj(v[bra + 1]), v[ket + 1]) ELSE v[ket * size + bra + 1]
\* _weights and _odd_parity: a sign for an odd number of marked ones, 0 off the kept levels.
QubitWeight(masks, dims, a) ==
    LET bit(q) == EngineDigit(a, dims, q)
    IN  IF (\E q \in masks.one : bit(q) = 0) \/ \E q \in masks.zero : bit(q) = 1 THEN 0
        ELSE IF Cardinality({q \in masks.z : bit(q) = 1}) % 2 = 1 THEN -1 ELSE 1
QubitTerm(method, v, factors, dims) ==
    LET size == Product(dims)
        masks == TermMasks(factors)
        bit(a, q) == EngineDigit(a, dims, q)
        flipped(a) == a + Total(Len(dims), LAMBDA q:
                            IF q \in masks.x THEN EngineStride(dims, q) * (1 - 2 * bit(a, q)) ELSE 0)
        \* state vectors run over the bra, density matrices over the ket
        ket(a) == IF method = "statevector" THEN flipped(a) ELSE a
        bra(a) == IF method = "statevector" THEN a ELSE flipped(a)
    IN  SumOf(size, LAMBDA n:
          LET w == QubitWeight(masks, dims, ket(n - 1))
          IN  IF w = 0 THEN Zero
              ELSE Times(Real(w), Entry(method, v, size, ket(n - 1), bra(n - 1))))
\* digit_term, _digit_partner_and_weight and the streaming kernels.
DigitWeight(factor, digit) ==
    CASE factor.kind \in {"Y", "Z"} -> IF digit = 1 THEN -1 ELSE 1
      [] factor.kind = "P" -> IF digit = factor.level THEN 1 ELSE 0
      [] factor.kind = "N" -> digit
      [] OTHER -> 1
Flips(factor) == factor.kind \in {"X", "Y"}
DigitTerm(method, v, factors, dims) ==
    LET size == Product(dims)
        digit(a, k) == EngineDigit(a, dims, factors[k].axis)
        partner(a) == a + Total(Len(factors), LAMBDA k:
                            IF Flips(factors[k])
                            THEN EngineStride(dims, factors[k].axis) * (1 - 2 * digit(a, k)) ELSE 0)
        weight(a) == Product([k \in DOMAIN factors |-> DigitWeight(factors[k], digit(a, k))])
    IN  SumOf(size, LAMBDA n: Times(Real(weight(n - 1)), Entry(method, v, size, n - 1, partner(n - 1))))
\* _layout: the number of rows of the digits' table, and the other subsystems, in runs.
RowCount(factors, dims) ==
    Product([k \in DOMAIN factors |-> IF factors[k].kind = "P" THEN 1 ELSE dims[factors[k].axis]])
RestLayout(factors, dims) ==
    LET named == {factors[k].axis : k \in DOMAIN factors}
        rest == From((DOMAIN dims) \ named)
        runs[k \in 0..Len(rest)] ==
          IF k = 0 THEN <<>>
          ELSE LET so == runs[k - 1]
                   stride == EngineStride(dims, rest[k])
                   d == dims[rest[k]]
                   last == so[Len(so)]
               IN  IF so # <<>> /\ last[1] * last[2] = stride
                   THEN [so EXCEPT ![Len(so)] = <<last[1], last[2] * d>>]
                   ELSE Append(so, <<stride, d>>)
        merged == runs[Len(rest)]
    IN  [offsets |-> <<0>>, strides |-> [k \in DOMAIN merged |-> merged[k][1]],
         dims |-> [k \in DOMAIN merged |-> merged[k][2]],
         cosets |-> Product([k \in DOMAIN merged |-> merged[k][2]])]
\* _table with table_term; _digit_table with statevector_term and density_matrix_term.
DigitTable(factors, dims) ==
    LET upTo[k \in 0..Len(factors)] ==
          IF k = 0 THEN <<[offset |-> 0, partner |-> 0, weight |-> 1]>>
          ELSE LET so == upTo[k - 1]
                   f == factors[k]
                   stride == EngineStride(dims, f.axis)
                   digits == IF f.kind = "P" THEN <<f.level>> ELSE [d \in 1..dims[f.axis] |-> d - 1]
                   row(s, d) == [offset |-> s.offset + d * stride,
                                 partner |-> s.partner + (IF Flips(f) THEN 1 - d ELSE d) * stride,
                                 weight |-> s.weight * DigitWeight(f, d)]
               IN  [n \in 1..(Len(so) * Len(digits)) |->
                      row(so[((n - 1) \div Len(digits)) + 1], digits[((n - 1) % Len(digits)) + 1])]
    IN  SelectSeq(upTo[Len(factors)], LAMBDA row: row.weight # 0)
TableSum(method, v, size, table, bases) ==
    SumOf(Len(table), LAMBDA r:
      SumOf(Len(bases), LAMBDA n:
        Times(Real(table[r].weight),
              Entry(method, v, size, bases[n] + table[r].offset, bases[n] + table[r].partner))))
TableTerm(method, v, factors, dims) ==
    LET rest == RestLayout(factors, dims)
    IN  TableSum(method, v, Product(dims), DigitTable(factors, dims), Walk(rest, 0, rest.cosets))
\* _expectation of either backend, _sum_terms and _y_count: a term is [coeff, factors].
TermValue(backend, method, v, factors, dims) ==
    LET qubits == \A q \in DOMAIN dims : dims[q] = 2
        rows == RowCount(factors, dims)
    IN  IF backend = "numpy"
        THEN IF rows * AmplitudesPerRow <= Product(dims) THEN TableTerm(method, v, factors, dims)
             ELSE IF qubits THEN QubitTerm(method, v, factors, dims)
             ELSE DigitTerm(method, v, factors, dims)
        ELSE IF qubits THEN QubitTerm(method, v, factors, dims)
             ELSE IF rows > TableRows THEN DigitTerm(method, v, factors, dims)
             ELSE TableTerm(method, v, factors, dims)
YCount(factors) == Cardinality({k \in DOMAIN factors : factors[k].kind = "Y"})
ExpectationOf(backend, method, v, terms, dims) ==
    Total(Len(terms), LAMBDA k:
      IF terms[k].coeff = 0 THEN 0
      ELSE terms[k].coeff * Times(TermValue(backend, method, v, terms[k].factors, dims),
                                  Unit(YCount(terms[k].factors)))[1])
=============================================================================
