---------------------------- MODULE ZapPlacement ----------------------------
(***************************************************************************)
(* Where the zoned neutral-atom compiler puts atoms:                       *)
(* compiler/algorithms/zap/placer.py, with architecture.py.                *)
(*                                                                         *)
(* The placer keeps one mapping of atoms to traps.  Before the first stage *)
(* it chooses a storage trap for every atom; for each stage it then moves  *)
(* idle atoms out of the entanglement zone when that pays, and brings the  *)
(* atoms of each pair together.  A call of placing() runs to its end       *)
(* before anything else happens, so it is an operator here: Placing(s),    *)
(* a record of the new mapping, or of a ValueError.                        *)
(*                                                                         *)
(* Positions are integers (micrometres).  Distances are square roots       *)
(* rounded down at 1/Scale micrometre; log-fidelities are in ten-millionths.   *)
(***************************************************************************)
EXTENDS ZapSchedule, SequencesExt

VARIABLES
    arch,        \* the architecture mapping
    ascending,   \* which operand of a pair the gate list names first
    storage,     \* stg_slm_sites
    entangling,  \* ent_slm_sites
    sitePairs,   \* pairs
    homes,       \* initial_mapping
    placement    \* the placer's current_mapping

placerVars == <<arch, ascending, storage, entangling, sitePairs, homes, placement>>

AtomCount == Cardinality(Atoms)

\* A set of integers in increasing order.
Sorted(S) ==
    [k \in 1..Cardinality(S) |-> CHOOSE n \in S : Cardinality({m \in S : m < n}) = k - 1]

AtomSeq == Sorted(Atoms)

Operands(i) == IF ascending THEN Sorted(gates[i]) ELSE Reverse(Sorted(gates[i]))

\* The two-atom gates of a stage, in the order of the list.
PairsOf(s) == Sorted({i \in StageGates(s) : IsPair(i)})

----------------------------------------------------------------------------
(* Sequences as Python sorts and scans them.                               *)

\* sorted(): stable, by an integer key.
SortedBy(seq, key(_)) ==
    LET keyed == SortSeq([i \in DOMAIN seq |-> [key |-> key(seq[i]), at |-> i]],
                    LAMBDA x, y : x.key < y.key \/ (x.key = y.key /\ x.at < y.at))
    IN  [i \in DOMAIN seq |-> seq[keyed[i].at]]

\* min(): the first element of least key.
FirstLeast(seq, key(_)) == SortedBy(seq, key)[1]

----------------------------------------------------------------------------
(* Geometry.                                                               *)

Scale == 500

RydbergRadius == 5

Square(p, q) == (p[1] - q[1]) * (p[1] - q[1]) + (p[2] - q[2]) * (p[2] - q[2])

\* The integer square root, bit by bit.
Root(n) ==
    LET root[k \in 0..15] ==
           IF k = 0 THEN 0
           ELSE LET prev == root[k - 1]
                    next == prev + 2^(15 - k)
                IN  IF next * next <= n THEN next ELSE prev
    IN  root[15]

Dist(p, q) == Root(Scale * Scale * Square(p, q))

\* Rows and columns of a zone's traps, row-major, without duplicates.
SitesOf(slms) ==
    LET Expand(slm) == [n \in 1..(slm.r * slm.c) |->
                          <<slm.x + ((n - 1) % slm.c) * slm.sx,
                            slm.y + ((n - 1) \div slm.c) * slm.sy>>]
        all == FlattenSeq([k \in DOMAIN slms |-> Expand(slms[k])])
        firsts == SelectSeq([n \in DOMAIN all |-> n],
                     LAMBDA n : \A m \in 1..(n - 1) : all[m] # all[n])
    IN  [k \in DOMAIN firsts |-> all[firsts[k]]]

\* Two moves keep the order of their columns and of their rows.
Compatible(a, b) ==
    \A k \in {1, 2} :
       /\ (a.from[k] < b.from[k]) = (a.to[k] < b.to[k])
       /\ (a.from[k] > b.from[k]) = (a.to[k] > b.to[k])

Conflicts(move, moves) ==
    Cardinality({k \in DOMAIN moves : ~Compatible(move, moves[k])})

----------------------------------------------------------------------------
(* __init__: the traps used, the homes, the pairs.                         *)

\* The longest run of traps that share coordinate k.
Extent(sites, k) ==
    LET Mates(p) == {q \in ToSet(sites) : q[k] = p[k]}
    IN  CHOOSE n \in 0..Len(sites) :
           /\ \E p \in ToSet(sites) : Cardinality(Mates(p)) = n
           /\ \A p \in ToSet(sites) : Cardinality(Mates(p)) <= n

Lesser(m, n) == IF m <= n THEN m ELSE n

\* Columns and rows of storage in use: grown together until all atoms fit.
StorageShape(sites) ==
    LET cols == Extent(sites, 2)
        rows == Extent(sites, 1)
        side == CHOOSE n \in 0..AtomCount : n * n <= AtomCount /\ AtomCount < (n + 1) * (n + 1)
        Grown(k) == [cols |-> Lesser(side + 4 + k, cols), rows |-> Lesser(side + 2 + k, rows)]
        Fits(k) == Grown(k).cols * Grown(k).rows >= AtomCount
        steps == CHOOSE k \in 0..AtomCount : Fits(k) /\ \A m \in 0..(k - 1) : ~Fits(m)
    IN  Grown(steps)

\* The leftmost columns of a zone, cut to the rows next to the other zone: toward is 1
\* when those come first and -1 when they come last.
Corner(sites, cols, rows, toward) ==
    LET height  == Extent(sites, 1)
        ordered == SortSeq(sites,
                      LAMBDA p, q : p[1] < q[1] \/ (p[1] = q[1] /\ toward * p[2] < toward * q[2]))
    IN  [n \in 1..(cols * rows) |-> ordered[((n - 1) \div rows) * height + ((n - 1) % rows) + 1]]

StorageCorner(a) ==
    LET sites == SitesOf(a.storage)
        shape == StorageShape(sites)
    IN  Corner(sites, shape.cols, shape.rows, -1)

EntanglingCorner(a) ==
    LET sites == SitesOf(a.entangling)
        shape == StorageShape(SitesOf(a.storage))
    IN  Corner(sites, Lesser(shape.cols + 4, Extent(sites, 2)),
                      Lesser(shape.rows, Extent(sites, 1)), 1)

\* Storage traps, nearest on average to the entanglement zone first.
StorageOrder(a) ==
    LET ent == EntanglingCorner(a)
        total(p) == FoldLeft(LAMBDA sum, e : sum + Dist(p, e), 0, ent)
    IN  SortedBy(StorageCorner(a), total)

\* Gates count for an atom by 1 / (stage + 1), in 840ths; a one-atom gate twice.
Weight(q) ==
    FoldLeft(LAMBDA w, i : w + (840 \div (stageOf[i] + 1)) * (IF IsPair(i) THEN 1 ELSE 2), 0,
             Sorted({i \in Indices : q \in gates[i]}))

LookaheadStages == 3

\* The atom meets a partner within the lookahead of the initial mapping.
MeetsEarly(q) ==
    \E i \in Indices : q \in gates[i] /\ IsPair(i) /\ stageOf[i] <= LookaheadStages

ConflictWeight == 1000 * Scale

\* init_mapping: heaviest atoms first, each to the trap whose first move
\* conflicts with fewest first moves chosen before, and then is shortest.
HomesFor(a) ==
    LET ent == EntanglingCorner(a)
        traps == StorageOrder(a)
        nearest == [p \in ToSet(traps) |-> FirstLeast(ent, LAMBDA e : Dist(p, e))]
        FirstMove(p) == [from |-> p, to |-> nearest[p]]
        Choose(acc, q) ==
           LET open == SelectSeq(traps, LAMBDA p : p \notin acc.used)
               score(p) == (IF MeetsEarly(q) THEN ConflictWeight * Conflicts(FirstMove(p), acc.moves)
                                             ELSE 0) + Dist(p, nearest[p])
               best == FirstLeast(open, score)
           IN  [map   |-> [acc.map EXCEPT ![q] = best],
                used  |-> acc.used \cup {best},
                moves |-> IF MeetsEarly(q) THEN Append(acc.moves, FirstMove(best)) ELSE acc.moves]
    IN  FoldLeft(Choose, [map |-> [q \in Atoms |-> <<-1, -1>>], used |-> {}, moves |-> <<>>],
                 SortedBy(AtomSeq, LAMBDA q : -Weight(q))).map

\* init_pairs: traps within the interaction radius, in the order of the zone.
PairsIn(zone) ==
    LET n == Len(zone)
        Close(k) == LET i == ((k - 1) \div n) + 1
                        j == ((k - 1) % n) + 1
                    IN  i < j /\ Square(zone[i], zone[j]) < RydbergRadius * RydbergRadius
        indices == SelectSeq([k \in 1..(n * n) |-> k], Close)
    IN  [m \in DOMAIN indices |-> <<zone[((indices[m] - 1) \div n) + 1],
                                    zone[((indices[m] - 1) % n) + 1]>>]

----------------------------------------------------------------------------
(* placing(): acc is the placer while a stage is planned.                  *)

Free(acc, p) == \A q \in Atoms : acc.map[q] # p

FreeFor(acc, p, atom) == \A q \in Atoms \ {atom} : acc.map[q] # p

MoveTo(acc, q, p) == [from |-> acc.map[q], to |-> p]

MoveConflicts(acc, q, p, others) ==
    IF acc.map[q] = p THEN 0 ELSE Conflicts(MoveTo(acc, q, p), acc.planned \o others)

\* _commit_move.
Commit(acc, q, p) ==
    [acc EXCEPT !.map[q] = p,
                !.planned = IF acc.map[q] = p THEN @ ELSE Append(@, MoveTo(acc, q, p))]

\* _move_to_target_zone(q, "storage"): the home only breaks ties.
ToStorage(acc, q) ==
    LET open == SelectSeq(storage, LAMBDA p : FreeFor(acc, p, q))
        rank(p) == 2 * (MoveConflicts(acc, q, p, <<>>) * ConflictWeight + Dist(acc.map[q], p))
                     + (IF p = homes[q] THEN 0 ELSE 1)
    IN  IF open = <<>> THEN [acc EXCEPT !.failed = TRUE]
        ELSE Commit(acc, q, FirstLeast(open, rank))

NextMeeting(q, s) ==
    LET later == {t \in (s + 1)..(depth - 1) : status[q][t] = "2qGate"}
    IN  IF later = {} THEN depth ELSE CHOOSE t \in later : \A u \in later : t <= u

IdleLoss == 25031      \* -log of an idle atom's fidelity in a stage

TransferLoss == 10005  \* -log of the fidelity of a transfer

\* Staying costs one idle loss per stage; leaving costs transfers and the
\* decoherence of all other atoms over the moves, 200 us * sqrt(d / 110 um).
LeavingPays(acc, q, s) ==
    LET meeting   == NextMeeting(q, s)
        transfers == IF meeting = depth THEN 2 ELSE 4
        at_home   == Contains(storage, homes[q]) /\ FreeFor(acc, homes[q], q)
        options   == IF at_home THEN <<homes[q]>>
                     ELSE SelectSeq(storage, LAMBDA p : FreeFor(acc, p, q))
        distance  == Dist(acc.map[q], FirstLeast(options, LAMBDA p : Dist(acc.map[q], p)))
        movement  == (200 * Root((distance * 1000) \div (Scale * 11))) \div 100
        waiting   == ((AtomCount - 1) * transfers * movement * 10) \div 3
    IN  options # <<>> /\ (meeting - s) * IdleLoss > transfers * TransferLoss + waiting

\* _move_unentangled_qubits, one atom.  The second branch compares a status
\* record with a string, so it also takes atoms that meet a partner.
Release(acc, q, s) ==
    IF Contains(entangling, acc.map[q]) /\ status[q][s] # "2qGate"
    THEN IF LeavingPays(acc, q, s) THEN ToStorage(acc, q) ELSE acc
    ELSE IF Contains(storage, acc.map[q]) /\ acc.map[q] # homes[q]
         THEN ToStorage(acc, q) ELSE acc

PairAt(p) == SelectSeq(sitePairs, LAMBDA pair : p \in {pair[1], pair[2]})

\* pair_status: -1 outside the zone, 2 with both traps taken, 1 otherwise.
PairStatus(acc, p) ==
    IF PairAt(p) = <<>> THEN -1
    ELSE IF Free(acc, PairAt(p)[1][1]) \/ Free(acc, PairAt(p)[1][2]) THEN 1 ELSE 2

\* Faulty variant: the trap of the pair the atom already stands on.
SameSite(p) == p

OtherSite(p) == LET pair == PairAt(p)[1] IN IF p = pair[2] THEN pair[1] ELSE pair[2]

\* _find_closest_pair: only pairs that were free when the stage began count.
ClosestPair(acc, a, b) ==
    LET open == SelectSeq(acc.pairs, LAMBDA p : Free(acc, p[1]) /\ Free(acc, p[2]))
        Length(p, r) == Dist(p, acc.map[a]) + Dist(r, acc.map[b])
        Oriented(p) == IF Length(p[1], p[2]) < Length(p[2], p[1]) THEN p ELSE <<p[2], p[1]>>
        rank(p) == LET o == Oriented(p)
                   IN  ConflictWeight * (MoveConflicts(acc, a, o[1], <<>>)
                          + MoveConflicts(acc, b, o[2],
                               IF acc.map[a] = o[1] THEN <<>> ELSE <<MoveTo(acc, a, o[1])>>))
                       + Length(o[1], o[2])
    IN  IF open = <<>> THEN <<>> ELSE Oriented(FirstLeast(open, rank))

\* _process_two_qubit_gates, one gate.
Bring(acc, i) ==
    LET a == Operands(i)[1]
        b == Operands(i)[2]
        closest == ClosestPair(acc, a, b)
    IN  IF \E k \in DOMAIN sitePairs : {acc.map[a], acc.map[b]} = ToSet(sitePairs[k])
        THEN acc
        ELSE IF PairStatus(acc, acc.map[a]) = 1 THEN Commit(acc, b, OtherSite(acc.map[a]))
        ELSE IF PairStatus(acc, acc.map[b]) = 1 THEN Commit(acc, a, OtherSite(acc.map[b]))
        ELSE IF closest = <<>> THEN [acc EXCEPT !.failed = TRUE]
        ELSE Commit(Commit(acc, a, closest[1]), b, closest[2])

\* An exception ends the call: later iterations do not run.
Unless(acc, next) == IF acc.failed THEN acc ELSE next

Placing(s) ==
    LET start == [map |-> placement, planned |-> <<>>, failed |-> FALSE,
                  pairs |-> SelectSeq(sitePairs, LAMBDA p :
                               \A q \in Atoms : placement[q] \notin {p[1], p[2]})]
        released == FoldLeft(LAMBDA acc, q : Unless(acc, Release(acc, q, s)), start, AtomSeq)
    IN  IF types[s] = "1qGate" THEN start
        ELSE FoldLeft(LAMBDA acc, i : Unless(acc, Bring(acc, i)), released, PairsOf(s))
=============================================================================
