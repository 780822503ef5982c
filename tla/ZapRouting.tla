----------------------------- MODULE ZapRouting -----------------------------
(***************************************************************************)
(* How the zoned neutral-atom compiler moves atoms between stages:         *)
(* compiler/algorithms/zap/router.py, called by api.py.                    *)
(*                                                                         *)
(* For each stage of ZapSchedule the router asks ZapPlacement for new      *)
(* positions, moves atoms there in batches, and fires the stage.  A batch  *)
(* is a set of moves that keep the order of rows and columns, so that one  *)
(* pair of deflectors can carry them.  Atoms of a batch step aside first   *)
(* when a tweezer crossing would catch a bystander (Park), and take a      *)
(* detour when a bystander is in their way.  Every loop iteration of the   *)
(* router is one step; what it writes goes to "instructions".              *)
(***************************************************************************)
EXTENDS ZapPlacement

CONSTANTS
    Inputs,         \* gate lists with a strategy, the bound on what is compiled
    Architectures   \* zones: storage and entangling, each a list of trap grids

\* api.py refuses a program with more atoms than storage traps.
ASSUME RoutingAssumption ==
    \A a \in Architectures : AtomCount <= Len(SitesOf(a.storage))

VARIABLES
    router,        \* where the router is
    stage,         \* index_list_gate
    mapping,       \* current_mapping: where atoms are
    waiting,       \* atoms of "vectors": still to be moved in this stage
    batch,         \* aod_qubits of process_rearrangement, in order
    begin, end,    \* tmp_begin_locs, tmp_end_locs
    activated,     \* activated_qs
    parked,        \* parking_end_qubits
    instructions   \* results_code["instructions"]

batchVars == <<batch, begin, end, activated, parked>>

routerVars == <<router, stage, mapping, waiting, batch, begin, end, activated, parked, instructions>>

routingVars == <<vars, placerVars, routerVars>>

RoutingInit ==
    /\ \E input \in Inputs :
          /\ count = Len(input.gates) /\ gates = input.gates
          /\ strategy = input.strategy
          /\ arch \in (IF strategy = "joint" THEN Architectures ELSE {CHOOSE a \in Architectures : TRUE})
          /\ ascending \in (IF strategy = "joint" THEN BOOLEAN ELSE {TRUE})
    /\ Start
    /\ storage = <<>> /\ entangling = <<>> /\ sitePairs = <<>> /\ homes = <<>> /\ placement = <<>>
    /\ router = "idle" /\ stage = 0
    /\ mapping = <<>> /\ waiting = {}
    /\ batch = <<>> /\ begin = <<>> /\ end = <<>> /\ activated = {} /\ parked = {}
    /\ instructions = <<>>

----------------------------------------------------------------------------
(* Instructions.                                                           *)

At(map, qs) == [k \in DOMAIN qs |-> map[qs[k]]]

Instruction(type, qs, from, to) == [type |-> type, qs |-> qs, from |-> from, to |-> to, ids |-> <<>>]

Transfer(type, qs, map) ==
    IF qs = <<>> THEN <<>> ELSE <<Instruction(type, qs, At(map, qs), At(map, qs))>>

Move(type, qs, from, to) == <<Instruction(type, qs, At(from, qs), At(to, qs))>>

\* What write_move_instruction leaves in current_mapping.
Moved(map, qs, to) == [q \in Atoms |-> IF Contains(qs, q) THEN to[q] ELSE map[q]]

\* compile_interactions: place the atoms, write Init, begin with stage 0.
StartRouting ==
    /\ pc = "done" /\ strategy = "joint" /\ router = "idle"
    /\ storage' = StorageOrder(arch)
    /\ entangling' = EntanglingCorner(arch)
    /\ sitePairs' = PairsIn(entangling')
    /\ homes' = HomesFor(arch)
    /\ placement' = homes' /\ mapping' = homes'
    /\ instructions' = <<Instruction("Init", AtomSeq, At(homes', AtomSeq), At(homes', AtomSeq))>>
    /\ router' = "place"
    /\ UNCHANGED <<vars, arch, ascending, stage, waiting, batchVars>>

\* placer.placing for the next stage, and the moves it asks for.
PlaceStage ==
    /\ router = "place" /\ stage < depth
    /\ LET placed == Placing(stage) IN
          /\ placement' = placed.map
          /\ waiting' = {q \in Atoms : mapping[q] # placed.map[q]}
          /\ router' = IF placed.failed THEN "failed" ELSE "batch"
    /\ UNCHANGED <<vars, arch, ascending, storage, entangling, sitePairs, homes, stage, mapping, batchVars, instructions>>

FinishRouting ==
    /\ router = "place" /\ stage = depth
    /\ router' = "routed"
    /\ UNCHANGED <<vars, placerVars, stage, mapping, waiting, batchVars, instructions>>

----------------------------------------------------------------------------
(* find_maximal_independent_set.                                           *)

Vector(q) == [from |-> mapping[q], to |-> placement[q]]

Occupied(p) == \E q \in Atoms : mapping[q] = p

\* Moves onto occupied traps are removed from the list the loop runs over:
\* the one behind a removed move is not looked at.
Unobstructed(moves) ==
    FoldLeft(LAMBDA acc, q :
                IF ~acc.skip /\ Occupied(placement[q])
                THEN [acc EXCEPT !.skip = TRUE]
                ELSE [kept |-> Append(acc.kept, q), skip |-> FALSE],
             [kept |-> <<>>, skip |-> FALSE], moves).kept

\* Greedy, fewest conflicts first.
Independent(moves) ==
    LET Clash(q) == {k \in DOMAIN moves : ~Compatible(Vector(q), Vector(moves[k]))}
        Take(acc, q) == IF q \in acc.visited THEN acc
                        ELSE [taken |-> Append(acc.taken, q),
                              visited |-> acc.visited \cup {q} \cup {moves[k] : k \in Clash(q)}]
    IN  FoldLeft(Take, [taken |-> <<>>, visited |-> {}],
                 SortedBy(moves, LAMBDA q : Cardinality(Clash(q)))).taken

\* Faulty variant: a move may go where an atom of the stage still waits.
AllMoves == waiting

\* Moves whose destination no waiting atom still holds.
SafeMoves ==
    LET safe == {q \in waiting : \A w \in waiting : mapping[w] # placement[q]}
    IN  IF safe # {} THEN safe ELSE {CHOOSE q \in waiting : \A w \in waiting : q <= w}

NextBatch ==
    /\ router = "batch" /\ waiting # {}
    /\ batch' = Independent(Unobstructed(Sorted(SafeMoves)))
    /\ begin' = mapping /\ end' = placement
    /\ activated' = {} /\ parked' = {}
    /\ router' = IF batch' = <<>> THEN "failed" ELSE "park"
    /\ UNCHANGED <<vars, placerVars, stage, mapping, waiting, instructions>>

----------------------------------------------------------------------------
(* process_rearrangement.                                                  *)

\* Columns where the deflectors' crossings catch an atom outside the batch.
CaughtColumns ==
    LET held == ToSet(At(mapping, batch))
    IN  {x \in {p[1] : p \in held} :
            \E y \in {p[2] : p \in held} : Occupied(<<x, y>>) /\ <<x, y>> \notin held}

\* -len // 2 + i, for the i-th from zero.
ParkingShift(n, k) == k - 1 - ((n + 1) \div 2)

ParkColumns ==
    /\ router = "park"
    /\ LET caught == SelectSeq(batch, LAMBDA q : mapping[q][1] \in CaughtColumns)
           inRow  == SortedBy(caught, LAMBDA q : mapping[q][1])
           aside  == [q \in Atoms |->
                        IF Contains(inRow, q)
                        THEN LET k == CHOOSE k \in DOMAIN inRow : inRow[k] = q
                             IN  <<begin[q][1] + ParkingShift(Len(inRow), k), begin[q][2]>>
                        ELSE begin[q]]
       IN  IF caught = <<>>
           THEN /\ router' = "detour"
                /\ UNCHANGED <<mapping, begin, activated, parked, instructions>>
           ELSE /\ begin' = aside
                /\ mapping' = Moved(mapping, inRow, aside)
                /\ activated' = activated \cup ToSet(caught)
                /\ parked' = parked \cup ToSet(caught)
                /\ instructions' = instructions \o Transfer("Activate", caught, mapping)
                                     \o Move("Park", inRow, mapping, aside)
                /\ router' = router
    /\ UNCHANGED <<vars, placerVars, stage, waiting, batch, end>>

Abs(n) == IF n < 0 THEN -n ELSE n

Divides(d, n) == n % d = 0

Gcd(m, n) ==
    IF m = 0 THEN n ELSE IF n = 0 THEN m
    ELSE CHOOSE d \in 1..m : /\ Divides(d, m) /\ Divides(d, n)
                             /\ \A e \in (d + 1)..m : ~(Divides(e, m) /\ Divides(e, n))

\* verify_path: the lattice points strictly between two positions.
OnTheWay(p, q) ==
    LET dx == q[1] - p[1]
        dy == q[2] - p[2]
        g  == Gcd(Abs(dx), Abs(dy))
        Step(d) == IF d < 0 THEN -(Abs(d) \div g) ELSE d \div g
    IN  {<<p[1] + k * Step(dx), p[2] + k * Step(dy)>> : k \in 1..(g - 1)}

Blocked(p, q) == \E point \in OnTheWay(p, q) : Occupied(point)

\* Where a blocked move goes first, by the kind of its path.
DetourEnd(p, q) ==
    IF p[1] = q[1] THEN <<p[1] + 1, p[2]>>
    ELSE IF p[2] = q[2] THEN <<p[1], p[2] + 1>>
    ELSE <<q[1] + 1, q[2]>>

\* One round of detours; another follows if it lifted an atom that rested.
PlanDetours ==
    /\ router = "detour"
    /\ LET blocked == SelectSeq(batch, LAMBDA q : Blocked(begin[q], end[q]))
           lifted  == SelectSeq(blocked, LAMBDA q : q \notin activated)
       IN  /\ end' = [q \in Atoms |-> IF Contains(blocked, q) THEN DetourEnd(begin[q], end[q]) ELSE end[q]]
           /\ activated' = activated \cup ToSet(blocked)
           /\ parked' = parked \cup ToSet(blocked)
           /\ instructions' = instructions \o Transfer("Activate", lifted, mapping)
           /\ router' = IF lifted = <<>> THEN "move" ELSE "detour"
    /\ UNCHANGED <<vars, placerVars, stage, mapping, waiting, batch, begin>>

BigMove ==
    /\ router = "move"
    /\ LET resting == Sorted(ToSet(batch) \ activated)
           landing == Sorted(ToSet(batch) \ parked)
       IN  /\ mapping' = Moved(mapping, batch, end)
           /\ instructions' = instructions \o Transfer("Activate", resting, mapping)
                                \o Move("BigMove", batch, mapping, end)
                                \o Transfer("Deactivate", landing, mapping')
    /\ router' = "settle"
    /\ UNCHANGED <<vars, placerVars, stage, waiting, batchVars>>

\* Faulty variant: atoms that parked or took a detour stay where they are.
SettleNowhere ==
    /\ router = "settle"
    /\ waiting' = waiting \ ToSet(batch)
    /\ router' = "batch"
    /\ UNCHANGED <<vars, placerVars, stage, mapping, instructions, batchVars>>

\* Parked and detoured atoms go to their traps; the batch leaves the list.
Settle ==
    /\ router = "settle"
    /\ LET late == Sorted(parked)
       IN  /\ mapping' = Moved(mapping, late, placement)
           /\ instructions' = instructions
                \o (IF late = <<>> THEN <<>> ELSE Move("Park", late, mapping, placement))
                \o Transfer("Deactivate", late, mapping')
    /\ waiting' = waiting \ ToSet(batch)
    /\ router' = "batch"
    /\ UNCHANGED <<vars, placerVars, stage, batchVars>>

----------------------------------------------------------------------------
(* process_gate.                                                           *)

Batch(type, ids) ==
    LET qs == FlattenSeq([k \in DOMAIN ids |-> Operands(ids[k])])
    IN  IF ids = <<>> THEN <<>>
        ELSE <<[Instruction(type, qs, At(mapping, qs), At(mapping, qs)) EXCEPT !.ids = ids]>>

\* write_idle: atoms left out of the pairs but inside the entanglement zone.
Crosstalk(pairs) ==
    LET edge == CHOOSE y \in {p[2] : p \in ToSet(SitesOf(arch.entangling))} :
                   \A p \in ToSet(SitesOf(arch.entangling)) : y <= p[2]
        idle == {q \in Atoms : mapping[q][2] >= edge /\ \A k \in DOMAIN pairs : q \notin gates[pairs[k]]}
    IN  IF pairs = <<>> THEN <<>> ELSE Transfer("Crosstalk", Sorted(idle), mapping)

Fire ==
    /\ router = "batch" /\ waiting = {}
    /\ LET singles == Sorted({i \in StageGates(stage) : ~IsPair(i)})
           pairs   == PairsOf(stage)
       IN  instructions' = instructions \o Batch("1qGate", singles) \o Batch("2qGate", pairs)
                             \o Crosstalk(pairs)
    /\ stage' = stage + 1
    /\ router' = "place"
    /\ UNCHANGED <<vars, placerVars, mapping, waiting, batchVars>>

Route ==
    \/ StartRouting \/ PlaceStage \/ NextBatch \/ ParkColumns \/ PlanDetours
    \/ BigMove \/ Settle \/ Fire \/ FinishRouting

RoutingNext ==
    \/ Next /\ UNCHANGED <<placerVars, routerVars>>
    \/ Route

----------------------------------------------------------------------------
(* Properties.                                                             *)

(* No two atoms are ever in one place, parked and detoured ones included   *)
(* (router.py:298-393 moves them one column at a time).                    *)
AtomsApart ==
    router # "idle" => \A p, q \in Atoms : p # q => mapping[p] # mapping[q]

(* When a stage fires, the atoms of each pair stand on one pair of traps,  *)
(* and no third atom is within the interaction radius of either            *)
(* (placer.py:474-523).                                                    *)
GatesMeet ==
    router = "batch" /\ waiting = {} =>
       \A i \in StageGates(stage) : IsPair(i) =>
          \E k \in DOMAIN sitePairs :
             /\ {mapping[q] : q \in gates[i]} = ToSet(sitePairs[k])
             /\ \A q \in gates[i] : \A third \in Atoms \ gates[i] :
                   Square(mapping[q], mapping[third]) >= RydbergRadius * RydbergRadius

(* The router's precautions never bite: a move it takes as safe goes to a  *)
(* trap that nobody holds, so nothing is dropped from the list being       *)
(* iterated (router.py:476) and no move is taken because all wait for each *)
(* other (router.py:553); and a batch keeps rows and columns in order.     *)
BatchesProceed ==
    /\ router = "batch" => \A q \in waiting : q \in SafeMoves => ~Occupied(placement[q])
    /\ router = "park" /\ activated = {} =>
          \A j, k \in DOMAIN batch : Compatible(Vector(batch[j]), Vector(batch[k]))
=============================================================================
