---------------------------- MODULE SabreRouting ----------------------------
(***************************************************************************)
(* Mapping and routing of a superconducting program, and its lowering to   *)
(* native operations: compiler/algorithms/sabre.py (sabre_map, _route),    *)
(* compiler/algorithms/sc_dag.py (build_dag_index, DAGCursor) and          *)
(* compiler/passes/sc_target.py (_lower_events).                           *)
(*                                                                         *)
(* sabre_map routes the program seven times: forward and backward in turn  *)
(* to find a layout, then forward once more to emit events.  Each pass     *)
(* executes ready nodes whose qubits are coupled and otherwise inserts the *)
(* SWAP of least score.  Lowering turns events into native operations and  *)
(* puts every measurement at the end, on its qubit's final site.           *)
(*                                                                         *)
(* A program is a sequence of nodes in source order; a qubit's wire is the *)
(* nodes it takes part in, in that order.  Scores are the code's           *)
(* fractions over a common denominator, decay counted in thousandths.      *)
(* Two variables are history: "path", the layouts the last pass went       *)
(* through, and "device", what the native operations so far have done to   *)
(* the contents of the sites.                                              *)
(***************************************************************************)
EXTENDS Integers, Sequences, FiniteSets, FiniteSetsExt

CONSTANTS
    Qubits, Sites,
    Programs,     \* sequences of nodes [qubits, measures]
    Topologies,   \* sets of couplings, each a set of two sites
    Nobody        \* a site no logical qubit is on

\* verify_sc_program: one or two distinct qubits, measurements end a wire.
WellFormed(p) ==
    \A n \in 1..Len(p) :
       /\ p[n].qubits \in Seq(Qubits) /\ p[n].measures \in BOOLEAN
       /\ Len(p[n].qubits) = 1 \/ (Len(p[n].qubits) = 2 /\ p[n].qubits[1] # p[n].qubits[2])
       /\ p[n].measures =>
             /\ Len(p[n].qubits) = 1
             /\ \A m \in (n + 1)..Len(p) :
                   \A k \in 1..Len(p[m].qubits) : p[m].qubits[k] # p[n].qubits[1]

ASSUME RoutingAssumption ==
    /\ Nobody \notin Qubits /\ IsFiniteSet(Sites)
    /\ \A p \in Programs : Len(p) \in Nat /\ WellFormed(p)
    /\ \A topology \in Topologies : \A edge \in topology :
          \E a, b \in Sites : a # b /\ edge = {a, b}

VARIABLES
    program, couplings,
    distances,  \* all pairs, computed once
    pc,         \* route, lower, done, unreachable or diverged
    pass,       \* the routing pass, 1 to 7
    remaining,  \* DAGCursor._remaining
    ready,      \* DAGCursor._ready
    siteOf,     \* logical_to_site
    qubitAt,    \* site_to_logical
    decay, swaps,
    initial,    \* the layout the last pass started from
    events,     \* events of the last pass
    path,       \* the layout before each of them, and the one reached
    lowered,    \* events lowered
    deferred,   \* deferred_measurements
    native,     \* native operations
    device      \* contents of the sites after them

input   == <<program, couplings, distances>>
routing == <<remaining, ready, siteOf, qubitAt, decay, swaps, initial, events, path>>
output  == <<lowered, deferred, native, device>>
vars    == <<input, pc, pass, routing, output>>

Passes == 7
Nodes  == 1..Len(program)

Operands(n)  == {program[n].qubits[k] : k \in 1..Len(program[n].qubits)}
IsTwoQubit(n) == Len(program[n].qubits) = 2
Coupled(a, b) == {a, b} \in couplings
----------------------------------------------------------------------------
(* build_dag_index and its reversal.                                       *)

\* Node m directly follows node n on the wire of q.
FollowsOn(q, n, m) ==
    /\ n < m /\ q \in Operands(n) \cap Operands(m)
    /\ \A k \in (n + 1)..(m - 1) : q \notin Operands(k)

Follows(n, m) == \E q \in Qubits : FollowsOn(q, n, m)

Successors(p, n) == IF p % 2 = 1 THEN {m \in Nodes : Follows(n, m)}
                                 ELSE {m \in Nodes : Follows(m, n)}

\* Faulty variant: two wires between the same nodes count twice.
IndegreePerWire(p, n) ==
    Cardinality({wire \in Qubits \X Nodes :
                    IF p % 2 = 1 THEN FollowsOn(wire[1], wire[2], n)
                                 ELSE FollowsOn(wire[1], n, wire[2])})

Indegree(p, n) == Cardinality({m \in Nodes : n \in Successors(p, m)})

Injective(layout) == \A q, r \in Qubits : layout[q] = layout[r] => q = r

Layouts == {layout \in [Qubits -> Sites] : Injective(layout)}

Occupants(layout) ==
    [s \in Sites |-> IF \E q \in Qubits : layout[q] = s
                       THEN CHOOSE q \in Qubits : layout[q] = s ELSE Nobody]

\* _all_pairs_distances: hops between two sites, or Unreachable.
Unreachable == Cardinality(Sites)

AllPairsDistances(edges) ==
    LET within[n \in 0..Unreachable] ==
          IF n = 0 THEN {<<s, s>> : s \in Sites}
          ELSE {pair \in Sites \X Sites :
                  \E c \in Sites : /\ <<pair[1], c>> \in within[n - 1]
                                  /\ (c = pair[2] \/ {c, pair[2]} \in edges)}
    IN  [pair \in Sites \X Sites |->
            Cardinality({n \in 0..(Unreachable - 1) : pair \notin within[n]})]

Init ==
    /\ program \in Programs
    /\ couplings \in Topologies
    /\ distances = AllPairsDistances(couplings)
    /\ pc = "route" /\ pass = 1
    /\ initial \in Layouts
    /\ siteOf = initial
    /\ qubitAt = Occupants(initial)
    /\ remaining = [n \in Nodes |-> Indegree(1, n)]
    /\ ready = {n \in Nodes : Indegree(1, n) = 0}
    /\ decay = [s \in Sites |-> 0] /\ swaps = 0
    /\ events = <<>> /\ path = <<initial>>
    /\ lowered = 0 /\ deferred = {} /\ native = <<>> /\ device = <<>>
----------------------------------------------------------------------------
(* One routing pass: _route.                                               *)

Complete == \A n \in Nodes : remaining[n] = -1

\* Faulty variant: two hops are near enough.
ExecutableNearby(n) ==
    IsTwoQubit(n) => distances[<<siteOf[program[n].qubits[1]], siteOf[program[n].qubits[2]]>>] <= 2

Executable(n) == IsTwoQubit(n) => Coupled(siteOf[program[n].qubits[1]], siteOf[program[n].qubits[2]])

SitesOf(n) == [k \in 1..Len(program[n].qubits) |-> siteOf[program[n].qubits[k]]]

Emit(event, layout) ==
    IF pass = Passes
      THEN events' = Append(events, event) /\ path' = Append(path, layout)
      ELSE UNCHANGED <<events, path>>

\* consume: the first executable node leaves the front.
ExecuteNode ==
    /\ pc = "route"
    /\ \E n \in ready :
          /\ Executable(n)
          /\ \A earlier \in ready : Executable(earlier) => n <= earlier
          /\ Emit([kind |-> "node", node |-> n, sites |-> SitesOf(n)], siteOf)
          /\ remaining' = [m \in Nodes |-> IF m = n THEN -1
                                           ELSE IF m \in Successors(pass, n)
                                                  THEN remaining[m] - 1 ELSE remaining[m]]
          /\ ready' = (ready \ {n}) \cup {m \in Successors(pass, n) : remaining[m] = 1}
    /\ UNCHANGED <<input, pc, pass, siteOf, qubitAt, decay, swaps, initial, output>>

Blocked == pc = "route" /\ ~Complete /\ \A n \in ready : ~Executable(n)

FrontSites == {siteOf[q] : q \in UNION {Operands(n) : n \in ready}}
Candidates == {edge \in couplings : edge \cap FrontSites # {}}

\* _extended_set, for programs below its limit of twenty nodes.
Extended ==
    LET below[n \in 0..Len(program)] ==
           IF n = 0 THEN UNION {Successors(pass, m) : m \in ready}
           ELSE below[n - 1] \cup UNION {Successors(pass, m) : m \in below[n - 1]}
    IN  {n \in below[Len(program)] : IsTwoQubit(n)}

Other(edge, s) == CHOOSE t \in edge : t # s

Exchange(edge, layout) ==
    [q \in Qubits |-> IF layout[q] \in edge THEN Other(edge, layout[q]) ELSE layout[q]]

Hops(layout, n) ==
    distances[<<layout[program[n].qubits[1]], layout[program[n].qubits[2]]>>]

TotalHops(layout, nodes) == MapThenSumSet(LAMBDA n : Hops(layout, n), nodes)

\* _swap_score times 2000 |front| |extended|, given the extended set.
Score(edge, extended) ==
    LET moved  == Exchange(edge, siteOf)
        spread == IF extended = {} THEN 1 ELSE Cardinality(extended)
    IN  (2 * spread * TotalHops(moved, ready) + Cardinality(ready) * TotalHops(moved, extended))
           * (1000 + (CHOOSE d \in {decay[s] : s \in edge} : \A s \in edge : decay[s] <= d))

\* The scores of all candidates are infinite together, or none is.
OutOfReach ==
    \/ Candidates = {}
    \/ \E n \in ready \cup Extended : Hops(siteOf, n) = Unreachable

Cheapest ==
    LET extended == Extended
        score == [edge \in Candidates |-> Score(edge, extended)]
    IN  {edge \in Candidates : \A other \in Candidates : score[edge] <= score[other]}

GiveUp ==
    /\ Blocked
    /\ OutOfReach
    /\ pc' = "unreachable"
    /\ UNCHANGED <<input, pass, routing, output>>

MaxSwaps == Len(program) * Cardinality(Sites) * 10

\* Faulty variant: an empty site's partner keeps its entry.
ApplySwapSkippingEmpty(edge) ==
    /\ siteOf' = Exchange(edge, siteOf)
    /\ qubitAt' = IF \E s \in edge : qubitAt[s] = Nobody THEN qubitAt
                  ELSE [s \in Sites |-> qubitAt[IF s \in edge THEN Other(edge, s) ELSE s]]

\* _apply_swap: each map is updated from the occupants of the two sites.
ApplySwap(edge) ==
    /\ qubitAt' = [s \in Sites |-> qubitAt[IF s \in edge THEN Other(edge, s) ELSE s]]
    /\ siteOf' = [q \in Qubits |->
                     IF \E s \in edge : qubitAt[s] = q
                       THEN CHOOSE t \in edge : qubitAt[t] # q ELSE siteOf[q]]

InsertSwap ==
    /\ Blocked
    /\ ~OutOfReach
    /\ \E edge \in Cheapest :
          /\ ApplySwap(edge)
          /\ Emit([kind |-> "swap", node |-> 0, sites |-> edge], siteOf')
          /\ decay' = [s \in Sites |-> IF s \in edge THEN decay[s] + 1 ELSE decay[s]]
    /\ swaps' = swaps + 1
    /\ pc' = IF swaps + 1 > MaxSwaps THEN "diverged" ELSE "route"
    /\ UNCHANGED <<input, pass, remaining, ready, initial, output>>

\* Faulty variant: the reversed pass keeps the forward indegrees.
NextPassForwardIndegree ==
    /\ pc = "route" /\ Complete
    /\ pass < Passes
    /\ pass' = pass + 1
    /\ initial' = siteOf /\ path' = <<siteOf>>
    /\ qubitAt' = Occupants(siteOf)
    /\ remaining' = [n \in Nodes |-> Indegree(1, n)]
    /\ ready' = {n \in Nodes : Indegree(1, n) = 0}
    /\ decay' = [s \in Sites |-> 0] /\ swaps' = 0
    /\ UNCHANGED <<input, pc, siteOf, events, output>>

\* Faulty variant: one pass too many.
NextPassOnceMore ==
    /\ pc = "route" /\ Complete
    /\ pass <= Passes
    /\ pass' = pass + 1
    /\ initial' = siteOf /\ path' = <<siteOf>>
    /\ qubitAt' = Occupants(siteOf)
    /\ remaining' = [n \in Nodes |-> Indegree(pass + 1, n)]
    /\ ready' = {n \in Nodes : Indegree(pass + 1, n) = 0}
    /\ decay' = [s \in Sites |-> 0] /\ swaps' = 0
    /\ UNCHANGED <<input, pc, siteOf, events, output>>

\* sabre_map: the next pass starts from a copy of the layout reached.
NextPass ==
    /\ pc = "route" /\ Complete
    /\ pass < Passes
    /\ pass' = pass + 1
    /\ initial' = siteOf /\ path' = <<siteOf>>
    /\ qubitAt' = Occupants(siteOf)
    /\ remaining' = [n \in Nodes |-> Indegree(pass + 1, n)]
    /\ ready' = {n \in Nodes : Indegree(pass + 1, n) = 0}
    /\ decay' = [s \in Sites |-> 0] /\ swaps' = 0
    /\ UNCHANGED <<input, pc, siteOf, events, output>>

EndRouting ==
    /\ pc = "route" /\ Complete
    /\ pass = Passes
    /\ pc' = "lower"
    /\ device' = [s \in Sites |-> [of |-> Occupants(initial)[s], nodes |-> <<>>]]
    /\ UNCHANGED <<input, pass, routing, lowered, deferred, native>>
----------------------------------------------------------------------------
(* _lower_events.  A content is the qubit on a site and its nodes so far.  *)

Run(op, contents) ==
    IF op.kind = "swap"
      THEN [s \in Sites |-> contents[IF s \in op.sites THEN Other(op.sites, s) ELSE s]]
      ELSE [s \in Sites |-> IF \E j \in 1..Len(op.sites) : op.sites[j] = s
                              THEN [of    |-> contents[s].of,
                                    nodes |-> Append(contents[s].nodes, op.node)]
                              ELSE contents[s]]

Issue(op) == native' = Append(native, op) /\ device' = Run(op, device)

LowerEvent ==
    /\ pc = "lower" /\ lowered < Len(events)
    /\ LET event == events[lowered + 1] IN
       IF event.kind = "node" /\ program[event.node].measures
         THEN deferred' = deferred \cup {event.node} /\ UNCHANGED <<native, device>>
         ELSE Issue(event) /\ UNCHANGED deferred
    /\ lowered' = lowered + 1
    /\ UNCHANGED <<input, pc, pass, routing>>

\* Faulty variant: a measurement stays on the site it was routed to.
EmitMeasurementInPlace ==
    /\ pc = "lower" /\ lowered = Len(events)
    /\ \E n \in deferred :
          /\ \A other \in deferred : n <= other
          /\ Issue([kind |-> "measure", node |-> n,
                    sites |-> (CHOOSE e \in {events[j] : j \in 1..Len(events)} : e.node = n).sites])
          /\ deferred' = deferred \ {n}
    /\ UNCHANGED <<input, pc, pass, routing, lowered>>

EmitMeasurement ==
    /\ pc = "lower" /\ lowered = Len(events)
    /\ \E n \in deferred :
          /\ \A other \in deferred : n <= other
          /\ Issue([kind |-> "measure", node |-> n, sites |-> SitesOf(n)])
          /\ deferred' = deferred \ {n}
    /\ UNCHANGED <<input, pc, pass, routing, lowered>>

EndLowering ==
    /\ pc = "lower" /\ lowered = Len(events)
    /\ deferred = {}
    /\ pc' = "done"
    /\ UNCHANGED <<input, pass, routing, output>>

Next ==
    \/ ExecuteNode \/ GiveUp \/ InsertSwap \/ NextPass \/ EndRouting
    \/ LowerEvent \/ EmitMeasurement \/ EndLowering

Spec == Init /\ [][Next]_vars

\* sabre_map and the lowering are sequential code.
FairSpec == Spec /\ WF_vars(Next)
----------------------------------------------------------------------------
(* Properties.                                                             *)

RoutedEvents ==
    [kind : {"node"}, node : Nodes, sites : Seq(Sites)]
       \cup [kind : {"swap"}, node : {0}, sites : SUBSET Sites]

NativeOperations ==
    RoutedEvents \cup [kind : {"measure"}, node : Nodes, sites : Seq(Sites)]

TypeOK ==
    /\ program \in Programs /\ couplings \in Topologies
    /\ pc \in {"route", "lower", "done", "unreachable", "diverged"}
    /\ pass \in 1..Passes
    /\ distances \in [Sites \X Sites -> 0..Unreachable]
    /\ remaining \in [Nodes -> -1..Len(program)]
    /\ ready \subseteq Nodes
    /\ siteOf \in [Qubits -> Sites]
    /\ qubitAt \in [Sites -> Qubits \cup {Nobody}]
    /\ decay \in [Sites -> Nat] /\ swaps \in Nat
    /\ initial \in [Qubits -> Sites]
    /\ events \in Seq(RoutedEvents) /\ path \in Seq([Qubits -> Sites])
    /\ lowered \in 0..Len(events) /\ deferred \subseteq Nodes
    /\ native \in Seq(NativeOperations)

(* The two layout maps stay inverse to one another through every swap of   *)
(* every pass, swaps with an empty site included: no two qubits share a    *)
(* site and none is lost (sabre.py:362-374).                               *)
LayoutsInverse ==
    /\ \A q \in Qubits : qubitAt[siteOf[q]] = q
    /\ \A s \in Sites : qubitAt[s] # Nobody => siteOf[qubitAt[s]] = s

(* A node is ready exactly when all its wire predecessors, in the running  *)
(* direction, have been consumed and it has not (sc_dag.py:35-65).         *)
ReadyExact ==
    \A n \in Nodes :
       n \in ready <=> /\ remaining[n] # -1
                       /\ \A m \in Nodes : n \in Successors(pass, m) => remaining[m] = -1

\* A list of nodes holds the members of a set, each once and in order.
Lists(nodes, S) ==
    /\ {nodes[k] : k \in 1..Len(nodes)} = S
    /\ \A j, k \in 1..Len(nodes) : j < k => nodes[j] < nodes[k]

(* The native program, run on the device from the reported initial layout, *)
(* does to every logical qubit exactly what its wire says, in order, and   *)
(* leaves it on the site the reported final layout names: across all       *)
(* inserted SWAPs and for measurements deferred past later SWAPs           *)
(* (sc_target.py:131-186).                                                 *)
NativeExecutesSource ==
    pc = "done" =>
       \A q \in Qubits :
          /\ device[siteOf[q]].of = q
          /\ Lists(device[siteOf[q]].nodes, {n \in Nodes : q \in Operands(n)})

(* Every emitted two-site operation is on a coupling of the device, which  *)
(* is what _verify_against_target checks after the fact.                   *)
OnCouplings ==
    \A k \in 1..Len(native) :
       /\ native[k].kind = "swap" => native[k].sites \in couplings
       /\ native[k].kind # "swap" /\ Len(native[k].sites) = 2
             => Coupled(native[k].sites[1], native[k].sites[2])

(* The routed program is well formed, executes its source and fits the     *)
(* device.                                                                 *)
RoutedFaithfully == TypeOK /\ NativeExecutesSource /\ OnCouplings

Connected == \A pair \in Sites \X Sites : distances[pair] < Unreachable

(* On a connected device mapping succeeds, from every initial layout and   *)
(* for every resolution of ties: neither error of _route is raised.        *)
MapsWhenConnected == Connected => <>(pc = "done")
=============================================================================
