------------------------ MODULE SabreRouting_proofs ------------------------
(***************************************************************************)
(* Proofs about SabreRouting, for every program, device, initial layout    *)
(* and resolution of ties: the two layout maps stay inverse to each other, *)
(* and the cursor hands out exactly the nodes whose predecessors are done. *)
(***************************************************************************)
EXTENDS SabreRouting, FiniteSetTheorems, WellFoundedInduction, TLAPS

\* The layout maps, and the couplings swaps are taken from.
LayoutInv ==
    /\ couplings \in Topologies
    /\ siteOf \in [Qubits -> Sites]
    /\ qubitAt \in [Sites -> Qubits \cup {Nobody}]
    /\ LayoutsInverse

(* What the swap of two sites does to the maps, empty sites included       *)
(* (_apply_swap).                                                          *)
LEMMA SwapKeepsInverse ==
    ASSUME LayoutInv, NEW edge \in couplings, ApplySwap(edge)
    PROVE  /\ siteOf' \in [Qubits -> Sites]
           /\ qubitAt' \in [Sites -> Qubits \cup {Nobody}]
           /\ LayoutsInverse'
<1>1. PICK a \in Sites, b \in Sites : a # b /\ edge = {a, b}
    BY RoutingAssumption DEF LayoutInv
<1>2. (CHOOSE t \in edge : t # a) = b /\ (CHOOSE t \in edge : t # b) = a
    BY <1>1
<1>. USE DEF Other
<1>3. qubitAt' = [s \in Sites |-> IF s = a THEN qubitAt[b]
                                  ELSE IF s = b THEN qubitAt[a] ELSE qubitAt[s]]
    BY <1>1, <1>2 DEF ApplySwap
<1>4. ASSUME NEW q \in Qubits PROVE qubitAt[a] = q => qubitAt[b] # q
    BY <1>1, RoutingAssumption DEF LayoutInv, LayoutsInverse
<1>5. ASSUME NEW q \in Qubits
      PROVE  siteOf'[q] = IF qubitAt[a] = q THEN b
                          ELSE IF qubitAt[b] = q THEN a ELSE siteOf[q]
  <2>1. CASE qubitAt[a] = q
      BY <2>1, <1>1, <1>4 DEF ApplySwap
  <2>2. CASE qubitAt[b] = q
      BY <2>2, <1>1, <1>4 DEF ApplySwap
  <2>3. CASE qubitAt[a] # q /\ qubitAt[b] # q
      BY <2>3, <1>1 DEF ApplySwap
  <2>. QED BY <2>1, <2>2, <2>3, <1>4
<1>6. siteOf' \in [Qubits -> Sites]
  <2>1. siteOf' = [q \in Qubits |-> siteOf'[q]]
      BY DEF ApplySwap
  <2>. QED BY <2>1, <1>5, <1>1 DEF LayoutInv
<1>7. qubitAt' \in [Sites -> Qubits \cup {Nobody}]
    BY <1>3, <1>1 DEF LayoutInv
<1>8. ASSUME NEW q \in Qubits PROVE qubitAt'[siteOf'[q]] = q
    BY <1>1, <1>3, <1>4, <1>5 DEF LayoutInv, LayoutsInverse
<1>9. ASSUME NEW s \in Sites, qubitAt'[s] # Nobody PROVE siteOf'[qubitAt'[s]] = s
  <2>1. qubitAt'[s] \in Qubits
      BY <1>7, <1>9
  <2>. QED BY <2>1, <1>1, <1>3, <1>4, <1>5, <1>9 DEF LayoutInv, LayoutsInverse
<1>. QED BY <1>6, <1>7, <1>8, <1>9 DEF LayoutsInverse

LEMMA OccupantsInvert ==
    ASSUME NEW layout \in [Qubits -> Sites],
           Injective(layout)
    PROVE  /\ Occupants(layout) \in [Sites -> Qubits \cup {Nobody}]
           /\ \A q \in Qubits : Occupants(layout)[layout[q]] = q
           /\ \A s \in Sites : Occupants(layout)[s] # Nobody => layout[Occupants(layout)[s]] = s
BY RoutingAssumption DEF Occupants, Injective

LEMMA InitLayout == Init => LayoutInv
<1>. SUFFICES ASSUME Init PROVE LayoutInv
    OBVIOUS
<1>1. siteOf \in [Qubits -> Sites] /\ Injective(siteOf)
    BY DEF Init, Layouts
<1>. QED BY <1>1, OccupantsInvert DEF Init, LayoutInv, LayoutsInverse

LEMMA NextLayout == LayoutInv /\ [Next]_vars => LayoutInv'
<1>. SUFFICES ASSUME LayoutInv, [Next]_vars PROVE LayoutInv'
    OBVIOUS
<1>. USE DEF LayoutInv, LayoutsInverse
<1>1. CASE InsertSwap
  <2>1. PICK edge \in Cheapest : ApplySwap(edge)
      BY <1>1 DEF InsertSwap
  <2>2. edge \in couplings
      BY <2>1 DEF Cheapest, Candidates
  <2>3. couplings' = couplings
      BY <1>1 DEF InsertSwap, input
  <2>. QED BY <2>1, <2>2, <2>3, SwapKeepsInverse
<1>2. CASE NextPass
  <2>1. siteOf' = siteOf /\ qubitAt' = Occupants(siteOf) /\ couplings' = couplings
      BY <1>2 DEF NextPass, input
  <2>2. Injective(siteOf)
      BY DEF Injective
  <2>. QED BY <2>1, <2>2, OccupantsInvert
<1>3. CASE ExecuteNode
    BY <1>3 DEF ExecuteNode, input
<1>4. CASE GiveUp
    BY <1>4 DEF GiveUp, input, routing
<1>5. CASE EndRouting
    BY <1>5 DEF EndRouting, input, routing
<1>6. CASE LowerEvent
    BY <1>6 DEF LowerEvent, input, routing
<1>7. CASE EmitMeasurement
    BY <1>7 DEF EmitMeasurement, input, routing
<1>8. CASE EndLowering
    BY <1>8 DEF EndLowering, input, routing
<1>9. CASE UNCHANGED vars
    BY <1>9 DEF vars, input, routing
<1>. QED BY <1>1, <1>2, <1>3, <1>4, <1>5, <1>6, <1>7, <1>8, <1>9 DEF Next

(* On every device and from every initial layout, no swap of any pass      *)
(* makes the two maps disagree (sabre.py:362-374).                         *)
THEOREM LayoutsStayInverse == Spec => []LayoutsInverse
<1>1. LayoutInv => LayoutsInverse
    BY DEF LayoutInv
<1>. QED BY InitLayout, NextLayout, <1>1, PTL DEF Spec
----------------------------------------------------------------------------
\* The predecessors a node still waits for, in the running direction.
Waiting(n) == {m \in Nodes : n \in Successors(pass, m) /\ remaining[m] # -1}

\* The cursor's counters count them; a consumed node waits for nothing.
CursorInv ==
    /\ program \in Programs /\ pass \in Int
    /\ remaining \in [Nodes -> Int]
    /\ \A n \in Nodes : remaining[n] # -1 => remaining[n] = Cardinality(Waiting(n))
    /\ \A n \in Nodes : remaining[n] = -1 => Waiting(n) = {}
    /\ ready = {n \in Nodes : remaining[n] = 0}

LEMMA NodesFinite == program \in Programs => IsFiniteSet(Nodes)
<1>1. program \in Programs => Len(program) \in Int
    BY RoutingAssumption
<1>. QED BY <1>1, FS_Interval DEF Nodes

LEMMA WaitingCount ==
    ASSUME CursorInv, NEW n \in Nodes
    PROVE  /\ IsFiniteSet(Waiting(n)) /\ Cardinality(Waiting(n)) \in Nat
           /\ Cardinality(Waiting(n)) = 0 <=> Waiting(n) = {}
<1>1. IsFiniteSet(Waiting(n))
    BY NodesFinite, FS_Subset DEF Waiting, CursorInv
<1>. QED BY <1>1, FS_CardinalityType, FS_EmptySet

\* No node follows itself on a wire.
LEMMA NoSelfWait == \A n \in Nodes : n \notin Successors(pass, n)
BY RoutingAssumption DEF Successors, Follows, FollowsOn, Nodes

\* An indegree is a count, never the mark of a consumed node.
LEMMA IndegreeIsCount ==
    ASSUME program \in Programs, NEW p \in Int
    PROVE  \A n \in Nodes : Indegree(p, n) \in Nat /\ Indegree(p, n) # -1
BY NodesFinite, FS_Subset, FS_CardinalityType DEF Indegree

LEMMA InitCursor == Init => CursorInv
<1>. SUFFICES ASSUME Init PROVE CursorInv
    OBVIOUS
<1>1. /\ program \in Programs /\ pass = 1
      /\ remaining = [n \in Nodes |-> Indegree(1, n)]
      /\ ready = {n \in Nodes : Indegree(1, n) = 0}
    BY DEF Init
<1>2. \A n \in Nodes : remaining[n] \in Nat /\ remaining[n] # -1
    BY <1>1, IndegreeIsCount
<1>3. \A n \in Nodes : Waiting(n) = {m \in Nodes : n \in Successors(1, m)}
    BY <1>1, <1>2 DEF Waiting
<1>. QED BY <1>1, <1>2, <1>3 DEF CursorInv, Indegree

\* Consuming a ready node marks it, and every successor still counted it.
LEMMA Consumption ==
    ASSUME CursorInv, ExecuteNode
    PROVE  \E n \in Nodes :
              /\ remaining[n] = 0 /\ Waiting(n) = {} /\ Executable(n)
              /\ Emit([kind |-> "node", node |-> n, sites |-> SitesOf(n)], siteOf)
              /\ remaining' = [m \in Nodes |-> IF m = n THEN -1
                                               ELSE IF m \in Successors(pass, n)
                                                      THEN remaining[m] - 1 ELSE remaining[m]]
              /\ ready' = (ready \ {n}) \cup {m \in Successors(pass, n) : remaining[m] = 1}
              /\ n \notin Successors(pass, n) /\ Successors(pass, n) \subseteq Nodes
              /\ \A m \in Successors(pass, n) :
                    n \in Waiting(m) /\ remaining[m] \in Nat /\ remaining[m] >= 1
              /\ \A m \in Nodes : remaining'[m] = -1 <=> m = n \/ remaining[m] = -1
<1>1. PICK n \in ready :
         /\ Executable(n)
         /\ Emit([kind |-> "node", node |-> n, sites |-> SitesOf(n)], siteOf)
         /\ remaining' = [m \in Nodes |-> IF m = n THEN -1
                                          ELSE IF m \in Successors(pass, n)
                                                 THEN remaining[m] - 1 ELSE remaining[m]]
         /\ ready' = (ready \ {n}) \cup {m \in Successors(pass, n) : remaining[m] = 1}
    BY DEF ExecuteNode
<1>2. n \in Nodes /\ remaining[n] = 0 /\ Waiting(n) = {}
    BY WaitingCount DEF CursorInv
<1>3. Successors(pass, n) \subseteq Nodes /\ n \notin Successors(pass, n)
    BY <1>2, NoSelfWait DEF Successors
<1>4. ASSUME NEW m \in Successors(pass, n)
      PROVE  n \in Waiting(m) /\ remaining[m] \in Nat /\ remaining[m] >= 1
  <2>1. m \in Nodes /\ n \in Waiting(m)
      BY <1>2, <1>3 DEF Waiting
  <2>2. Cardinality(Waiting(m)) \in Nat /\ Cardinality(Waiting(m)) # 0
      BY <2>1, WaitingCount
  <2>. QED BY <2>1, <2>2 DEF CursorInv
<1>5. \A m \in Nodes : remaining'[m] = -1 <=> m = n \/ remaining[m] = -1
    BY <1>1, <1>4 DEF CursorInv
<1>. QED BY <1>1, <1>2, <1>3, <1>4, <1>5

(* The waiting sets lose the consumed node, and the counters stay counts   *)
(* of them (DAGCursor.consume).                                            *)
LEMMA ConsumeKeepsCursor == CursorInv /\ ExecuteNode => CursorInv'
<1>. SUFFICES ASSUME CursorInv, ExecuteNode PROVE CursorInv'
    OBVIOUS
<1>1. program' = program /\ pass' = pass
    BY DEF ExecuteNode, input
<1>2. Nodes' = Nodes /\ \A m : Successors(pass, m)' = Successors(pass, m)
    BY <1>1 DEF Nodes, Successors, Follows, FollowsOn, Operands
<1>3. PICK n \in Nodes :
         /\ remaining[n] = 0 /\ Waiting(n) = {}
         /\ remaining' = [m \in Nodes |-> IF m = n THEN -1
                                          ELSE IF m \in Successors(pass, n)
                                                 THEN remaining[m] - 1 ELSE remaining[m]]
         /\ ready' = (ready \ {n}) \cup {m \in Successors(pass, n) : remaining[m] = 1}
         /\ n \notin Successors(pass, n) /\ Successors(pass, n) \subseteq Nodes
         /\ \A m \in Successors(pass, n) :
               n \in Waiting(m) /\ remaining[m] \in Nat /\ remaining[m] >= 1
         /\ \A m \in Nodes : remaining'[m] = -1 <=> m = n \/ remaining[m] = -1
    BY Consumption
<1>4. \A m \in Nodes : Waiting(m)' = Waiting(m) \ {n}
    BY <1>1, <1>2, <1>3 DEF Waiting
<1>5. ASSUME NEW m \in Nodes
      PROVE  /\ remaining'[m] # -1 => remaining'[m] = Cardinality(Waiting(m)')
             /\ remaining'[m] = -1 => Waiting(m)' = {}
  <2>1. Cardinality(Waiting(m) \ {n}) =
           IF n \in Waiting(m) THEN Cardinality(Waiting(m)) - 1 ELSE Cardinality(Waiting(m))
      BY WaitingCount, FS_RemoveElement
  <2>2. CASE m = n
      BY <2>2, <1>3, <1>4
  <2>3. CASE m \in Successors(pass, n)
    <3>1. remaining'[m] = remaining[m] - 1 /\ remaining'[m] # -1
        BY <2>3, <1>3
    <3>2. remaining[m] = Cardinality(Waiting(m))
        BY <2>3, <1>3 DEF CursorInv
    <3>. QED BY <2>1, <2>3, <3>1, <3>2, <1>3, <1>4
  <2>4. CASE m # n /\ m \notin Successors(pass, n)
    <3>1. n \notin Waiting(m)
        BY <2>4 DEF Waiting
    <3>. QED BY <3>1, <2>1, <2>4, <1>3, <1>4 DEF CursorInv
  <2>. QED BY <2>2, <2>3, <2>4
<1>6. remaining' \in [Nodes -> Int]
    BY <1>3 DEF CursorInv
<1>7. ready' = {m \in Nodes : remaining'[m] = 0}
    BY <1>3 DEF CursorInv
<1>. QED BY <1>1, <1>2, <1>5, <1>6, <1>7 DEF CursorInv

LEMMA NextCursor == CursorInv /\ [Next]_vars => CursorInv'
<1>. SUFFICES ASSUME CursorInv, [Next]_vars PROVE CursorInv'
    OBVIOUS
<1>1. CASE UNCHANGED <<program, pass, remaining, ready>>
  <2>1. Nodes' = Nodes /\ \A m \in Nodes : Waiting(m)' = Waiting(m)
      BY <1>1 DEF Nodes, Waiting, Successors, Follows, FollowsOn, Operands
  <2>. QED BY <2>1, <1>1 DEF CursorInv
<1>2. CASE NextPass
  <2>1. /\ program' = program /\ pass' = pass + 1 /\ pass + 1 \in Int
        /\ remaining' = [n \in Nodes |-> Indegree(pass + 1, n)]
        /\ ready' = {n \in Nodes : Indegree(pass + 1, n) = 0}
      BY <1>2 DEF NextPass, input, CursorInv
  <2>2. Nodes' = Nodes /\ \A m : Successors(pass, m)' = Successors(pass + 1, m)
      BY <2>1 DEF Nodes, Successors, Follows, FollowsOn, Operands
  <2>3. \A n \in Nodes : remaining'[n] \in Nat /\ remaining'[n] # -1
      BY <2>1, IndegreeIsCount DEF CursorInv
  <2>4. \A n \in Nodes : Waiting(n)' = {m \in Nodes : n \in Successors(pass + 1, m)}
      BY <2>2, <2>3 DEF Waiting
  <2>. QED BY <2>1, <2>2, <2>3, <2>4 DEF CursorInv, Indegree
<1>3. CASE ExecuteNode
    BY <1>3, ConsumeKeepsCursor
<1>4. CASE InsertSwap
    BY <1>4, <1>1 DEF InsertSwap, input
<1>5. CASE GiveUp
    BY <1>5, <1>1 DEF GiveUp, input, routing
<1>6. CASE EndRouting
    BY <1>6, <1>1 DEF EndRouting, input, routing
<1>7. CASE LowerEvent
    BY <1>7, <1>1 DEF LowerEvent, input, routing
<1>8. CASE EmitMeasurement
    BY <1>8, <1>1 DEF EmitMeasurement, input, routing
<1>9. CASE EndLowering
    BY <1>9, <1>1 DEF EndLowering, input, routing
<1>10. CASE UNCHANGED vars
    BY <1>10, <1>1 DEF vars, input, routing
<1>. QED BY <1>2, <1>3, <1>4, <1>5, <1>6, <1>7, <1>8, <1>9, <1>10 DEF Next

(* Whatever the program, and in both directions, the cursor offers a node  *)
(* exactly when it is unconsumed and all its wire predecessors are         *)
(* consumed (sc_dag.py:35-65): no node runs early and none is stranded.    *)
THEOREM CursorIsExact == Spec => []ReadyExact
<1>1. CursorInv => ReadyExact
  <2>. SUFFICES ASSUME CursorInv, NEW n \in Nodes
                PROVE n \in ready <=>
                        /\ remaining[n] # -1
                        /\ \A m \in Nodes : n \in Successors(pass, m) => remaining[m] = -1
      BY DEF ReadyExact
  <2>1. Waiting(n) = {} <=> \A m \in Nodes : n \in Successors(pass, m) => remaining[m] = -1
      BY DEF Waiting
  <2>. QED BY <2>1, WaitingCount DEF CursorInv
<1>. QED BY InitCursor, NextCursor, <1>1, PTL DEF Spec
----------------------------------------------------------------------------
\* Event e leads from one layout to the next, where the device allows it.
Leads(e, before, after) ==
    \/ /\ e.kind = "node" /\ e.node \in Nodes
       /\ e.sites = [k \in 1..Len(program[e.node].qubits) |-> before[program[e.node].qubits[k]]]
       /\ IsTwoQubit(e.node) => Coupled(e.sites[1], e.sites[2])
       /\ after = before
    \/ /\ e.kind = "swap" /\ e.node = 0
       /\ e.sites \in couplings
       /\ after = Exchange(e.sites, before)

PathInv ==
    /\ pass \in 1..Passes
    /\ events \in Seq(RoutedEvents) /\ path \in Seq(Layouts)
    /\ Len(path) = Len(events) + 1
    /\ path[1] = initial
    /\ \A k \in 1..Len(events) : Leads(events[k], path[k], path[k + 1])
    /\ pass = Passes => path[Len(path)] = siteOf
    /\ pass # Passes => events = <<>>

\* The nodes of the first k events.
Emitted(k) == {events[j].node : j \in 1..k} \cap Nodes

Sharing(n, m) == \E q \in Qubits : q \in Operands(n) \cap Operands(m)

\* The last pass consumes every wire from its start, and emits it so.
OrderInv ==
    /\ pass = Passes => Emitted(Len(events)) = {n \in Nodes : remaining[n] = -1}
    /\ pass = Passes =>
          \A n, m \in Nodes : n < m /\ Sharing(n, m) /\ remaining[m] = -1 => remaining[n] = -1
    /\ \A j, k \in 1..Len(events) :
          /\ j < k /\ events[j].node \in Nodes /\ events[k].node \in Nodes
          /\ Sharing(events[j].node, events[k].node)
          => events[j].node < events[k].node

\* A content is of qubit q, with the nodes of S on its wire.
Holds(content, q, S) ==
    /\ content.of = q /\ content.nodes \in Seq(Nodes)
    /\ Lists(content.nodes, {n \in S : q \in Operands(n)})

\* After some events and measurements, the site that holds a qubit holds
\* the nodes of its wire emitted so far, without those still deferred.
DeviceInv ==
    /\ lowered \in 0..Len(events)
    /\ pc \notin {"lower", "done"} => lowered = 0 /\ deferred = {} /\ native = <<>>
    /\ pc \in {"lower", "done"} =>
          /\ Complete /\ pass = Passes
          /\ deferred \subseteq {n \in Emitted(lowered) : program[n].measures}
          /\ \A q \in Qubits :
                Holds(device[path[lowered + 1][q]], q, Emitted(lowered) \ deferred)
    /\ pc = "done" => lowered = Len(events) /\ deferred = {}
    /\ native \in Seq(NativeOperations) /\ OnCouplings
----------------------------------------------------------------------------
\* What verify_sc_program grants of a node.
LEMMA NodeShape ==
    ASSUME program \in Programs, NEW n \in Nodes
    PROVE  /\ Len(program) \in Nat /\ n \in Nat /\ n # 0
           /\ program[n].qubits \in Seq(Qubits)
           /\ Operands(n) \subseteq Qubits /\ Operands(n) # {}
           /\ Len(program[n].qubits) = 1 \/ Len(program[n].qubits) = 2
<1>1. Len(program) \in Nat /\ WellFormed(program)
    BY RoutingAssumption
<1>2. n \in Nat /\ n # 0 /\ n \in 1..Len(program)
    BY <1>1 DEF Nodes
<1>3. /\ program[n].qubits \in Seq(Qubits)
      /\ Len(program[n].qubits) = 1 \/ Len(program[n].qubits) = 2
    BY <1>1, <1>2 DEF WellFormed
<1>4. \A k \in 1..Len(program[n].qubits) : program[n].qubits[k] \in Qubits
    BY <1>3
<1>5. 1 \in 1..Len(program[n].qubits)
  <2>1. Len(program[n].qubits) \in Nat /\ Len(program[n].qubits) >= 1
      BY <1>3
  <2>. QED BY <2>1
<1>. QED BY <1>1, <1>2, <1>3, <1>4, <1>5 DEF Operands

\* A measurement acts on one qubit, and is the last node on its wire.
LEMMA MeasurementsEndWires ==
    ASSUME program \in Programs,
           NEW n \in Nodes, program[n].measures,
           NEW m \in Nodes, Sharing(n, m)
    PROVE  m <= n
<1>1. Len(program) \in Nat /\ WellFormed(program)
    BY RoutingAssumption
<1>2. n \in 1..Len(program) /\ m \in 1..Len(program)
    BY DEF Nodes
<1>3. PICK q \in Qubits : q \in Operands(n) /\ q \in Operands(m)
    BY DEF Sharing
<1>4. /\ Len(program[n].qubits) = 1
      /\ \A o \in (n + 1)..Len(program) :
            \A k \in 1..Len(program[o].qubits) : program[o].qubits[k] # program[n].qubits[1]
    BY <1>1, <1>2 DEF WellFormed
<1>5. q = program[n].qubits[1]
    BY <1>3, <1>4 DEF Operands
<1>6. PICK k \in 1..Len(program[m].qubits) : program[m].qubits[k] = q
    BY <1>3 DEF Operands
<1>7. m \notin (n + 1)..Len(program)
    BY <1>4, <1>5, <1>6
<1>. QED BY <1>1, <1>2, <1>7

(* Exchanging two sites keeps qubits apart, and the qubit found on a site  *)
(* afterwards is the one that was on the other.                            *)
LEMMA ExchangeKeepsLayouts ==
    ASSUME couplings \in Topologies, NEW edge \in couplings, NEW layout \in Layouts
    PROVE  Exchange(edge, layout) \in Layouts
<1>1. PICK a \in Sites, b \in Sites : a # b /\ edge = {a, b}
    BY RoutingAssumption
<1>2. Other(edge, a) = b /\ Other(edge, b) = a
    BY <1>1 DEF Other
<1>3. layout \in [Qubits -> Sites] /\ Injective(layout)
    BY DEF Layouts
<1>4. Exchange(edge, layout) \in [Qubits -> Sites]
    BY <1>1, <1>2, <1>3 DEF Exchange
<1>5. Injective(Exchange(edge, layout))
    BY <1>1, <1>2, <1>3 DEF Exchange, Injective
<1>. QED BY <1>4, <1>5 DEF Layouts

\* A native swap moves contents as the exchange moves qubits.
LEMMA SwapMovesContents ==
    ASSUME couplings \in Topologies, NEW op, op.kind = "swap", op.sites \in couplings,
           NEW layout \in Layouts, NEW contents, NEW q \in Qubits
    PROVE  Run(op, contents)[Exchange(op.sites, layout)[q]] = contents[layout[q]]
<1>1. PICK a \in Sites, b \in Sites : a # b /\ op.sites = {a, b}
    BY RoutingAssumption
<1>2. Other(op.sites, a) = b /\ Other(op.sites, b) = a
    BY <1>1 DEF Other
<1>3. layout[q] \in Sites
    BY DEF Layouts
<1>4. Exchange(op.sites, layout)[q] =
         IF layout[q] = a THEN b ELSE IF layout[q] = b THEN a ELSE layout[q]
    BY <1>1, <1>2 DEF Exchange
<1>5. ASSUME NEW s \in Sites
      PROVE  Run(op, contents)[s] =
                contents[IF s = a THEN b ELSE IF s = b THEN a ELSE s]
    BY <1>1, <1>2 DEF Run
<1>6. CASE layout[q] = a
    BY <1>1, <1>4, <1>5, <1>6
<1>7. CASE layout[q] = b
    BY <1>1, <1>4, <1>5, <1>7
<1>8. CASE layout[q] # a /\ layout[q] # b
    BY <1>3, <1>4, <1>5, <1>8
<1>. QED BY <1>6, <1>7, <1>8

\* The sites a layout gives the operands of a node.
Placed(n, layout) == [k \in 1..Len(program[n].qubits) |-> layout[program[n].qubits[k]]]

\* Any other operation adds its node to its operands' contents and no other.
LEMMA NodeJoinsContents ==
    ASSUME program \in Programs, NEW n \in Nodes,
           NEW layout \in Layouts, NEW op, op.kind # "swap", op.node = n,
           op.sites = Placed(n, layout), NEW contents, NEW q \in Qubits
    PROVE  /\ q \in Operands(n) =>
                Run(op, contents)[layout[q]] =
                   [of    |-> contents[layout[q]].of,
                    nodes |-> Append(contents[layout[q]].nodes, n)]
           /\ q \notin Operands(n) => Run(op, contents)[layout[q]] = contents[layout[q]]
<1>1. layout[q] \in Sites /\ Injective(layout)
    BY DEF Layouts
<1>2. program[n].qubits \in Seq(Qubits)
    BY NodeShape
<1>3. DOMAIN op.sites = 1..Len(program[n].qubits) /\ Len(op.sites) = Len(program[n].qubits)
    BY <1>2 DEF Placed
<1>4. (\E j \in 1..Len(op.sites) : op.sites[j] = layout[q]) <=> q \in Operands(n)
    BY <1>1, <1>2, <1>3 DEF Placed, Operands, Injective
<1>. QED BY <1>1, <1>4 DEF Run

LEMMA AppendLists ==
    ASSUME NEW S, NEW T \in SUBSET Int, NEW nodes \in Seq(T), Lists(nodes, S),
           NEW n \in T, \A m \in S : m < n
    PROVE  Append(nodes, n) \in Seq(T) /\ Lists(Append(nodes, n), S \cup {n})
<1>. DEFINE longer == Append(nodes, n)
<1>1. /\ longer \in Seq(T) /\ Len(longer) = Len(nodes) + 1 /\ Len(nodes) \in Nat
      /\ longer[Len(nodes) + 1] = n
      /\ \A k \in 1..Len(nodes) : longer[k] = nodes[k] /\ nodes[k] \in T /\ nodes[k] \in S
    BY DEF Lists
<1>. HIDE DEF longer
<1>2. {longer[k] : k \in 1..Len(longer)} = S \cup {n}
  <2>1. S = {nodes[k] : k \in 1..Len(nodes)}
      BY DEF Lists
  <2>. QED BY <1>1, <2>1
<1>3. ASSUME NEW j \in 1..Len(longer), NEW k \in 1..Len(longer), j < k
      PROVE  longer[j] < longer[k]
  <2>1. CASE k = Len(nodes) + 1
      BY <2>1, <1>1, <1>3
  <2>2. CASE k # Len(nodes) + 1
      BY <2>2, <1>1, <1>3 DEF Lists
  <2>. QED BY <2>1, <2>2
<1>4. longer \in Seq(T) /\ Lists(longer, S \cup {n})
    BY <1>1, <1>2, <1>3 DEF Lists
<1>. QED BY <1>4 DEF longer
----------------------------------------------------------------------------
(* The path of the last pass.                                              *)

LEMMA LayoutInjective == LayoutInv => siteOf \in Layouts
BY DEF LayoutInv, LayoutsInverse, Layouts, Injective

LEMMA SwapIsExchange ==
    ASSUME LayoutInv, NEW edge \in couplings, ApplySwap(edge)
    PROVE  siteOf' = Exchange(edge, siteOf)
<1>1. PICK a \in Sites, b \in Sites : a # b /\ edge = {a, b}
    BY RoutingAssumption DEF LayoutInv
<1>2. Other(edge, a) = b /\ Other(edge, b) = a
    BY <1>1 DEF Other
<1>3. ASSUME NEW q \in Qubits PROVE siteOf'[q] = Exchange(edge, siteOf)[q]
  <2>1. Exchange(edge, siteOf)[q] =
           IF siteOf[q] = a THEN b ELSE IF siteOf[q] = b THEN a ELSE siteOf[q]
      BY <1>1, <1>2 DEF Exchange
  <2>2. /\ qubitAt[a] = q <=> siteOf[q] = a
        /\ qubitAt[b] = q <=> siteOf[q] = b
      BY <1>1, RoutingAssumption DEF LayoutInv, LayoutsInverse
  <2>3. CASE qubitAt[a] = q
      BY <2>1, <2>2, <2>3, <1>1 DEF ApplySwap
  <2>4. CASE qubitAt[b] = q
      BY <2>1, <2>2, <2>4, <1>1 DEF ApplySwap
  <2>5. CASE qubitAt[a] # q /\ qubitAt[b] # q
      BY <2>1, <2>2, <2>5, <1>1 DEF ApplySwap
  <2>. QED BY <2>3, <2>4, <2>5
<1>. QED BY <1>3 DEF ApplySwap, Exchange

LEMMA InitPath == Init => PathInv
<1>. SUFFICES ASSUME Init PROVE PathInv
    OBVIOUS
<1>1. /\ pass = 1 /\ events = <<>> /\ path = <<initial>> /\ initial \in Layouts
    BY DEF Init
<1>. QED BY <1>1 DEF PathInv, Passes

\* An emitted event extends the path by the layout it leads to.
LEMMA EmitKeepsPath ==
    ASSUME PathInv, siteOf' \in Layouts,
           UNCHANGED <<program, couplings, pass, initial>>,
           NEW event \in RoutedEvents, Leads(event, siteOf, siteOf'),
           Emit(event, siteOf')
    PROVE  PathInv'
<1>1. RoutedEvents' = RoutedEvents
    BY DEF RoutedEvents, Nodes
<1>2. \A e, before, after : Leads(e, before, after)' <=> Leads(e, before, after)
    BY DEF Leads, Nodes, IsTwoQubit, Coupled
<1>3. CASE pass # Passes
  <2>1. UNCHANGED <<events, path>>
      BY <1>3 DEF Emit
  <2>. QED BY <2>1, <1>3 DEF PathInv
<1>4. CASE pass = Passes
  <2>. DEFINE more == Append(events, event)  longer == Append(path, siteOf')
  <2>1. events' = more /\ path' = longer
      BY <1>4 DEF Emit
  <2>2. /\ more \in Seq(RoutedEvents) /\ Len(more) = Len(events) + 1
        /\ Len(events) \in Nat /\ more[Len(events) + 1] = event
        /\ \A k \in 1..Len(events) : more[k] = events[k]
      BY DEF PathInv
  <2>3. /\ longer \in Seq(Layouts) /\ Len(longer) = Len(path) + 1
        /\ longer[Len(path) + 1] = siteOf'
        /\ Len(path) = Len(events) + 1
        /\ \A k \in 1..Len(path) : longer[k] = path[k]
      BY DEF PathInv
  <2>. HIDE DEF more, longer
  <2>4. path[Len(events) + 1] = siteOf
      BY <1>4 DEF PathInv
  <2>5. ASSUME NEW k \in 1..Len(more) PROVE Leads(more[k], longer[k], longer[k + 1])
    <3>1. CASE k = Len(events) + 1
        BY <3>1, <2>2, <2>3, <2>4
    <3>2. CASE k # Len(events) + 1
      <4>1. k \in 1..Len(events) /\ k \in 1..Len(path) /\ k + 1 \in 1..Len(path)
          BY <3>2, <2>2, <2>3
      <4>. QED BY <4>1, <2>2, <2>3 DEF PathInv
    <3>. QED BY <3>1, <3>2
  <2>6. longer[1] = initial
      BY <2>2, <2>3 DEF PathInv
  <2>7. ASSUME NEW k \in 1..Len(more) PROVE Leads(events[k], path[k], path[k + 1])'
      BY <2>1, <2>5 DEF Leads, Nodes, IsTwoQubit, Coupled
  <2>. QED BY <2>1, <2>2, <2>3, <2>6, <2>7, <1>1, <1>4 DEF PathInv
<1>. QED BY <1>3, <1>4
LEMMA NextPath == LayoutInv /\ CursorInv /\ PathInv /\ [Next]_vars => PathInv'
<1>. SUFFICES ASSUME LayoutInv, CursorInv, PathInv, [Next]_vars PROVE PathInv'
    OBVIOUS
<1>0. siteOf \in Layouts
    BY LayoutInjective
<1>1. CASE UNCHANGED <<program, couplings, pass, events, path, initial, siteOf>>
  <2>1. RoutedEvents' = RoutedEvents
      BY <1>1 DEF RoutedEvents, Nodes
  <2>2. ASSUME NEW k \in 1..Len(events) PROVE Leads(events[k], path[k], path[k + 1])'
    <3>1. Leads(events[k], path[k], path[k + 1])
        BY DEF PathInv
    <3>. QED BY <3>1, <1>1 DEF Leads, Nodes, IsTwoQubit, Coupled
  <2>. QED BY <2>1, <2>2, <1>1 DEF PathInv
<1>2. CASE ExecuteNode
  <2>1. PICK n \in Nodes :
           /\ Executable(n)
           /\ Emit([kind |-> "node", node |-> n, sites |-> SitesOf(n)], siteOf)
      BY <1>2, Consumption
  <2>. DEFINE event == [kind |-> "node", node |-> n, sites |-> SitesOf(n)]
  <2>2. UNCHANGED <<program, couplings, pass, initial>> /\ siteOf' = siteOf
      BY <1>2 DEF ExecuteNode, input
  <2>3. n \in Nodes /\ program \in Programs
      BY DEF CursorInv
  <2>4. /\ program[n].qubits \in Seq(Qubits)
        /\ Len(program[n].qubits) = 1 \/ Len(program[n].qubits) = 2
      BY <2>3, NodeShape
  <2>5. SitesOf(n) \in Seq(Sites)
      BY <2>4 DEF SitesOf, LayoutInv
  <2>6. event \in RoutedEvents
      BY <2>3, <2>5 DEF RoutedEvents
  <2>7. Leads(event, siteOf, siteOf')
    <3>1. IsTwoQubit(n) => Coupled(SitesOf(n)[1], SitesOf(n)[2])
        BY <2>1, <2>4 DEF Executable, IsTwoQubit, SitesOf
    <3>. QED BY <3>1, <2>2, <2>3 DEF Leads, SitesOf
  <2>. HIDE DEF event
  <2>. QED BY <2>1, <2>2, <2>6, <2>7, <1>0, EmitKeepsPath DEF event
<1>3. CASE InsertSwap
  <2>1. PICK edge \in Cheapest :
           /\ ApplySwap(edge)
           /\ Emit([kind |-> "swap", node |-> 0, sites |-> edge], siteOf')
      BY <1>3 DEF InsertSwap
  <2>. DEFINE event == [kind |-> "swap", node |-> 0, sites |-> edge]
  <2>2. UNCHANGED <<program, couplings, pass, initial>>
      BY <1>3 DEF InsertSwap, input
  <2>3. edge \in couplings
      BY <2>1 DEF Cheapest, Candidates
  <2>4. siteOf' = Exchange(edge, siteOf)
      BY <2>1, <2>3, SwapIsExchange
  <2>5. siteOf' \in Layouts
      BY <2>3, <2>4, <1>0, ExchangeKeepsLayouts DEF LayoutInv
  <2>6. event \in RoutedEvents
    <3>1. edge \subseteq Sites
        BY <2>3, RoutingAssumption DEF LayoutInv
    <3>. QED BY <3>1 DEF RoutedEvents
  <2>7. Leads(event, siteOf, siteOf')
      BY <2>3, <2>4 DEF Leads
  <2>. HIDE DEF event
  <2>. QED BY <2>1, <2>2, <2>5, <2>6, <2>7, EmitKeepsPath DEF event
<1>4. CASE NextPass
  <2>1. /\ pass < Passes /\ pass' = pass + 1 /\ initial' = siteOf
        /\ path' = <<siteOf>> /\ events' = events /\ siteOf' = siteOf
      BY <1>4 DEF NextPass, input
  <2>2. events = <<>> /\ pass' \in 1..Passes
      BY <2>1 DEF PathInv, Passes
  <2>3. <<siteOf>> \in Seq(Layouts) /\ Len(<<siteOf>>) = 1 /\ <<siteOf>>[1] = siteOf
      BY <1>0
  <2>. QED BY <2>1, <2>2, <2>3 DEF PathInv
<1>5. CASE GiveUp
    BY <1>5, <1>1 DEF GiveUp, input, routing
<1>6. CASE EndRouting
    BY <1>6, <1>1 DEF EndRouting, input, routing
<1>7. CASE LowerEvent
    BY <1>7, <1>1 DEF LowerEvent, input, routing
<1>8. CASE EmitMeasurement
    BY <1>8, <1>1 DEF EmitMeasurement, input, routing
<1>9. CASE EndLowering
    BY <1>9, <1>1 DEF EndLowering, input, routing
<1>10. CASE UNCHANGED vars
    BY <1>10, <1>1 DEF vars, input, routing
<1>. QED BY <1>2, <1>3, <1>4, <1>5, <1>6, <1>7, <1>8, <1>9, <1>10 DEF Next
----------------------------------------------------------------------------
(* The order of the last pass.                                             *)

\* A non-empty set of naturals has a least element.
LEMMA LeastNatural ==
    ASSUME NEW S \in SUBSET Nat, S # {}
    PROVE  \E x \in S : \A y \in S : x <= y
<1>1. PICK R : IsWellFoundedOn(R, Nat) /\ \A a, b \in Nat : a < b => <<a, b>> \in R
  <2>1. \A a, b \in Nat : a < b => <<a, b>> \in OpToRel(<, Nat)
      BY DEF OpToRel
  <2>. QED BY <2>1, NatLessThanWellFounded
<1>2. S \subseteq Nat
    OBVIOUS
<1>3. IsWellFoundedOn(R, Nat)
    BY <1>1
<1>4. \E x \in S : \A y \in S : ~ (<<y, x>> \in R)
    BY <1>2, <1>3, WFMin
<1>5. PICK x \in S : \A y \in S : ~ (<<y, x>> \in R)
    BY <1>4
<1>6. \A y \in S : y \in Nat /\ ~(y < x) /\ x \in Nat
    BY <1>1, <1>5
<1>. QED BY <1>5, <1>6

\* Between two nodes of a wire, some node is the direct predecessor of the later.
LEMMA DirectPredecessor ==
    ASSUME program \in Programs, NEW n \in Nodes, NEW m \in Nodes, n < m,
           NEW q \in Qubits, q \in Operands(n), q \in Operands(m)
    PROVE  \E k \in Nodes : FollowsOn(q, k, m) /\ n <= k
<1>1. Len(program) \in Nat /\ Nodes \subseteq Nat
    BY RoutingAssumption DEF Nodes
<1>. DEFINE Gaps == {g \in Nat : \E k \in Nodes : g = m - k /\ k < m /\ q \in Operands(k)}
<1>2. m - n \in Gaps
    BY <1>1
<1>3. PICK g \in Gaps : \A h \in Gaps : g <= h
    BY <1>2, LeastNatural
<1>4. PICK k \in Nodes : g = m - k /\ k < m /\ q \in Operands(k)
    BY <1>3
<1>5. \A j \in Nodes : j < m /\ q \in Operands(j) => m - j \in Gaps
    BY <1>1
<1>. HIDE DEF Gaps
<1>6. k \in Nat /\ m \in Nat /\ n \in Nat /\ m - k <= m - n
    BY <1>1, <1>2, <1>3, <1>4
<1>7. n <= k
    BY <1>6
<1>8. ASSUME NEW j \in (k + 1)..(m - 1) PROVE q \notin Operands(j)
  <2>1. j \in Nodes /\ j \in Nat /\ ~(m - k <= m - j) /\ j < m
      BY <1>1, <1>4, <1>6 DEF Nodes
  <2>. QED BY <1>3, <1>4, <1>5, <2>1
<1>. QED BY <1>4, <1>7, <1>8 DEF FollowsOn
\* An emitted event adds its node, if it is one, to the emitted nodes.
LEMMA EmittedGrows ==
    ASSUME PathInv, pass = Passes, program' = program,
           NEW event, NEW layout, Emit(event, layout)
    PROVE  /\ Len(events) \in Nat /\ Len(events') = Len(events) + 1
           /\ events'[Len(events) + 1] = event
           /\ \A j \in 1..Len(events) : events'[j] = events[j]
           /\ \A k \in 0..Len(events) : Emitted(k)' = Emitted(k)
           /\ Emitted(Len(events))' = Emitted(Len(events)) \cup ({event.node} \cap Nodes)
<1>. DEFINE more == Append(events, event)
<1>1. events' = more /\ Nodes' = Nodes
    BY DEF Emit, Nodes
<1>2. /\ Len(events) \in Nat /\ Len(more) = Len(events) + 1
      /\ more[Len(events) + 1] = event
      /\ \A j \in 1..Len(events) : more[j] = events[j]
    BY DEF PathInv
<1>. HIDE DEF more
<1>3. ASSUME NEW k \in 0..Len(events) PROVE Emitted(k)' = Emitted(k)
    BY <1>1, <1>2 DEF Emitted
<1>4. Emitted(Len(events))' = {more[j].node : j \in 1..(Len(events) + 1)} \cap Nodes
    BY <1>1, <1>2 DEF Emitted
<1>5. {more[j].node : j \in 1..(Len(events) + 1)} =
         {events[j].node : j \in 1..Len(events)} \cup {event.node}
    BY <1>2
<1>. QED BY <1>1, <1>2, <1>3, <1>4, <1>5 DEF Emitted

LEMMA InitOrder == Init => OrderInv
BY DEF Init, OrderInv, Passes

(* The last pass consumes a node after every earlier node of its wires:    *)
(* its direct predecessors are consumed, and with each all before it.      *)
LEMMA ExecuteKeepsOrder ==
    ASSUME CursorInv, PathInv, OrderInv, ExecuteNode, pass = Passes
    PROVE  OrderInv'
<1>1. program' = program /\ pass' = pass /\ program \in Programs
    BY DEF ExecuteNode, input, CursorInv
<1>2. Nodes' = Nodes /\ \A n, m : Sharing(n, m)' = Sharing(n, m)
    BY <1>1 DEF Nodes, Sharing, Operands
<1>3. PICK n \in Nodes :
         /\ remaining[n] = 0 /\ Waiting(n) = {}
         /\ Emit([kind |-> "node", node |-> n, sites |-> SitesOf(n)], siteOf)
         /\ \A m \in Nodes : remaining'[m] = -1 <=> m = n \/ remaining[m] = -1
    BY Consumption
<1>. DEFINE event == [kind |-> "node", node |-> n, sites |-> SitesOf(n)]
<1>4. event.node = n
    OBVIOUS
<1>. HIDE DEF event
<1>5. /\ Len(events) \in Nat /\ Len(events') = Len(events) + 1
      /\ events'[Len(events) + 1] = event
      /\ \A j \in 1..Len(events) : events'[j] = events[j]
      /\ Emitted(Len(events))' = Emitted(Len(events)) \cup ({event.node} \cap Nodes)
    BY <1>1, <1>3, EmittedGrows DEF event
<1>6. Emitted(Len(events))' = {m \in Nodes' : remaining'[m] = -1}
    BY <1>2, <1>3, <1>4, <1>5 DEF OrderInv
<1>7. ASSUME NEW m \in Nodes, m < n, Sharing(m, n)
      PROVE  remaining[m] = -1
  <2>1. PICK q \in Qubits : q \in Operands(m) /\ q \in Operands(n)
      BY <1>7 DEF Sharing
  <2>2. PICK k \in Nodes : FollowsOn(q, k, n) /\ m <= k
      BY <1>1, <1>7, <2>1, DirectPredecessor
  <2>3. n \in Successors(pass, k)
      BY <2>2 DEF Successors, Follows, Passes
  <2>4. remaining[k] = -1
      BY <1>3, <2>3 DEF Waiting
  <2>5. Sharing(m, k) /\ m \in Int /\ k \in Int
      BY <1>1, <2>1, <2>2, NodeShape DEF Sharing, FollowsOn
  <2>. QED BY <2>2, <2>4, <2>5 DEF OrderInv
<1>8. ASSUME NEW l \in Nodes, NEW m \in Nodes, l < m, Sharing(l, m), remaining'[m] = -1
      PROVE  remaining'[l] = -1
    BY <1>3, <1>7, <1>8 DEF OrderInv
<1>9. ASSUME NEW m \in Nodes, Sharing(m, n), remaining[m] = -1
      PROVE  m < n
  <2>1. m \in Int /\ n \in Int /\ m # n /\ Sharing(n, m)
      BY <1>1, <1>3, <1>9, NodeShape DEF Sharing
  <2>. QED BY <1>3, <1>9, <2>1 DEF OrderInv
<1>10. ASSUME NEW j \in 1..Len(events'), NEW k \in 1..Len(events'), j < k,
              events'[j].node \in Nodes, events'[k].node \in Nodes,
              Sharing(events'[j].node, events'[k].node)
       PROVE  events'[j].node < events'[k].node
  <2>1. j \in 1..Len(events)
      BY <1>5, <1>10
  <2>2. CASE k = Len(events) + 1
    <3>1. events'[j].node \in Emitted(Len(events))
        BY <1>5, <1>10, <2>1 DEF Emitted
    <3>. QED BY <1>4, <1>5, <1>9, <1>10, <2>2, <3>1 DEF OrderInv
  <2>3. CASE k # Len(events) + 1
      BY <1>5, <1>10, <2>1, <2>3 DEF OrderInv
  <2>. QED BY <2>2, <2>3
<1>. QED BY <1>1, <1>2, <1>6, <1>8, <1>10 DEF OrderInv

LEMMA NextOrder == CursorInv /\ PathInv /\ OrderInv /\ [Next]_vars => OrderInv'
<1>. SUFFICES ASSUME CursorInv, PathInv, OrderInv, [Next]_vars PROVE OrderInv'
    OBVIOUS
<1>1. CASE UNCHANGED <<program, pass, events, remaining>>
  <2>1. /\ Nodes' = Nodes /\ Emitted(Len(events))' = Emitted(Len(events))
        /\ \A n, m : Sharing(n, m)' = Sharing(n, m)
      BY <1>1 DEF Nodes, Emitted, Sharing, Operands
  <2>. QED BY <1>1, <2>1 DEF OrderInv
<1>2. CASE ExecuteNode
  <2>1. CASE pass = Passes
      BY <1>2, <2>1, ExecuteKeepsOrder
  <2>2. CASE pass # Passes
    <3>1. pass' # Passes /\ events' = <<>>
        BY <1>2, <2>2 DEF ExecuteNode, Emit, PathInv
    <3>. QED BY <3>1 DEF OrderInv
  <2>. QED BY <2>1, <2>2
<1>3. CASE InsertSwap
  <2>1. UNCHANGED <<program, pass, remaining>> /\ program \in Programs
      BY <1>3 DEF InsertSwap, input, CursorInv
  <2>2. PICK edge \in Cheapest : Emit([kind |-> "swap", node |-> 0, sites |-> edge], siteOf')
      BY <1>3 DEF InsertSwap
  <2>3. CASE pass = Passes
    <3>. DEFINE event == [kind |-> "swap", node |-> 0, sites |-> edge]
    <3>1. event.node \notin Nodes
        BY <2>1, NodeShape
    <3>. HIDE DEF event
    <3>2. /\ Len(events) \in Nat /\ Len(events') = Len(events) + 1
          /\ events'[Len(events) + 1] = event
          /\ \A j \in 1..Len(events) : events'[j] = events[j]
          /\ Emitted(Len(events))' = Emitted(Len(events)) \cup ({event.node} \cap Nodes)
        BY <2>1, <2>2, <2>3, EmittedGrows DEF event
    <3>3. Nodes' = Nodes /\ \A n, m : Sharing(n, m)' = Sharing(n, m)
        BY <2>1 DEF Nodes, Sharing, Operands
    <3>4. Emitted(Len(events))' = {n \in Nodes' : remaining'[n] = -1}
        BY <2>1, <2>3, <3>1, <3>2, <3>3 DEF OrderInv
    <3>5. ASSUME NEW j \in 1..Len(events'), events'[j].node \in Nodes
          PROVE  j \in 1..Len(events) /\ events'[j] = events[j]
        BY <3>1, <3>2, <3>5
    <3>6. ASSUME NEW j \in 1..Len(events'), NEW k \in 1..Len(events'), j < k,
                 events'[j].node \in Nodes, events'[k].node \in Nodes,
                 Sharing(events'[j].node, events'[k].node)
          PROVE  events'[j].node < events'[k].node
        BY <3>5, <3>6 DEF OrderInv
    <3>. QED BY <2>1, <3>3, <3>4, <3>6 DEF OrderInv
  <2>4. CASE pass # Passes
    <3>1. pass' # Passes /\ events' = <<>>
        BY <2>1, <2>2, <2>4 DEF Emit, PathInv
    <3>. QED BY <3>1 DEF OrderInv
  <2>. QED BY <2>3, <2>4
<1>4. CASE NextPass
  <2>1. /\ program' = program /\ pass' = pass + 1 /\ events' = events
        /\ remaining' = [n \in Nodes |-> Indegree(pass + 1, n)] /\ events = <<>>
      BY <1>4 DEF NextPass, input, PathInv
  <2>2. Nodes' = Nodes /\ \A n \in Nodes : remaining'[n] # -1
      BY <2>1, IndegreeIsCount DEF Nodes, CursorInv
  <2>3. Emitted(Len(events))' = {}
      BY <2>1 DEF Emitted
  <2>. QED BY <2>1, <2>2, <2>3 DEF OrderInv
<1>5. CASE GiveUp
    BY <1>5, <1>1 DEF GiveUp, input, routing
<1>6. CASE EndRouting
    BY <1>6, <1>1 DEF EndRouting, input, routing
<1>7. CASE LowerEvent
    BY <1>7, <1>1 DEF LowerEvent, input, routing
<1>8. CASE EmitMeasurement
    BY <1>8, <1>1 DEF EmitMeasurement, input, routing
<1>9. CASE EndLowering
    BY <1>9, <1>1 DEF EndLowering, input, routing
<1>10. CASE UNCHANGED vars
    BY <1>10, <1>1 DEF vars, input, routing
<1>. QED BY <1>2, <1>3, <1>4, <1>5, <1>6, <1>7, <1>8, <1>9, <1>10 DEF Next
----------------------------------------------------------------------------
(* The device.                                                             *)

LEMMA NodeExtendsHold ==
    ASSUME program \in Programs, NEW S \in SUBSET Nodes, NEW q \in Qubits,
           NEW content, Holds(content, q, S), NEW n \in Nodes,
           \A m \in S : q \in Operands(m) /\ q \in Operands(n) => m < n
    PROVE  /\ q \in Operands(n) =>
                Holds([of |-> content.of, nodes |-> Append(content.nodes, n)], q, S \cup {n})
           /\ q \notin Operands(n) => Holds(content, q, S \cup {n})
<1>1. Nodes \in SUBSET Int
    BY NodeShape
<1>2. CASE q \in Operands(n)
  <2>. DEFINE wire == {m \in S : q \in Operands(m)}
  <2>1. {m \in S \cup {n} : q \in Operands(m)} = wire \cup {n}
      BY <1>2
  <2>2. content.nodes \in Seq(Nodes) /\ Lists(content.nodes, wire) /\ \A m \in wire : m < n
      BY <1>2 DEF Holds
  <2>. HIDE DEF wire
  <2>3. /\ Append(content.nodes, n) \in Seq(Nodes)
        /\ Lists(Append(content.nodes, n), wire \cup {n})
      BY <1>1, <2>2, AppendLists
  <2>. QED BY <1>2, <2>1, <2>3 DEF Holds
<1>3. CASE q \notin Operands(n)
  <2>1. {m \in S \cup {n} : q \in Operands(m)} = {m \in S : q \in Operands(m)}
      BY <1>3
  <2>. QED BY <1>3, <2>1 DEF Holds
<1>. QED BY <1>2, <1>3

\* Running a node where a layout places it extends every hold it should.
LEMMA NodeKeepsHolds ==
    ASSUME program \in Programs, NEW S \in SUBSET Nodes, NEW layout \in Layouts,
           NEW contents, \A q \in Qubits : Holds(contents[layout[q]], q, S),
           NEW n \in Nodes, \A m \in S : Sharing(m, n) => m < n,
           NEW op, op.kind # "swap", op.node = n, op.sites = Placed(n, layout)
    PROVE  \A q \in Qubits : Holds(Run(op, contents)[layout[q]], q, S \cup {n})
<1>. SUFFICES ASSUME NEW q \in Qubits
              PROVE  Holds(Run(op, contents)[layout[q]], q, S \cup {n})
    OBVIOUS
<1>1. \A m \in S : q \in Operands(m) /\ q \in Operands(n) => m < n
    BY DEF Sharing
<1>2. Holds(contents[layout[q]], q, S)
    OBVIOUS
<1>. DEFINE content == contents[layout[q]]
<1>3. /\ q \in Operands(n) => Run(op, contents)[layout[q]] =
                                [of |-> content.of, nodes |-> Append(content.nodes, n)]
      /\ q \notin Operands(n) => Run(op, contents)[layout[q]] = content
    BY NodeJoinsContents
<1>. HIDE DEF content
<1>4. Holds(content, q, S)
    BY <1>2 DEF content
<1>5. /\ q \in Operands(n) =>
            Holds([of |-> content.of, nodes |-> Append(content.nodes, n)], q, S \cup {n})
      /\ q \notin Operands(n) => Holds(content, q, S \cup {n})
    BY <1>1, <1>4, NodeExtendsHold
<1>. QED BY <1>3, <1>5

LEMMA IssueKeepsCouplings ==
    ASSUME native \in Seq(NativeOperations), OnCouplings,
           UNCHANGED <<program, couplings>>,
           NEW op \in NativeOperations, native' = Append(native, op),
           op.kind = "swap" => op.sites \in couplings,
           op.kind # "swap" /\ Len(op.sites) = 2 => Coupled(op.sites[1], op.sites[2])
    PROVE  (native \in Seq(NativeOperations))' /\ OnCouplings'
<1>. DEFINE more == Append(native, op)
<1>1. NativeOperations' = NativeOperations
    BY DEF NativeOperations, RoutedEvents, Nodes
<1>2. /\ more \in Seq(NativeOperations) /\ Len(more) = Len(native) + 1
      /\ more[Len(native) + 1] = op /\ Len(native) \in Nat
      /\ \A k \in 1..Len(native) : more[k] = native[k]
    OBVIOUS
<1>. HIDE DEF more
<1>3. ASSUME NEW k \in 1..Len(more)
      PROVE  /\ more[k].kind = "swap" => more[k].sites \in couplings
             /\ more[k].kind # "swap" /\ Len(more[k].sites) = 2
                   => Coupled(more[k].sites[1], more[k].sites[2])
  <2>1. CASE k = Len(native) + 1
      BY <2>1, <1>2
  <2>2. CASE k # Len(native) + 1
    <3>1. k \in 1..Len(native) /\ more[k] = native[k]
        BY <2>2, <1>2
    <3>. QED BY <3>1 DEF OnCouplings
  <2>. QED BY <2>1, <2>2
<1>4. native' = more
    BY DEF more
<1>5. OnCouplings'
    BY <1>3, <1>4 DEF OnCouplings, Coupled
<1>. QED BY <1>1, <1>2, <1>4, <1>5
LEMMA InitDevice == Init => DeviceInv
<1>. SUFFICES ASSUME Init PROVE DeviceInv
    OBVIOUS
<1>1. /\ pc = "route" /\ events = <<>> /\ lowered = 0 /\ deferred = {} /\ native = <<>>
    BY DEF Init
<1>. QED BY <1>1 DEF DeviceInv, OnCouplings

(* An event lowered takes every hold to the layout the event led to.       *)
LEMMA LowerKeepsDevice ==
    ASSUME CursorInv, LayoutInv, PathInv, OrderInv, DeviceInv, LowerEvent
    PROVE  DeviceInv'
<1>. DEFINE at == lowered + 1  event == events[at]  S == Emitted(lowered) \ deferred
<1>1. /\ pc = "lower" /\ pc' = "lower" /\ lowered < Len(events) /\ lowered' = at
      /\ UNCHANGED <<program, couplings, pass, remaining, events, path>>
      /\ Complete /\ pass = Passes /\ program \in Programs /\ couplings \in Topologies
    BY DEF LowerEvent, input, routing, DeviceInv, CursorInv, LayoutInv
<1>2. /\ Nodes' = Nodes /\ Complete'
      /\ Emitted(lowered)' = Emitted(at)
      /\ \A q : Operands(q)' = Operands(q)
    BY <1>1 DEF Nodes, Complete, Emitted, Operands
<1>3. /\ lowered \in Nat /\ at \in 1..Len(events) /\ at \in 1..Len(path)
      /\ at + 1 \in 1..Len(path) /\ lowered' \in 0..Len(events)
    BY <1>1 DEF DeviceInv, PathInv
<1>4. event \in RoutedEvents /\ Leads(event, path[at], path[at + 1])
    BY <1>3 DEF PathInv
<1>5. path[at] \in Layouts /\ path[at + 1] \in Layouts
    BY <1>3 DEF PathInv
<1>6. Emitted(at) = Emitted(lowered) \cup ({event.node} \cap Nodes)
    BY <1>3 DEF Emitted
<1>7. S \in SUBSET Nodes /\ deferred \subseteq {n \in Emitted(lowered) : program[n].measures}
    BY <1>1 DEF DeviceInv, Emitted
<1>8. \A q \in Qubits : Holds(device[path[at][q]], q, S)
    BY <1>1 DEF DeviceInv
<1>9. ASSUME NEW m \in Emitted(lowered), event.node \in Nodes, Sharing(m, event.node)
      PROVE  m < event.node
  <2>1. PICK j \in 1..lowered : m = events[j].node
      BY DEF Emitted
  <2>2. j \in 1..Len(events) /\ j < at /\ m \in Nodes
      BY <1>1, <1>3 DEF Emitted
  <2>. QED BY <1>3, <1>9, <2>1, <2>2 DEF OrderInv
<1>. HIDE DEF S, event, at
<1>10. ASSUME deferred' \subseteq {n \in Emitted(at) : program[n].measures},
              \A q \in Qubits : Holds(device'[path[at + 1][q]], q, Emitted(at) \ deferred'),
              (native \in Seq(NativeOperations))' /\ OnCouplings'
       PROVE  DeviceInv'
  <2>1. /\ lowered' = at /\ events' = events /\ path' = path /\ program' = program
        /\ pass' = Passes /\ pc' = "lower"
        /\ Emitted(lowered)' = Emitted(at)
      BY <1>1, <1>2
  <2>2. ASSUME NEW q \in Qubits
        PROVE  Holds(device[path[lowered + 1][q]], q, Emitted(lowered) \ deferred)'
    <3>1. Holds(device'[path[at + 1][q]], q, Emitted(at) \ deferred')
        BY <1>10
    <3>. QED BY <3>1, <2>1, <1>2 DEF Holds, Lists
  <2>3. (lowered \in 0..Len(events))'
      BY <1>1, <1>3
  <2>4. (deferred \subseteq {n \in Emitted(lowered) : program[n].measures})'
      BY <1>10, <2>1
  <2>. QED BY <2>1, <2>2, <2>3, <2>4, <1>2, <1>10 DEF DeviceInv
<1>11. /\ event.kind = "node" /\ program[event.node].measures
             => deferred' = deferred \cup {event.node} /\ UNCHANGED <<native, device>>
       /\ ~(event.kind = "node" /\ program[event.node].measures)
             => Issue(event) /\ UNCHANGED deferred
    BY DEF LowerEvent, event, at
<1>12. native \in Seq(NativeOperations) /\ OnCouplings /\ event \in NativeOperations
    BY <1>4 DEF DeviceInv, NativeOperations
<1>13. CASE event.kind = "node"
  <2>. DEFINE n == event.node
  <2>1. /\ n \in Nodes /\ event.sites = Placed(n, path[at]) /\ path[at + 1] = path[at]
        /\ IsTwoQubit(n) => Coupled(event.sites[1], event.sites[2])
      BY <1>4, <1>13 DEF Leads, Placed
  <2>2. Emitted(at) = Emitted(lowered) \cup {n}
      BY <1>6, <2>1
  <2>3. Sharing(n, n) /\ n \in Nat
      BY <1>1, <2>1, NodeShape DEF Sharing
  <2>4. n \notin Emitted(lowered)
      BY <1>9, <2>1, <2>3
  <2>. HIDE DEF n
  <2>5. CASE program[n].measures
    <3>1. deferred' = deferred \cup {n} /\ UNCHANGED <<native, device>>
        BY <1>11, <1>13, <2>5 DEF n
    <3>2. Emitted(at) \ deferred' = S
        BY <2>2, <2>4, <3>1, <1>7 DEF S
    <3>3. deferred' \subseteq {m \in Emitted(at) : program[m].measures}
        BY <2>2, <2>5, <3>1, <1>7
    <3>4. (native \in Seq(NativeOperations))' /\ OnCouplings'
        BY <3>1, <1>1, <1>2, <1>12 DEF NativeOperations, RoutedEvents, OnCouplings, Coupled
    <3>. QED BY <1>8, <1>10, <2>1, <3>1, <3>2, <3>3, <3>4
  <2>6. CASE ~program[n].measures
    <3>1. /\ native' = Append(native, event) /\ device' = Run(event, device)
          /\ deferred' = deferred
        BY <1>11, <2>6 DEF n, Issue
    <3>2. Emitted(at) \ deferred' = S \cup {n}
        BY <2>2, <2>4, <2>6, <3>1, <1>7 DEF S
    <3>3. deferred' \subseteq {m \in Emitted(at) : program[m].measures}
        BY <2>2, <3>1, <1>7
    <3>4. \A m \in S : Sharing(m, n) => m < n
        BY <1>9, <2>1 DEF S, n
    <3>5. event.kind # "swap" /\ event.node = n
        BY <1>13 DEF n
    <3>6. \A q \in Qubits : Holds(Run(event, device)[path[at][q]], q, S \cup {n})
        BY <1>1, <1>5, <1>7, <1>8, <2>1, <3>4, <3>5, NodeKeepsHolds
    <3>7. Len(event.sites) = Len(program[n].qubits)
        BY <1>1, <2>1, NodeShape DEF Placed
    <3>8. Len(event.sites) = 2 => Coupled(event.sites[1], event.sites[2])
        BY <2>1, <3>7 DEF IsTwoQubit
    <3>9. (native \in Seq(NativeOperations))' /\ OnCouplings'
        BY <1>1, <1>12, <3>1, <3>5, <3>8, IssueKeepsCouplings
    <3>. QED BY <1>10, <2>1, <3>1, <3>2, <3>3, <3>6, <3>9
  <2>. QED BY <2>5, <2>6
<1>14. CASE event.kind = "swap"
  <2>1. /\ event.node = 0 /\ event.sites \in couplings
        /\ path[at + 1] = Exchange(event.sites, path[at])
      BY <1>4, <1>14 DEF Leads
  <2>2. Emitted(at) = Emitted(lowered)
      BY <1>1, <1>6, <2>1, NodeShape
  <2>3. /\ native' = Append(native, event) /\ device' = Run(event, device)
        /\ deferred' = deferred
      BY <1>11, <1>14 DEF Issue
  <2>4. ASSUME NEW q \in Qubits
        PROVE  Holds(device'[path[at + 1][q]], q, Emitted(at) \ deferred')
    <3>1. device'[path[at + 1][q]] = device[path[at][q]]
        BY <1>1, <1>5, <1>14, <2>1, <2>3, SwapMovesContents
    <3>. QED BY <1>8, <2>2, <2>3, <3>1 DEF S
  <2>5. (native \in Seq(NativeOperations))' /\ OnCouplings'
      BY <1>1, <1>12, <1>14, <2>1, <2>3, IssueKeepsCouplings
  <2>6. deferred' \subseteq {m \in Emitted(at) : program[m].measures}
      BY <2>2, <2>3, <1>7
  <2>. QED BY <1>10, <2>4, <2>5, <2>6
<1>. QED BY <1>4, <1>13, <1>14 DEF RoutedEvents

(* A measurement emitted joins the wire of its qubit, on the site that     *)
(* holds the qubit after the last swap.                                    *)
LEMMA MeasureKeepsDevice ==
    ASSUME CursorInv, LayoutInv, PathInv, OrderInv, DeviceInv, EmitMeasurement
    PROVE  DeviceInv'
<1>1. /\ pc = "lower" /\ pc' = "lower" /\ lowered = Len(events) /\ lowered' = lowered
      /\ UNCHANGED <<program, couplings, pass, remaining, events, path, siteOf>>
      /\ Complete /\ pass = Passes /\ program \in Programs /\ couplings \in Topologies
    BY DEF EmitMeasurement, input, routing, DeviceInv, CursorInv, LayoutInv
<1>2. /\ Nodes' = Nodes /\ Complete'
      /\ Emitted(lowered)' = Emitted(lowered)
      /\ \A q : Operands(q)' = Operands(q)
    BY <1>1 DEF Nodes, Complete, Emitted, Operands
<1>3. PICK n \in deferred :
         /\ Issue([kind |-> "measure", node |-> n, sites |-> SitesOf(n)])
         /\ deferred' = deferred \ {n}
    BY DEF EmitMeasurement
<1>. DEFINE op == [kind |-> "measure", node |-> n, sites |-> SitesOf(n)]
            S == Emitted(lowered) \ deferred
<1>4. n \in Emitted(lowered) /\ n \in Nodes /\ program[n].measures
    BY <1>1 DEF DeviceInv, Emitted
<1>5. path[lowered + 1] = siteOf /\ siteOf \in Layouts
    BY <1>1, LayoutInjective DEF PathInv
<1>6. /\ program[n].qubits \in Seq(Qubits) /\ Len(program[n].qubits) = 1
      /\ n \in Int
    BY <1>1, <1>4, NodeShape, RoutingAssumption DEF WellFormed, Nodes
<1>7. /\ op \in NativeOperations /\ op.kind # "swap" /\ op.node = n
      /\ op.sites = Placed(n, siteOf) /\ Len(op.sites) # 2
    BY <1>4, <1>5, <1>6 DEF NativeOperations, SitesOf, Placed, Layouts
<1>8. native' = Append(native, op) /\ device' = Run(op, device)
    BY <1>3 DEF Issue
<1>. HIDE DEF op
<1>9. S \in SUBSET Nodes /\ Emitted(lowered) \ deferred' = S \cup {n}
    BY <1>3, <1>4 DEF Emitted
<1>10. \A m \in S : Sharing(m, n) => m < n
  <2>. SUFFICES ASSUME NEW m \in S, Sharing(m, n) PROVE m < n
      OBVIOUS
  <2>1. m \in Nodes /\ m # n /\ Sharing(n, m) /\ m \in Int
      BY <1>1, <1>9, <1>3, NodeShape DEF Sharing
  <2>. QED BY <1>1, <1>4, <1>6, <2>1, MeasurementsEndWires
<1>11. \A q \in Qubits : Holds(device[siteOf[q]], q, S)
    BY <1>1, <1>5 DEF DeviceInv
<1>. HIDE DEF S
<1>12. \A q \in Qubits : Holds(Run(op, device)[siteOf[q]], q, S \cup {n})
    BY <1>1, <1>4, <1>5, <1>7, <1>9, <1>10, <1>11, NodeKeepsHolds
<1>13. (native \in Seq(NativeOperations))' /\ OnCouplings'
    BY <1>1, <1>7, <1>8, IssueKeepsCouplings DEF DeviceInv
<1>14. ASSUME NEW q \in Qubits
       PROVE  Holds(device[path[lowered + 1][q]], q, Emitted(lowered) \ deferred)'
  <2>1. Holds(device'[path[lowered + 1][q]], q, Emitted(lowered) \ deferred')
      BY <1>5, <1>8, <1>9, <1>12
  <2>. QED BY <2>1, <1>1, <1>2 DEF Holds, Lists
<1>15. (deferred \subseteq {m \in Emitted(lowered) : program[m].measures})'
    BY <1>1, <1>2, <1>3 DEF DeviceInv
<1>16. (lowered \in 0..Len(events))'
    BY <1>1 DEF DeviceInv
<1>. QED BY <1>1, <1>2, <1>13, <1>14, <1>15, <1>16 DEF DeviceInv
LEMMA NextDevice ==
    CursorInv /\ LayoutInv /\ PathInv /\ PathInv' /\ OrderInv /\ DeviceInv /\ [Next]_vars
       => DeviceInv'
<1>. SUFFICES ASSUME CursorInv, LayoutInv, PathInv, PathInv', OrderInv, DeviceInv, [Next]_vars
              PROVE  DeviceInv'
    OBVIOUS
\* Routing steps leave the output of the lowering empty.
<1>1. ASSUME pc = "route", pc' \notin {"lower", "done"}, UNCHANGED <<lowered, deferred, native>>
      PROVE  DeviceInv'
  <2>1. lowered' = 0 /\ deferred' = {} /\ native' = <<>>
      BY <1>1 DEF DeviceInv
  <2>2. Len(events') \in Nat
      BY DEF PathInv
  <2>. QED BY <1>1, <2>1, <2>2 DEF DeviceInv, OnCouplings
<1>2. CASE ExecuteNode
    BY <1>1, <1>2 DEF ExecuteNode, output
<1>3. CASE GiveUp
    BY <1>1, <1>3 DEF GiveUp, Blocked, output
<1>4. CASE InsertSwap
  <2>1. pc = "route" /\ pc' \notin {"lower", "done"} /\ UNCHANGED output
      BY <1>4 DEF InsertSwap, Blocked
  <2>. QED BY <1>1, <2>1 DEF output
<1>5. CASE NextPass
    BY <1>1, <1>5 DEF NextPass, output
<1>6. CASE EndRouting
  <2>1. /\ pc = "route" /\ Complete /\ pass = Passes /\ pc' = "lower"
        /\ device' = [s \in Sites |-> [of |-> Occupants(initial)[s], nodes |-> <<>>]]
        /\ UNCHANGED <<program, couplings, pass, remaining, events, path, initial>>
        /\ UNCHANGED <<lowered, deferred, native>>
      BY <1>6 DEF EndRouting, input, routing
  <2>2. lowered = 0 /\ deferred = {} /\ native = <<>>
      BY <2>1 DEF DeviceInv
  <2>3. path[1] = initial /\ initial \in Layouts /\ Len(events) \in Nat
    <3>1. path[1] = initial /\ path \in Seq(Layouts) /\ 1 \in 1..Len(path)
        BY DEF PathInv
    <3>. QED BY <3>1 DEF PathInv
  <2>4. Nodes' = Nodes /\ Complete' /\ Emitted(lowered)' = {}
      BY <2>1, <2>2 DEF Nodes, Complete, Emitted
  <2>5. ASSUME NEW q \in Qubits
        PROVE  Holds(device[path[lowered + 1][q]], q, Emitted(lowered) \ deferred)'
    <3>1. path'[lowered' + 1] = initial /\ deferred' = {}
        BY <2>1, <2>2, <2>3
    <3>2. initial[q] \in Sites /\ Occupants(initial)[initial[q]] = q
        BY <2>3, OccupantsInvert DEF Layouts
    <3>3. device'[initial[q]] = [of |-> q, nodes |-> <<>>]
        BY <2>1, <3>2
    <3>. QED BY <2>4, <3>1, <3>3 DEF Holds, Lists
  <2>6. OnCouplings' /\ (native \in Seq(NativeOperations))'
      BY <2>1, <2>2 DEF OnCouplings
  <2>. QED BY <2>1, <2>2, <2>3, <2>4, <2>5, <2>6 DEF DeviceInv
<1>7. CASE LowerEvent
    BY <1>7, LowerKeepsDevice
<1>8. CASE EmitMeasurement
    BY <1>8, MeasureKeepsDevice
\* The remaining steps change nothing the invariant reads but the mode.
<1>9. ASSUME UNCHANGED <<program, couplings, pass, remaining, events, path>>,
             UNCHANGED <<lowered, deferred, native, device>>,
             pc' = pc \/ (pc = "lower" /\ pc' = "done" /\ lowered = Len(events) /\ deferred = {})
      PROVE  DeviceInv'
  <2>1. /\ Nodes' = Nodes /\ Complete' = Complete
        /\ Emitted(lowered)' = Emitted(lowered)
        /\ \A q : Operands(q)' = Operands(q)
        /\ (native \in Seq(NativeOperations))' /\ OnCouplings'
      BY <1>9 DEF Nodes, Complete, Emitted, Operands, NativeOperations, RoutedEvents,
                  OnCouplings, Coupled, DeviceInv
  <2>2. ASSUME NEW q \in Qubits, Holds(device[path[lowered + 1][q]], q, Emitted(lowered) \ deferred)
        PROVE  Holds(device[path[lowered + 1][q]], q, Emitted(lowered) \ deferred)'
      BY <1>9, <2>1, <2>2 DEF Holds, Lists
  <2>. QED BY <1>9, <2>1, <2>2 DEF DeviceInv
<1>10. CASE EndLowering
  <2>1. UNCHANGED <<program, couplings, pass, remaining, events, path, lowered, deferred, native, device>>
      BY <1>10 DEF EndLowering, input, routing, output
  <2>. QED BY <2>1, <1>9, <1>10 DEF EndLowering
<1>11. CASE UNCHANGED vars
    BY <1>11, <1>9 DEF vars, input, routing, output
<1>. QED BY <1>2, <1>3, <1>4, <1>5, <1>6, <1>7, <1>8, <1>10, <1>11 DEF Next
----------------------------------------------------------------------------
(* The whole.                                                              *)

\* The variables no other part of the invariant types.
ScalarInv ==
    /\ pc \in {"route", "lower", "done", "unreachable", "diverged"}
    /\ distances \in [Sites \X Sites -> 0..Unreachable]
    /\ decay \in [Sites -> Nat] /\ swaps \in Nat

LEMMA DistancesBounded ==
    ASSUME NEW edges
    PROVE  AllPairsDistances(edges) \in [Sites \X Sites -> 0..Unreachable]
<1>1. Unreachable \in Nat
    BY RoutingAssumption, FS_CardinalityType DEF Unreachable
<1>2. IsFiniteSet(0..(Unreachable - 1)) /\ Cardinality(0..(Unreachable - 1)) = Unreachable
    BY <1>1, FS_Interval
<1>3. ASSUME NEW S \in SUBSET (0..(Unreachable - 1)) PROVE Cardinality(S) \in 0..Unreachable
  <2>1. IsFiniteSet(S) /\ Cardinality(S) <= Unreachable
      BY <1>2, FS_Subset
  <2>. QED BY <1>1, <2>1, FS_CardinalityType
<1>. QED BY <1>3 DEF AllPairsDistances

LEMMA InitScalar == Init => ScalarInv
<1>. SUFFICES ASSUME Init PROVE ScalarInv
    OBVIOUS
<1>1. distances \in [Sites \X Sites -> 0..Unreachable]
    BY DistancesBounded DEF Init
<1>2. pc = "route" /\ decay = [s \in Sites |-> 0] /\ swaps = 0
    BY DEF Init
<1>. QED BY <1>1, <1>2 DEF ScalarInv

LEMMA NextScalar == ScalarInv /\ [Next]_vars => ScalarInv'
<1>. SUFFICES ASSUME ScalarInv, [Next]_vars PROVE ScalarInv'
    OBVIOUS
<1>. USE DEF ScalarInv
<1>1. CASE ExecuteNode
    BY <1>1 DEF ExecuteNode, input
<1>2. CASE GiveUp
    BY <1>2 DEF GiveUp, input, routing
<1>3. CASE InsertSwap
    BY <1>3 DEF InsertSwap, Blocked, input
<1>4. CASE NextPass
    BY <1>4 DEF NextPass, input
<1>5. CASE EndRouting
    BY <1>5 DEF EndRouting, input, routing
<1>6. CASE LowerEvent
    BY <1>6 DEF LowerEvent, input, routing
<1>7. CASE EmitMeasurement
    BY <1>7 DEF EmitMeasurement, input, routing
<1>8. CASE EndLowering
    BY <1>8 DEF EndLowering, input, routing
<1>9. CASE UNCHANGED vars
    BY <1>9 DEF vars, input, routing
<1>. QED BY <1>1, <1>2, <1>3, <1>4, <1>5, <1>6, <1>7, <1>8, <1>9 DEF Next

LEMMA InvariantsType ==
    ASSUME ScalarInv, LayoutInv, CursorInv, PathInv, DeviceInv
    PROVE  TypeOK
<1>1. /\ initial \in [Qubits -> Sites] /\ path \in Seq([Qubits -> Sites])
  <2>1. path \in Seq(Layouts) /\ 1 \in 1..Len(path) /\ path[1] = initial
      BY DEF PathInv
  <2>2. path[1] \in [Qubits -> Sites]
      BY <2>1 DEF Layouts
  <2>3. Layouts \subseteq [Qubits -> Sites]
      BY DEF Layouts
  <2>. QED BY <2>1, <2>2, <2>3
<1>2. remaining \in [Nodes -> -1..Len(program)]
  <2>1. Len(program) \in Nat
      BY RoutingAssumption DEF CursorInv
  <2>2. IsFiniteSet(Nodes) /\ Cardinality(Nodes) = Len(program)
    <3>. DEFINE n == Len(program)
    <3>1. n \in Nat /\ 1 \in Int /\ n \in Int
        BY <2>1
    <3>. HIDE DEF n
    <3>2. IsFiniteSet(1..n) /\ Cardinality(1..n) = IF 1 > n THEN 0 ELSE n - 1 + 1
        BY <3>1, FS_Interval
    <3>3. (IF 1 > n THEN 0 ELSE n - 1 + 1) = n
        BY <3>1
    <3>. QED BY <3>2, <3>3 DEF n, Nodes
  <2>3. ASSUME NEW n \in Nodes PROVE remaining[n] \in -1..Len(program)
    <3>1. Cardinality(Waiting(n)) <= Len(program) /\ Cardinality(Waiting(n)) \in Nat
        BY <2>2, FS_Subset, WaitingCount DEF Waiting
    <3>2. remaining[n] = -1 \/ remaining[n] = Cardinality(Waiting(n))
        BY DEF CursorInv
    <3>. QED BY <2>1, <3>1, <3>2
  <2>. QED BY <2>3 DEF CursorInv
<1>3. deferred \subseteq Nodes
    BY DEF DeviceInv, Emitted
<1>4. ready \subseteq Nodes /\ program \in Programs
    BY DEF CursorInv
<1>. QED BY <1>1, <1>2, <1>3, <1>4 DEF TypeOK, ScalarInv, LayoutInv, PathInv, DeviceInv

\* At the end everything has been emitted and measured on the last layout.
LEMMA InvariantsExecute ==
    ASSUME CursorInv, PathInv, OrderInv, DeviceInv
    PROVE  NativeExecutesSource
<1>. SUFFICES ASSUME pc = "done", NEW q \in Qubits
              PROVE  /\ device[siteOf[q]].of = q
                     /\ Lists(device[siteOf[q]].nodes, {n \in Nodes : q \in Operands(n)})
    BY DEF NativeExecutesSource
<1>1. Complete /\ pass = Passes /\ lowered = Len(events) /\ deferred = {}
    BY DEF DeviceInv
<1>2. Emitted(lowered) \ deferred = Nodes
    BY <1>1 DEF OrderInv, Complete
<1>3. path[lowered + 1] = siteOf
    BY <1>1 DEF PathInv
<1>4. Holds(device[siteOf[q]], q, Nodes)
    BY <1>2, <1>3 DEF DeviceInv
<1>. QED BY <1>4 DEF Holds

(* On every device, for every program, first layout and resolution of      *)
(* ties, and whatever swaps the passes insert: the native program is well  *)
(* formed, keeps to the couplings, and does to each qubit its whole wire,  *)
(* in order, measurements last and where the qubit has come to be          *)
(* (sabre.py:193-283, sc_target.py:131-186).                               *)
THEOREM RoutingIsFaithful == Spec => []RoutedFaithfully
<1>1. ScalarInv /\ LayoutInv /\ CursorInv /\ PathInv /\ OrderInv /\ DeviceInv
         => RoutedFaithfully
    BY InvariantsType, InvariantsExecute DEF RoutedFaithfully, DeviceInv
<1>. QED BY InitScalar, NextScalar, InitLayout, NextLayout, InitCursor, NextCursor,
            InitPath, NextPath, InitOrder, NextOrder, InitDevice, NextDevice, <1>1, PTL DEF Spec
=============================================================================
