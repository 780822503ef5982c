--------------------------- MODULE ShotSemantics ---------------------------
(***************************************************************************)
(* What a lowered pulse plan promises, independent of how it is executed:  *)
(* every shot is one run of the plan in source order.                      *)
(*                                                                         *)
(* The quantum state is symbolic.  It is, per subsystem, the sequence of   *)
(* operations that touched the subsystem: two executions whose operations  *)
(* differ only in the order of operations on disjoint subsystems have the  *)
(* same state, and no others have.  A pulse is bound at the time the       *)
(* region it lies in begins; a region's time is the plan index of its last *)
(* pulse.  With background noise the passing of a region touches every     *)
(* subsystem, driven or not.                                               *)
(***************************************************************************)
EXTENDS Integers, Sequences

CONSTANTS Subsystems, Clbits, Shots

VARIABLES
    runner,     \* what executes the plans: background noise, frames
    requests,   \* the plans asked for, one per group of outcomes
    delivered,  \* per request, the outcomes so far
    returned

Bits == {0, 1}

IsPulse(step)       == step.kind = "pulse"
IsMeasurement(step) == step.kind = "measure"
Measurements(plan)  == {i \in 1..Len(plan) : IsMeasurement(plan[i])}

\* The greatest element of a set of naturals, 0 for the empty set.
Latest(S) == CHOOSE m \in S \cup {0} : \A s \in S : s <= m

\* Classical memory just before step i, for the given measurement results.
MemoryBefore(plan, bits, i) ==
    [c \in Clbits |->
        LET writer == Latest({m \in Measurements(plan) : m < i /\ plan[m].clbit = c})
        IN  IF writer = 0 THEN 0 ELSE bits[writer]]

Happens(plan, bits, i) ==
    LET memory == MemoryBefore(plan, bits, i)
    IN  \A term \in plan[i].condition : memory[term[1]] = term[2]

\* The time at which the region of step i begins.
RegionStart(plan, i) ==
    Latest({j \in 1..(i - 1) : IsPulse(plan[j]) /\ \E k \in j..i : ~IsPulse(plan[k])})

EndsRegion(plan, i) ==
    IsPulse(plan[i]) /\ (i = Len(plan) \/ ~IsPulse(plan[i + 1]))

\* Operation i as it appears in a history; "on" are the touched subsystems.
Operation(plan, bits, i) ==
    [kind |-> plan[i].kind, step |-> i,
     from |-> IF IsPulse(plan[i]) THEN RegionStart(plan, i) ELSE 0,
     bit  |-> IF IsMeasurement(plan[i]) THEN bits[i] ELSE 0,
     on   |-> IF Happens(plan, bits, i) THEN plan[i].targets ELSE {}]

\* The noise of the region that ends with step i.
Elapse(plan, i) ==
    [kind |-> "idle", step |-> i, from |-> RegionStart(plan, i), bit |-> 0,
     on |-> IF runner.background /\ EndsRegion(plan, i) THEN Subsystems ELSE {}]

\* An event joins the history of every subsystem it touches.
Touch(state, event) ==
    [s \in Subsystems |-> IF s \in event.on THEN Append(state[s], event) ELSE state[s]]

\* A state after the first n of some operations, each with the noise that follows it.
After(state, operations, noise, n) ==
    LET upTo[i \in 0..Len(operations)] ==
           IF i = 0 THEN state ELSE Touch(Touch(upTo[i - 1], operations[i]), noise[i])
    IN  upTo[n]

\* The outcome of one shot of a plan.
Outcome(plan, bits) ==
    [state  |-> After([s \in Subsystems |-> <<>>],
                      [i \in 1..Len(plan) |-> Operation(plan, bits, i)],
                      [i \in 1..Len(plan) |-> Elapse(plan, i)], Len(plan)),
     memory |-> MemoryBefore(plan, bits, Len(plan) + 1),
     frame  |-> IF runner.frames
                  THEN {i \in 1..Len(plan) : IsPulse(plan[i]) /\ Happens(plan, bits, i)}
                  ELSE {}]

Legal(plan, outcome) ==
    \E bits \in [Measurements(plan) -> Bits] : outcome = Outcome(plan, bits)
----------------------------------------------------------------------------
Full(g) == Len(delivered[g]) = Shots

Init ==
    /\ delivered = [g \in DOMAIN requests |-> <<>>]
    /\ returned = FALSE

\* One more outcome; the call returns with the last one.
Deliver(g) ==
    /\ ~Full(g)
    /\ \A earlier \in 1..(g - 1) : Full(earlier)
    /\ \E bits \in [Measurements(requests[g]) -> Bits] :
          delivered' = [delivered EXCEPT ![g] = Append(@, Outcome(requests[g], bits))]
    /\ returned' = \A h \in DOMAIN requests : Len(delivered'[h]) = Shots
    /\ UNCHANGED <<runner, requests>>

Next == \E g \in DOMAIN requests : Deliver(g)

Spec == Init /\ [][Next]_<<runner, requests, delivered, returned>>
=============================================================================
