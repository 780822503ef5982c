----------------------------- MODULE AtomArray -----------------------------
(***************************************************************************)
(* One program on AtomArraySimulator: the lowering of                      *)
(* simulator/fake_atom_array.py (_lower, _lower_segment, _require_pairing, *)
(* _apply_pairing) over the graph of simulator/_connectivity.py, and one   *)
(* shot of the resulting plan in                                           *)
(* simulator/_engine/workflows/python_workflow.py, _run_one_shot.          *)
(*                                                                         *)
(* Lowering walks the program once, cutting it into segments at every Pair *)
(* and Unpair; pairing is settled there and leaves no step in the plan.    *)
(* The shot then runs the plan against the occupancy it finds.             *)
(***************************************************************************)
EXTENDS Integers, Sequences

CONSTANTS
    Sites, Clbits,
    NoClbit,              \* the clbit field of an operation that has none
    ChannelOn,            \* operation kinds with an attached channel
    Programs,             \* the programs a run may be given, with their losses
    InitialOccupancies,   \* occupancies a run may start from
    InitialDigits         \* classical digits a run may start from

ErasureDigit == 2
Digits == 0..ErasureDigit

Operation ==
    [kind : {"rotate", "cz", "pair", "unpair", "put", "measure", "reset"},
     targets : Seq(Sites), clbit : Clbits \cup {NoClbit},
     condition : SUBSET (Clbits \X Digits), loses : BOOLEAN]

\* What an instruction record checks of its operands and its noise.
WellFormed(op) ==
    /\ Len(op.targets) >= 1
    /\ \A j, k \in 1..Len(op.targets) : j # k => op.targets[j] # op.targets[k]
    /\ op.kind \in {"rotate", "measure"} => Len(op.targets) = 1
    /\ op.kind \in {"cz", "pair", "unpair"} => Len(op.targets) = 2
    /\ op.kind = "measure" => op.condition = {}
    /\ op.loses => op.kind \in {"rotate", "cz", "pair", "unpair", "put"}

ASSUME AtomAssumption ==
    /\ ChannelOn \subseteq {"rotate", "cz", "pair", "unpair"}
    /\ \A source \in Programs :
          /\ source \in Seq(Operation)
          /\ \A i \in 1..Len(source) : WellFormed(source[i])
    /\ \A occupancy \in InitialOccupancies : occupancy \subseteq Sites
    /\ InitialDigits \subseteq 0..1

VARIABLES
    program,
    pc,            \* scan, segment, run, done or rejected
    at,            \* instruction the scan of _lower has reached
    first,         \* first instruction not yet lowered
    connectivity,  \* _AtomConnectivity edges
    plan,          \* resolved steps so far
    step,          \* next step of the shot
    initial,       \* the supplied occupancy and digits
    occupied,      \* classical.occupied
    trace,         \* symbolic quantum content per site
    clbits         \* classical.clbits

lowering == <<program, at, first, connectivity, plan, initial>>
shot     == <<step, occupied, trace, clbits>>
vars     == <<lowering, shot, pc>>

Targets(op) == {op.targets[k] : k \in 1..Len(op.targets)}

Init ==
    /\ program \in Programs
    /\ initial \in [occupied : InitialOccupancies, clbits : [Clbits -> InitialDigits]]
    /\ occupied = initial.occupied
    /\ trace = [s \in Sites |-> IF s \in occupied THEN <<"supplied">> ELSE <<>>]
    /\ clbits = initial.clbits
    /\ pc = "scan" /\ at = 1 /\ first = 1 /\ step = 1
    /\ connectivity = {} /\ plan = <<>>
----------------------------------------------------------------------------
(* Lowering.                                                               *)

IsPairing(op) == op.kind \in {"pair", "unpair"}

\* _require_pairing: only the two-qubit gate needs an edge.
RequirePairing(op) == op.kind = "cz" => Targets(op) \in connectivity

Step(kind, i, on, condition) == [kind |-> kind, op |-> i, on |-> on, condition |-> condition]

\* Faulty variant: the noise of a guarded operation is unguarded.
UnguardedChannels(i, condition) ==
    (IF program[i].kind \in ChannelOn
       THEN [k \in 1..Len(program[i].targets) |->
               Step("channel", i, <<program[i].targets[k]>>, {})]
       ELSE <<>>)
    \o (IF program[i].loses
          THEN <<Step("loss", i, program[i].targets, {})>> ELSE <<>>)

\* _lower_channels: attached channels, one per operand, and loss.
Channels(i, condition) ==
    (IF program[i].kind \in ChannelOn
       THEN [k \in 1..Len(program[i].targets) |->
               Step("channel", i, <<program[i].targets[k]>>, condition)]
       ELSE <<>>)
    \o (IF program[i].loses
          THEN <<Step("loss", i, program[i].targets, condition)>> ELSE <<>>)

\* _lower_gate, _lower_put, _lower_measurement and _lower_reset.
Lowered(i) ==
    <<Step(program[i].kind, i, program[i].targets, program[i].condition)>>
    \o Channels(i, program[i].condition)

AtOrdinary == at <= Len(program) /\ ~IsPairing(program[at])

Scan ==
    /\ pc = "scan"
    /\ AtOrdinary
    /\ at' = at + 1
    /\ UNCHANGED <<program, first, connectivity, plan, initial, shot, pc>>

\* A pairing instruction, or the end, closes the segment first..at-1.
OpenSegment ==
    /\ pc = "scan"
    /\ ~AtOrdinary
    /\ pc' = IF \A i \in first..(at - 1) : RequirePairing(program[i])
               THEN "segment" ELSE "rejected"
    /\ UNCHANGED <<lowering, shot>>

\* Faulty variant: the instruction that closes the segment is in it.
LowerNextWithBoundary ==
    /\ pc = "segment"
    /\ first <= at /\ first <= Len(program)
    /\ plan' = plan \o Lowered(first)
    /\ first' = first + 1
    /\ UNCHANGED <<program, at, connectivity, initial, shot, pc>>

LowerNext ==
    /\ pc = "segment"
    /\ first < at
    /\ plan' = plan \o Lowered(first)
    /\ first' = first + 1
    /\ UNCHANGED <<program, at, connectivity, initial, shot, pc>>

\* Faulty variant: an Unpair forgets every edge of its atoms' graph.
EdgesForgettingAll(op) ==
    IF op.kind = "pair" THEN connectivity \cup {Targets(op)} ELSE {}

\* _AtomConnectivity.pair and unpair.
Edges(op) ==
    IF op.kind = "pair" THEN connectivity \cup {Targets(op)}
                        ELSE connectivity \ {Targets(op)}

\* The instruction's noise is emitted, then the graph changes.
ApplyPairing ==
    /\ pc = "segment"
    /\ first = at /\ at <= Len(program)
    /\ plan' = plan \o Channels(at, {})
    /\ IF program[at].condition # {}
         THEN pc' = "rejected" /\ UNCHANGED <<at, first, connectivity>>
         ELSE /\ connectivity' = Edges(program[at])
              /\ at' = at + 1 /\ first' = at + 1
              /\ pc' = "scan"
    /\ UNCHANGED <<program, initial, shot>>

StartShot ==
    /\ pc = "segment"
    /\ first = at /\ at > Len(program)
    /\ pc' = "run"
    /\ UNCHANGED <<lowering, shot>>
----------------------------------------------------------------------------
(* One shot: one plan step per action.                                     *)

Current(kinds) == pc = "run" /\ step <= Len(plan) /\ plan[step].kind \in kinds

On == {plan[step].on[k] : k \in 1..Len(plan[step].on)}

\* _condition_matches.
Matches == \A term \in plan[step].condition : clbits[term[1]] = term[2]

Append1(on, event) == [s \in Sites |-> IF s \in on THEN Append(trace[s], event) ELSE trace[s]]
ResetSites(on)     == [s \in Sites |-> IF s \in on THEN <<>> ELSE trace[s]]

\* A site in |0> reads 0; any other reads either digit.
Physical(s) == IF trace[s] = <<>> THEN {0} ELSE {0, 1}

Advance == step' = step + 1 /\ UNCHANGED <<lowering, pc>>

\* Faulty variant: one present operand is enough.
AnyPresent == On \cap occupied # {}

AllPresent == On \subseteq occupied

ApplyMatrix ==
    /\ Current({"rotate", "cz"})
    /\ trace' = IF AllPresent /\ Matches THEN Append1(On, <<plan[step].op, "gate">>) ELSE trace
    /\ UNCHANGED <<occupied, clbits>>
    /\ Advance

\* Faulty variant: the channel of an absent atom still runs.
ApplyChannelAnywhere ==
    /\ Current({"channel"})
    /\ trace' = IF Matches THEN Append1(On, <<plan[step].op, "channel">>) ELSE trace
    /\ UNCHANGED <<occupied, clbits>>
    /\ Advance

ApplyChannel ==
    /\ Current({"channel"})
    /\ trace' = IF AllPresent /\ Matches THEN Append1(On, <<plan[step].op, "channel">>) ELSE trace
    /\ UNCHANGED <<occupied, clbits>>
    /\ Advance

\* Every present target may be lost, independently.
Lose ==
    /\ Current({"loss"})
    /\ \E lost \in IF Matches THEN SUBSET (On \cap occupied) ELSE {{}} :
          /\ occupied' = occupied \ lost
          /\ trace' = ResetSites(lost)
    /\ UNCHANGED clbits
    /\ Advance

\* Faulty variant: a present atom is reloaded as well.
PutAfresh ==
    /\ Current({"put"})
    /\ LET loaded == IF Matches THEN On ELSE {} IN
          /\ occupied' = occupied \cup loaded
          /\ trace' = ResetSites(loaded)
    /\ UNCHANGED clbits
    /\ Advance

Put ==
    /\ Current({"put"})
    /\ LET loaded == IF Matches THEN On \ occupied ELSE {} IN
          /\ occupied' = occupied \cup loaded
          /\ trace' = ResetSites(loaded)
    /\ UNCHANGED clbits
    /\ Advance

Measure ==
    /\ Current({"measure"})
    /\ \E s \in On : \E bit \in Physical(s) :
          /\ trace' = IF trace[s] = <<>> THEN trace ELSE Append1({s}, <<plan[step].op, bit>>)
          /\ clbits' = [clbits EXCEPT ![program[plan[step].op].clbit] =
                           IF s \in occupied THEN bit ELSE ErasureDigit]
    /\ UNCHANGED occupied
    /\ Advance

\* All targets must be present, or none is reset.
Reset ==
    /\ Current({"reset"})
    /\ trace' = IF Matches /\ AllPresent THEN ResetSites(On) ELSE trace
    /\ UNCHANGED <<occupied, clbits>>
    /\ Advance

EndShot ==
    /\ pc = "run" /\ step > Len(plan)
    /\ pc' = "done"
    /\ UNCHANGED <<lowering, shot>>

Next ==
    \/ Scan \/ OpenSegment \/ LowerNext \/ ApplyPairing \/ StartShot
    \/ ApplyMatrix \/ ApplyChannel \/ Lose \/ Put \/ Measure \/ Reset \/ EndShot

Spec == Init /\ [][Next]_vars

\* Lowering and a shot are sequential code that runs to its end.
FairSpec == Spec /\ WF_vars(Next)
----------------------------------------------------------------------------
(* Properties.                                                             *)

TypeOK ==
    /\ program \in Programs
    /\ pc \in {"scan", "segment", "run", "done", "rejected"}
    /\ at \in 1..(Len(program) + 1)
    /\ first \in 1..at
    /\ connectivity \subseteq {{a, b} : a, b \in Sites}
    /\ step \in 1..(Len(plan) + 1)
    /\ occupied \subseteq Sites
    /\ trace = [s \in Sites |-> trace[s]]
    /\ clbits \in [Clbits -> Digits]

(* An empty site always holds |0>: no gate or channel reaches it and a     *)
(* lost atom leaves nothing behind, so a refill starts fresh and an        *)
(* entangled partner's loss cannot resurface (python_workflow.py:293-334). *)
EmptySitesGround == TypeOK /\ \A s \in Sites \ occupied : trace[s] = <<>>

PutSites(k) == {plan[k].on[j] : j \in 1..Len(plan[k].on)}
Puts        == {k \in 1..Len(plan) : plan[k].kind = "put"}

\* Faulty variant: every Put is taken to load.
ForecastUnguarded == initial.occupied \cup UNION {PutSites(k) : k \in Puts}

\* _prepare_expectation: the occupancy forecast from the initial digits.
Forecast ==
    initial.occupied \cup
       UNION {PutSites(k) : k \in {p \in Puts : \A term \in plan[p].condition :
                                                  initial.clbits[term[1]] = term[2]}}

IsEstimable == \A k \in 1..Len(plan) : plan[k].kind \notin {"loss", "measure"}

(* For the programs an estimator accepts, the occupancy forecast from the  *)
(* plan alone is the one the shot ends with, so no observable is evaluated *)
(* on an empty site (fake_atom_array.py:252-266).                          *)
ForecastExact == (pc = "done" /\ IsEstimable) => occupied = Forecast

(* Where a step of the plan stands in the program: four slots an           *)
(* operation, for its effect, a channel on either operand, and its loss.   *)
Phase(s) == IF s.kind = "channel" THEN IF s.on[1] = program[s.op].targets[1] THEN 1 ELSE 2
            ELSE IF s.kind = "loss" THEN 3 ELSE 0
SlotOf(s) == 4 * s.op - 3 + Phase(s)

Semantics == INSTANCE AtomSemantics
    WITH position <- IF step = 1 THEN 0 ELSE SlotOf(plan[step - 1]),
         verdict <- IF pc \in {"scan", "segment"} THEN "open"
                    ELSE IF pc = "run" THEN "running" ELSE pc

(* Lowering and execution together do what the documentation says of the   *)
(* program read from top to bottom: exactly the programs with an unpaired  *)
(* CZ or a guarded Pair are refused, and otherwise every operation acts    *)
(* once, in order, on the atoms present, with its noise after it.          *)
ImplementsSemantics == Semantics!Spec
=============================================================================
