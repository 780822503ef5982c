--------------------------- MODULE AtomSemantics ---------------------------
(***************************************************************************)
(* What the atom-array documentation promises of one shot: the program's   *)
(* operations take effect in program order, each on the atoms present at   *)
(* that moment, and its attached noise follows it.                         *)
(*                                                                         *)
(* A site's quantum content is symbolic: the operations that acted on it   *)
(* since it was last prepared in |0>.                                      *)
(***************************************************************************)
EXTENDS Integers, Sequences

CONSTANTS
    Sites,
    ChannelOn   \* operation kinds with an attached one-site channel

VARIABLES
    program,
    verdict,    \* open, running, rejected or done
    position,   \* the last slot of the program that has happened
    occupied, trace, clbits

vars == <<program, verdict, position, occupied, trace, clbits>>

ErasureDigit == 2

TargetSet(op) == {op.targets[k] : k \in 1..Len(op.targets)}
IsPairing(op) == op.kind \in {"pair", "unpair"}

\* The last pairing instruction on these two atoms before i was a Pair.
PairedAt(i, atoms) ==
    \E p \in 1..(i - 1) :
       /\ program[p].kind = "pair" /\ TargetSet(program[p]) = atoms
       /\ \A u \in p..(i - 1) : program[u].kind = "unpair" => TargetSet(program[u]) # atoms

Legal(i) ==
    /\ program[i].kind = "cz" => PairedAt(i, TargetSet(program[i]))
    /\ IsPairing(program[i]) => program[i].condition = {}

Admissible == \A i \in 1..Len(program) : Legal(i)

\* Four slots an operation: its effect, a channel on either operand, its loss.
SlotSites(op, phase) ==
    IF phase = 0 THEN IF IsPairing(op) THEN {} ELSE TargetSet(op)
    ELSE IF phase = 3 THEN IF op.loses THEN TargetSet(op) ELSE {}
    ELSE IF op.kind \in ChannelOn /\ phase <= Len(op.targets) THEN {op.targets[phase]} ELSE {}

OpSlot(i, phase) == [op |-> i, phase |-> phase, on |-> SlotSites(program[i], phase)]

Slot(k) == OpSlot((k + 3) \div 4, (k - 1) % 4)

Slots == 1..(4 * Len(program))

\* Slot k comes next: nothing is due between it and the last that happened.
Due(k)  == k > position /\ Slot(k).on # {}
Turn(k) == Due(k) /\ \A j \in Slots : Due(j) => k <= j

Holds(condition) == \A term \in condition : clbits[term[1]] = term[2]

Note(on, event) == [s \in Sites |-> IF s \in on THEN Append(trace[s], event) ELSE trace[s]]
Ground(on)      == [s \in Sites |-> IF s \in on THEN <<>> ELSE trace[s]]

\* A site in |0> reads 0; any other reads either digit.
Readings(s) == IF trace[s] = <<>> THEN {0} ELSE {0, 1}

Init ==
    /\ verdict = "open"
    /\ position = 0

Reject == verdict = "open" /\ ~Admissible /\ verdict' = "rejected"
          /\ UNCHANGED <<program, position, occupied, trace, clbits>>

Accept == verdict = "open" /\ Admissible /\ verdict' = "running"
          /\ UNCHANGED <<program, position, occupied, trace, clbits>>

Gate(slot, op) ==
    /\ op.kind \in {"rotate", "cz"}
    /\ trace' = IF slot.on \subseteq occupied THEN Note(slot.on, <<slot.op, "gate">>) ELSE trace
    /\ UNCHANGED <<occupied, clbits>>

\* Reset does nothing on an empty site and reprepares every other target.
Reset(slot, op) ==
    /\ op.kind = "reset"
    /\ trace' = Ground(slot.on \cap occupied)
    /\ UNCHANGED <<occupied, clbits>>

Put(slot, op) ==
    /\ op.kind = "put"
    /\ trace' = Ground(slot.on \ occupied)
    /\ occupied' = occupied \cup slot.on
    /\ UNCHANGED clbits

Measure(slot, op) ==
    /\ op.kind = "measure"
    /\ \E s \in slot.on : \E bit \in Readings(s) :
          /\ clbits' = [clbits EXCEPT ![op.clbit] = IF s \in occupied THEN bit ELSE ErasureDigit]
          /\ trace' = IF trace[s] = <<>> THEN trace ELSE Note({s}, <<slot.op, bit>>)
    /\ UNCHANGED occupied

Effect(slot) ==
    LET op == program[slot.op] IN
    /\ slot.phase = 0
    /\ IF Holds(op.condition)
         THEN Gate(slot, op) \/ Reset(slot, op) \/ Put(slot, op) \/ Measure(slot, op)
         ELSE UNCHANGED <<occupied, trace, clbits>>

\* Noise shares its operation's condition.
Noise(slot) ==
    /\ slot.phase # 0
    /\ IF ~Holds(program[slot.op].condition)
         THEN UNCHANGED <<occupied, trace>>
         ELSE IF slot.phase = 3
           THEN \E lost \in SUBSET (slot.on \cap occupied) :
                   occupied' = occupied \ lost /\ trace' = Ground(lost)
           ELSE /\ trace' = Note(slot.on \cap occupied, <<slot.op, "channel">>)
                /\ UNCHANGED occupied
    /\ UNCHANGED clbits

Happen ==
    /\ verdict = "running"
    /\ \E k \in Slots :
          /\ Turn(k)
          /\ Effect(Slot(k)) \/ Noise(Slot(k))
          /\ position' = k
    /\ UNCHANGED <<program, verdict>>

Finish ==
    /\ verdict = "running"
    /\ \A k \in Slots : ~Due(k)
    /\ verdict' = "done"
    /\ UNCHANGED <<program, position, occupied, trace, clbits>>

Next == Reject \/ Accept \/ Happen \/ Finish

Spec == Init /\ [][Next]_vars
=============================================================================
