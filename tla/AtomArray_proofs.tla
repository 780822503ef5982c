-------------------------- MODULE AtomArray_proofs --------------------------
(***************************************************************************)
(* Proofs about AtomArray, for every set of sites and every program an     *)
(* instruction record admits.                                              *)
(*                                                                         *)
(* The plan lists the program's slots in order and misses none that is     *)
(* due; the pairing graph is the one the program's text defines; and the   *)
(* shot keeps an empty site in its ground state.                           *)
(***************************************************************************)
EXTENDS AtomArray, SequenceTheorems, TLAPS

PlanKinds == {"rotate", "cz", "put", "measure", "reset", "pair", "unpair", "channel", "loss"}

PlanStep ==
    [kind : PlanKinds, op : 1..Len(program), on : Seq(Sites),
     condition : SUBSET (Clbits \X Digits)]

\* A step is its operation's effect, a channel on one operand, or its loss.
BelongsTo(s, op) ==
    /\ s.condition = op.condition
    /\ \/ s.kind = op.kind /\ s.on = op.targets /\ ~IsPairing(op)
       \/ /\ s.kind = "channel" /\ op.kind \in ChannelOn
          /\ \E k \in 1..Len(op.targets) : s.on = <<op.targets[k]>>
       \/ s.kind = "loss" /\ op.loses /\ s.on = op.targets

InOrder(steps) ==
    \A j, k \in 1..Len(steps) : j < k => SlotOf(steps[j]) < SlotOf(steps[k])

\* Every slot that is due before operation n has a step.
Complete(steps, n) ==
    \A slot \in 1..(4 * n - 4) :
       Semantics!Slot(slot).on # {} => \E k \in 1..Len(steps) : SlotOf(steps[k]) = slot

\* The steps of the operations before n, in the program's order.
Covers(steps, n) ==
    /\ steps \in Seq(PlanStep)
    /\ \A k \in 1..Len(steps) : BelongsTo(steps[k], program[steps[k].op]) /\ steps[k].op < n
    /\ InOrder(steps)
    /\ Complete(steps, n)

----------------------------------------------------------------------------
LEMMA OperationTypes ==
    ASSUME program \in Programs, NEW i \in 1..Len(program)
    PROVE  /\ program \in Seq(Operation) /\ Len(program) \in Nat
           /\ program[i] \in Operation /\ WellFormed(program[i])
           /\ program[i].targets \in Seq(Sites) /\ Len(program[i].targets) \in Nat
<1>1. program \in Seq(Operation) /\ WellFormed(program[i])
  BY AtomAssumption
<1>2. Len(program) \in Nat /\ program[i] \in Operation
  BY <1>1, LenProperties
<1>3. program[i].targets \in Seq(Sites)
  BY <1>2 DEF Operation
<1>4. Len(program[i].targets) \in Nat
  BY <1>3, LenProperties
<1>5. QED
  BY <1>1, <1>2, <1>3, <1>4

\* A function on 1..n is a sequence of length n.
LEMMA FunctionIsSequence ==
    ASSUME NEW S, NEW n \in Nat, NEW f \in [1..n -> S]
    PROVE  f \in Seq(S) /\ Len(f) = n
<1>1. f \in Seq(S)
  BY SeqDef
<1>2. Len(f) \in Nat /\ DOMAIN f = 1..Len(f)
  BY <1>1, LenProperties
<1>3. 1..n = 1..Len(f)
  BY <1>2
<1>4. CASE n >= 1
  <2>1. n \in 1..Len(f)
    BY <1>3, <1>4
  <2>2. Len(f) \in 1..n
    BY <1>2, <1>3, <2>1
  <2>3. QED
    BY <1>1, <1>2, <2>1, <2>2
<1>5. CASE n = 0
  <2>1. Len(f) \notin 1..n
    BY <1>5
  <2>2. QED
    BY <1>1, <1>2, <1>3, <1>5, <2>1
<1>6. QED
  BY <1>4, <1>5

LEMMA SlotNumbers ==
    ASSUME NEW i \in Nat, i >= 1, NEW phase \in 0..3
    PROVE  /\ (4 * i - 3 + phase + 3) \div 4 = i
           /\ (4 * i - 3 + phase - 1) % 4 = phase
<1>1. /\ 4 * i - 3 + phase + 3 = 4 * i + phase
      /\ 4 * i - 3 + phase - 1 = 4 * (i - 1) + phase
  OBVIOUS
<1>2. (4 * i + phase) \div 4 = i /\ (4 * (i - 1) + phase) % 4 = phase
  BY SMT
<1>3. QED
  BY <1>1, <1>2

LEMMA SlotRange ==
    ASSUME NEW n \in Nat, NEW i \in 1..n, NEW phase \in 0..3
    PROVE  i \in Nat /\ i >= 1 /\ 4 * i - 3 + phase \in 1..(4 * n)
OBVIOUS

LEMMA SlotMeaning ==
    ASSUME NEW i \in Nat, i >= 1, NEW phase \in 0..3, NEW slot, slot = 4 * i - 3 + phase
    PROVE  Semantics!Slot(slot) = Semantics!OpSlot(i, phase)
<1>1. (slot + 3) \div 4 = i /\ (slot - 1) % 4 = phase
  BY SlotNumbers
<1>2. QED
  BY <1>1 DEF Semantics!Slot

\* A step of the plan does what its slot says, where it says.
LEMMA StepMeaning ==
    ASSUME program \in Programs, NEW s \in PlanStep, BelongsTo(s, program[s.op])
    PROVE  /\ Phase(s) \in 0..3
           /\ SlotOf(s) \in 1..(4 * Len(program))
           /\ SlotOf(s) = 4 * s.op - 3 + Phase(s)
           /\ s.on \in Seq(Sites) /\ Len(s.on) \in Nat /\ Len(s.on) >= 1
           /\ Semantics!Slot(SlotOf(s))
                = [op |-> s.op, phase |-> Phase(s), on |-> {s.on[k] : k \in 1..Len(s.on)}]
           /\ Semantics!Slot(SlotOf(s)).on # {}
<1> DEFINE op == program[s.op]
<1>1. /\ s.op \in 1..Len(program) /\ s.on \in Seq(Sites) /\ s.kind \in PlanKinds
  BY DEF PlanStep
<1>2. /\ Len(program) \in Nat /\ op \in Operation /\ WellFormed(op)
      /\ op.targets \in Seq(Sites) /\ Len(op.targets) \in Nat
  BY <1>1, OperationTypes
<1>3. op.kind \notin {"channel", "loss"}
  BY <1>2 DEF Operation
<1>4. Phase(s) \in 0..3
  BY DEF Phase
<1>5. /\ SlotOf(s) = 4 * s.op - 3 + Phase(s) /\ SlotOf(s) \in 1..(4 * Len(program))
      /\ s.op \in Nat /\ s.op >= 1
  BY <1>1, <1>2, <1>4, SlotRange DEF SlotOf
<1>6. Semantics!Slot(SlotOf(s)) = Semantics!OpSlot(s.op, Phase(s))
  BY <1>4, <1>5, SlotMeaning
<1>7. /\ Semantics!SlotSites(op, Phase(s)) = {s.on[k] : k \in 1..Len(s.on)}
      /\ Len(s.on) \in Nat /\ Len(s.on) >= 1
  <2>1. CASE s.kind = op.kind /\ s.on = op.targets /\ ~IsPairing(op)
    <3>1. Phase(s) = 0
      BY <2>1, <1>3 DEF Phase
    <3>2. QED
      BY <2>1, <3>1, <1>2 DEF Semantics!SlotSites, Semantics!TargetSet, WellFormed,
         Semantics!IsPairing, IsPairing
  <2>2. CASE s.kind = "channel" /\ op.kind \in ChannelOn
             /\ \E k \in 1..Len(op.targets) : s.on = <<op.targets[k]>>
    <3>1. PICK k \in 1..Len(op.targets) : s.on = <<op.targets[k]>>
      BY <2>2
    <3>2. op.kind \in {"rotate", "cz", "pair", "unpair"}
      BY <2>2, AtomAssumption
    <3>3. Len(op.targets) \in {1, 2} /\ Len(op.targets) >= 1
      BY <3>2, <1>2 DEF WellFormed
    <3>4. k \in {1, 2}
      BY <3>1, <3>3, <1>2
    <3>5. Phase(s) = k
      <4>1. s.on[1] = op.targets[k]
        BY <3>1
      <4>2. k = 2 => op.targets[k] # op.targets[1]
        BY <1>2, <3>1, <3>3 DEF WellFormed
      <4>3. QED
        BY <4>1, <4>2, <3>4, <2>2 DEF Phase
    <3>6. Semantics!SlotSites(op, k) = {op.targets[k]}
      BY <2>2, <3>1, <3>4, <1>2 DEF Semantics!SlotSites
    <3>7. {s.on[j] : j \in 1..Len(s.on)} = {op.targets[k]} /\ Len(s.on) = 1
      BY <3>1
    <3>8. QED
      BY <3>5, <3>6, <3>7
  <2>3. CASE s.kind = "loss" /\ op.loses /\ s.on = op.targets
    <3>1. Phase(s) = 3
      BY <2>3 DEF Phase
    <3>2. QED
      BY <2>3, <3>1, <1>2 DEF Semantics!SlotSites, Semantics!TargetSet, WellFormed,
         Semantics!IsPairing, IsPairing
  <2>4. QED
    BY <2>1, <2>2, <2>3 DEF BelongsTo
<1>8. Semantics!Slot(SlotOf(s))
        = [op |-> s.op, phase |-> Phase(s), on |-> {s.on[k] : k \in 1..Len(s.on)}]
  BY <1>6, <1>7 DEF Semantics!OpSlot
<1>9. Semantics!Slot(SlotOf(s)).on # {}
  <2>1. s.on[1] \in {s.on[k] : k \in 1..Len(s.on)}
    BY <1>7
  <2>2. Semantics!Slot(SlotOf(s)).on = {s.on[k] : k \in 1..Len(s.on)}
    BY <1>8
  <2>3. QED
    BY <2>1, <2>2
<1>10. QED
  BY <1>1, <1>4, <1>5, <1>7, <1>8, <1>9

----------------------------------------------------------------------------
\* The steps of one operation, of phase low or later.
IsChunk(steps, i, low) ==
    /\ steps \in Seq(PlanStep)
    /\ \A k \in 1..Len(steps) : /\ steps[k].op = i /\ BelongsTo(steps[k], program[i])
                                /\ Phase(steps[k]) \in low..3
    /\ \A j, k \in 1..Len(steps) : j < k => Phase(steps[j]) < Phase(steps[k])
    /\ \A phase \in low..3 : Semantics!SlotSites(program[i], phase) # {} =>
          \E k \in 1..Len(steps) : Phase(steps[k]) = phase

\* One channel step per operand of a noisy operation, then one loss step.
NoiseSteps(steps, i, condition, a, b) ==
    LET op == program[i] IN
    /\ steps \in Seq(PlanStep) /\ Len(steps) = a + b
    /\ op.kind \in ChannelOn => a = Len(op.targets)
    /\ op.loses => b = 1
    /\ \A k \in 1..Len(steps) :
          \/ /\ k <= a /\ k \in 1..Len(op.targets) /\ op.kind \in ChannelOn
             /\ steps[k] = Step("channel", i, <<op.targets[k]>>, condition)
          \/ /\ k = a + 1 /\ op.loses
             /\ steps[k] = Step("loss", i, op.targets, condition)

LEMMA ChannelsAreNoiseSteps ==
    ASSUME program \in Programs, NEW i \in 1..Len(program),
           NEW condition \in SUBSET (Clbits \X Digits)
    PROVE  \E a \in 0..2, b \in 0..1 : NoiseSteps(Channels(i, condition), i, condition, a, b)
<1> DEFINE op == program[i]
           A == IF op.kind \in ChannelOn
                  THEN [k \in 1..Len(op.targets) |->
                          Step("channel", i, <<op.targets[k]>>, condition)]
                  ELSE <<>>
           B == IF op.loses THEN <<Step("loss", i, op.targets, condition)>> ELSE <<>>
           c == A \o B
<1>1. /\ Len(program) \in Nat /\ op \in Operation /\ WellFormed(op)
      /\ op.targets \in Seq(Sites) /\ Len(op.targets) \in Nat
  BY OperationTypes
<1>2. op.loses \in BOOLEAN
  BY <1>1 DEF Operation
<1>3. \A k \in 1..Len(op.targets) :
         /\ op.targets[k] \in Sites
         /\ Step("channel", i, <<op.targets[k]>>, condition) \in PlanStep
  <2>1. TAKE k \in 1..Len(op.targets)
  <2>2. op.targets[k] \in Sites
    BY <1>1, ElementOfSeq
  <2>3. <<op.targets[k]>> \in Seq(Sites)
    BY <2>2
  <2>4. QED
    BY <1>2, <2>2, <2>3 DEF Step, PlanStep, PlanKinds
<1>4. Step("loss", i, op.targets, condition) \in PlanStep
  BY <1>1, <1>2 DEF Step, PlanStep, PlanKinds
<1>5. /\ A \in Seq(PlanStep) /\ Len(A) \in Nat /\ Len(A) <= 2
      /\ op.kind \in ChannelOn => Len(A) = Len(op.targets)
      /\ \A k \in 1..Len(A) : /\ A[k] = Step("channel", i, <<op.targets[k]>>, condition)
                               /\ k \in 1..Len(op.targets) /\ op.kind \in ChannelOn
  <2>1. CASE op.kind \in ChannelOn
    <3>1. op.kind \in {"rotate", "cz", "pair", "unpair"}
      BY <2>1, AtomAssumption
    <3>2. Len(op.targets) \in Nat /\ Len(op.targets) <= 2
      BY <3>1, <1>1 DEF WellFormed
    <3>3. A = [k \in 1..Len(op.targets) |-> Step("channel", i, <<op.targets[k]>>, condition)]
      BY <2>1
    <3>4. A \in [1..Len(op.targets) -> PlanStep]
      BY <1>3, <3>3
    <3> HIDE DEF A
    <3>5. A \in Seq(PlanStep) /\ Len(A) = Len(op.targets)
      BY <1>1, <3>4, FunctionIsSequence
    <3>6. QED
      BY <2>1, <3>2, <3>3, <3>5
  <2>2. CASE op.kind \notin ChannelOn
    <3>1. A = <<>>
      BY <2>2
    <3>2. QED
      BY <2>2, <3>1
  <2>3. QED
    BY <2>1, <2>2
<1>6. /\ B \in Seq(PlanStep) /\ Len(B) \in Nat /\ Len(B) <= 1
      /\ op.loses => Len(B) = 1
      /\ \A k \in 1..Len(B) : B[k] = Step("loss", i, op.targets, condition) /\ op.loses
  <2>1. CASE op.loses
    BY <2>1, <1>4
  <2>2. CASE ~op.loses
    BY <2>2
  <2>3. QED
    BY <2>1, <2>2
<1>7. c = Channels(i, condition)
  BY DEF Channels
<1> HIDE DEF A, B
<1>8. /\ c \in Seq(PlanStep) /\ Len(c) = Len(A) + Len(B)
      /\ \A k \in 1..Len(c) : c[k] = IF k <= Len(A) THEN A[k] ELSE B[k - Len(A)]
  BY <1>5, <1>6, ConcatProperties
<1>9. Len(A) \in 0..2 /\ Len(B) \in 0..1
  <2>1. \A n \in Nat : (n <= 2 => n \in 0..2) /\ (n <= 1 => n \in 0..1)
    OBVIOUS
  <2>2. Len(A) \in Nat /\ Len(A) <= 2 /\ Len(B) \in Nat /\ Len(B) <= 1
    BY <1>5, <1>6
  <2>3. QED
    BY <2>1, <2>2
<1> HIDE DEF c
<1>10. \A k \in 1..Len(c) :
          \/ /\ k <= Len(A) /\ k \in 1..Len(op.targets) /\ op.kind \in ChannelOn
             /\ c[k] = Step("channel", i, <<op.targets[k]>>, condition)
          \/ /\ k = Len(A) + 1 /\ op.loses
             /\ c[k] = Step("loss", i, op.targets, condition)
  BY <1>5, <1>6, <1>8
<1>11. NoiseSteps(c, i, condition, Len(A), Len(B))
  BY <1>5, <1>6, <1>8, <1>10 DEF NoiseSteps
<1>12. QED
  BY <1>7, <1>9, <1>11

LEMMA NoiseIsChunk ==
    ASSUME program \in Programs, NEW i \in 1..Len(program)
    PROVE  IsChunk(Channels(i, program[i].condition), i, 1)
<1> DEFINE op == program[i]
           c == Channels(i, op.condition)
<1>1. /\ Len(program) \in Nat /\ op \in Operation /\ WellFormed(op)
      /\ op.targets \in Seq(Sites) /\ Len(op.targets) \in Nat
  BY OperationTypes
<1>2. op.condition \in SUBSET (Clbits \X Digits)
  BY <1>1 DEF Operation
<1>3. PICK a \in 0..2, b \in 0..1 : NoiseSteps(c, i, op.condition, a, b)
  BY <1>2, ChannelsAreNoiseSteps
<1> HIDE DEF c
<1>4. /\ c \in Seq(PlanStep) /\ Len(c) = a + b /\ Len(c) \in Nat
      /\ op.kind \in ChannelOn => a = Len(op.targets)
      /\ op.loses => b = 1
      /\ \A k \in 1..Len(c) :
            \/ /\ k <= a /\ k \in 1..Len(op.targets) /\ op.kind \in ChannelOn
               /\ c[k] = Step("channel", i, <<op.targets[k]>>, op.condition)
            \/ /\ k = a + 1 /\ op.loses
               /\ c[k] = Step("loss", i, op.targets, op.condition)
  BY <1>3, LenProperties DEF NoiseSteps
<1>5. \A k \in 1..Len(c) : /\ c[k].op = i /\ BelongsTo(c[k], op)
                            /\ (k <= a => Phase(c[k]) = k) /\ (k > a => Phase(c[k]) = 3)
  <2>1. TAKE k \in 1..Len(c)
  <2>2. CASE /\ k <= a /\ k \in 1..Len(op.targets) /\ op.kind \in ChannelOn
             /\ c[k] = Step("channel", i, <<op.targets[k]>>, op.condition)
    <3>1. /\ c[k].kind = "channel" /\ c[k].op = i /\ c[k].on = <<op.targets[k]>>
          /\ c[k].condition = op.condition
      BY <2>2 DEF Step
    <3>2. c[k].on[1] = op.targets[k]
      BY <3>1
    <3>3. k \in 1..2
      BY <2>2, <1>4
    <3>8. ~(k > a)
      BY <2>2, <1>4
    <3>4. k = 2 => op.targets[k] # op.targets[1]
      BY <1>1, <2>2 DEF WellFormed
    <3>5. Phase(c[k]) = k
      BY <3>1, <3>2, <3>3, <3>4 DEF Phase
    <3>6. BelongsTo(c[k], op)
      BY <2>2, <3>1 DEF BelongsTo
    <3>7. QED
      BY <2>2, <3>1, <3>5, <3>6, <3>8
  <2>3. CASE /\ k = a + 1 /\ op.loses
             /\ c[k] = Step("loss", i, op.targets, op.condition)
    <3>1. /\ c[k].kind = "loss" /\ c[k].op = i /\ c[k].on = op.targets
          /\ c[k].condition = op.condition
      BY <2>3 DEF Step
    <3>2. BelongsTo(c[k], op) /\ Phase(c[k]) = 3
      BY <2>3, <3>1 DEF BelongsTo, Phase
    <3>3. k > a /\ ~(k <= a)
      BY <2>3, <1>4
    <3>4. QED
      BY <3>1, <3>2, <3>3
  <2>4. QED
    BY <1>4, <2>2, <2>3
<1>6. \A j, k \in 1..Len(c) : j < k => Phase(c[j]) < Phase(c[k])
  <2>1. TAKE j, k \in 1..Len(c)
  <2>2. /\ Len(c) = a + b
        /\ (j <= a => Phase(c[j]) = j) /\ (j > a => Phase(c[j]) = 3)
        /\ (k <= a => Phase(c[k]) = k) /\ (k > a => Phase(c[k]) = 3)
    BY <1>4, <1>5
  <2>3. QED
    BY <2>2
<1>7. \A phase \in 1..3 : Semantics!SlotSites(op, phase) # {} =>
          \E k \in 1..Len(c) : Phase(c[k]) = phase
  <2>1. ASSUME NEW phase \in 1..3, Semantics!SlotSites(op, phase) # {}
        PROVE  \E k \in 1..Len(c) : Phase(c[k]) = phase
    <3>1. CASE phase = 3
      <4>1. op.loses
        BY <2>1, <3>1 DEF Semantics!SlotSites
      <4>2. b = 1
        BY <4>1, <1>4
      <4>3. a + 1 \in 1..Len(c) /\ a + 1 > a
        BY <4>2, <1>4
      <4>4. QED
        BY <4>3, <1>5, <3>1
    <3>2. CASE phase \in 1..2
      <4>1. op.kind \in ChannelOn /\ phase <= Len(op.targets)
        BY <2>1, <3>2 DEF Semantics!SlotSites
      <4>2. phase \in 1..Len(c) /\ phase <= a
        BY <3>2, <4>1, <1>4
      <4>3. QED
        BY <4>2, <1>5
    <3>3. QED
      BY <3>1, <3>2
  <2>2. QED
    BY <2>1
<1>8. \A k \in 1..Len(c) : Phase(c[k]) \in 1..3
  <2>1. TAKE k \in 1..Len(c)
  <2>2. /\ Len(c) = a + b
        /\ (k <= a => Phase(c[k]) = k) /\ (k > a => Phase(c[k]) = 3)
    BY <1>4, <1>5
  <2>3. QED
    BY <2>2
<1>9. QED
  BY <1>4, <1>5, <1>6, <1>7, <1>8 DEF IsChunk, c

LEMMA OrdinaryIsChunk ==
    ASSUME program \in Programs, NEW i \in 1..Len(program), ~IsPairing(program[i])
    PROVE  IsChunk(Lowered(i), i, 0)
<1> DEFINE op == program[i]
           e == Step(op.kind, i, op.targets, op.condition)
           N == Channels(i, op.condition)
           c == <<e>> \o N
<1>1. /\ Len(program) \in Nat /\ op \in Operation /\ WellFormed(op)
      /\ op.targets \in Seq(Sites) /\ Len(op.targets) \in Nat
  BY OperationTypes
<1>2. /\ op.kind \in PlanKinds /\ op.kind \notin {"channel", "loss"}
      /\ op.condition \in SUBSET (Clbits \X Digits)
  BY <1>1 DEF Operation, PlanKinds
<1>3. IsChunk(N, i, 1)
  BY NoiseIsChunk
<1>4. /\ e.op = i /\ e.kind = op.kind /\ e.on = op.targets /\ e.condition = op.condition
      /\ e \in PlanStep
  BY <1>1, <1>2 DEF Step, PlanStep
<1>5. BelongsTo(e, op) /\ Phase(e) = 0
  BY <1>2, <1>4 DEF BelongsTo, Phase
<1>6. c = Lowered(i)
  BY DEF Lowered
<1> HIDE DEF e, N
<1>7. <<e>> \in Seq(PlanStep) /\ Len(<<e>>) = 1 /\ <<e>>[1] = e
  BY <1>4
<1>8. /\ N \in Seq(PlanStep) /\ Len(N) \in Nat
      /\ c \in Seq(PlanStep) /\ Len(c) = 1 + Len(N)
      /\ \A k \in 1..Len(c) : c[k] = IF k <= 1 THEN <<e>>[k] ELSE N[k - 1]
  BY <1>3, <1>7, ConcatProperties, LenProperties DEF IsChunk
<1> HIDE DEF c
<1>9. /\ Len(c) \in Nat /\ 1 \in 1..Len(c) /\ c[1] = e
      /\ \A k \in 1..Len(c) : k # 1 => k - 1 \in 1..Len(N) /\ c[k] = N[k - 1]
      /\ \A k \in 1..Len(N) : k + 1 \in 1..Len(c) /\ c[k + 1] = N[k]
  BY <1>7, <1>8
<1>10. \A k \in 1..Len(c) : c[k].op = i /\ BelongsTo(c[k], op) /\ Phase(c[k]) \in 0..3
  <2>1. ASSUME NEW k \in 1..Len(c)
        PROVE  c[k].op = i /\ BelongsTo(c[k], op) /\ Phase(c[k]) \in 0..3
    <3>1. CASE k = 1
      BY <3>1, <1>4, <1>5, <1>9
    <3>2. CASE k # 1
      <4>1. k - 1 \in 1..Len(N) /\ c[k] = N[k - 1]
        BY <3>2, <1>9
      <4>2. c[k].op = i /\ BelongsTo(c[k], op) /\ Phase(c[k]) \in 1..3
        BY <4>1, <1>3 DEF IsChunk
      <4>3. QED
        BY <4>2
    <3>3. QED
      BY <3>1, <3>2
  <2>2. QED
    BY <2>1
<1>11. \A j, k \in 1..Len(c) : j < k => Phase(c[j]) < Phase(c[k])
  <2>1. ASSUME NEW j \in 1..Len(c), NEW k \in 1..Len(c), j < k
        PROVE  Phase(c[j]) < Phase(c[k])
    <3>1. k # 1 /\ k - 1 \in 1..Len(N) /\ c[k] = N[k - 1] /\ Phase(N[k - 1]) \in 1..3
      BY <2>1, <1>3, <1>9 DEF IsChunk
    <3>2. CASE j = 1
      BY <3>1, <3>2, <1>5, <1>9
    <3>3. CASE j # 1
      <4>1. j - 1 \in 1..Len(N) /\ c[j] = N[j - 1] /\ j - 1 < k - 1
        BY <2>1, <3>3, <1>9
      <4>2. QED
        BY <3>1, <4>1, <1>3 DEF IsChunk
    <3>4. QED
      BY <3>2, <3>3
  <2>2. QED
    BY <2>1
<1>12. \A phase \in 0..3 : Semantics!SlotSites(op, phase) # {} =>
          \E k \in 1..Len(c) : Phase(c[k]) = phase
  <2>1. ASSUME NEW phase \in 0..3, Semantics!SlotSites(op, phase) # {}
        PROVE  \E k \in 1..Len(c) : Phase(c[k]) = phase
    <3>1. CASE phase = 0
      BY <3>1, <1>5, <1>9
    <3>2. CASE phase \in 1..3
      <4>1. PICK k \in 1..Len(N) : Phase(N[k]) = phase
        BY <2>1, <3>2, <1>3 DEF IsChunk
      <4>2. QED
        BY <4>1, <1>9
    <3>3. QED
      BY <3>1, <3>2
  <2>2. QED
    BY <2>1
<1>13. QED
  BY <1>6, <1>8, <1>10, <1>11, <1>12 DEF IsChunk

\* A pairing instruction has no effect slot.
LEMMA PairingIsChunk ==
    ASSUME program \in Programs, NEW i \in 1..Len(program), IsPairing(program[i]),
           program[i].condition = {}
    PROVE  IsChunk(Channels(i, {}), i, 0)
<1>1. IsChunk(Channels(i, {}), i, 1)
  BY NoiseIsChunk
<1>2. Semantics!SlotSites(program[i], 0) = {}
  BY DEF Semantics!SlotSites, Semantics!IsPairing, IsPairing
<1>3. \A phase \in 0..3 : phase = 0 \/ phase \in 1..3
  OBVIOUS
<1>4. 1..3 \subseteq 0..3
  OBVIOUS
<1>5. QED
  BY <1>1, <1>2, <1>3, <1>4 DEF IsChunk

\* Appending the next operation's steps covers one operation more.
LEMMA CoversOneMore ==
    ASSUME program \in Programs, NEW i \in 1..Len(program), NEW before, NEW chunk,
           Covers(before, i), IsChunk(chunk, i, 0)
    PROVE  Covers(before \o chunk, i + 1)
<1> DEFINE after == before \o chunk
           b == Len(before)
           c == Len(chunk)
           n == Len(after)
<1>1. Len(program) \in Nat /\ i \in Nat /\ i >= 1
  BY OperationTypes
<1>2. before \in Seq(PlanStep) /\ chunk \in Seq(PlanStep) /\ b \in Nat /\ c \in Nat
  BY LenProperties DEF Covers, IsChunk
<1>3. /\ after \in Seq(PlanStep) /\ n = b + c
      /\ \A k \in 1..(b + c) : after[k] = IF k <= b THEN before[k] ELSE chunk[k - b]
  BY <1>2, ConcatProperties
<1>4. /\ \A k \in 1..b : BelongsTo(before[k], program[before[k].op]) /\ before[k].op < i
      /\ \A j, k \in 1..b : j < k => SlotOf(before[j]) < SlotOf(before[k])
      /\ \A slot \in 1..(4 * i - 4) :
            Semantics!Slot(slot).on # {} => \E k \in 1..b : SlotOf(before[k]) = slot
  BY DEF Covers, InOrder, Complete
<1>5. /\ \A k \in 1..c : /\ chunk[k].op = i /\ BelongsTo(chunk[k], program[i])
                          /\ Phase(chunk[k]) \in 0..3
      /\ \A j, k \in 1..c : j < k => Phase(chunk[j]) < Phase(chunk[k])
      /\ \A phase \in 0..3 : Semantics!SlotSites(program[i], phase) # {} =>
            \E k \in 1..c : Phase(chunk[k]) = phase
  BY DEF IsChunk
<1> HIDE DEF b, c, n, after
<1>6. \A k \in 1..n : \/ k \in 1..b /\ after[k] = before[k]
                      \/ k > b /\ k - b \in 1..c /\ after[k] = chunk[k - b]
  BY <1>2, <1>3
<1>7. /\ \A k \in 1..b : k \in 1..n /\ after[k] = before[k]
      /\ \A k \in 1..c : b + k \in 1..n /\ after[b + k] = chunk[k]
  BY <1>2, <1>3
<1>8. \A k \in 1..b : SlotOf(before[k]) \in 1..(4 * i - 4)
  <2>1. TAKE k \in 1..b
  <2>2. before[k] \in PlanStep
    BY <1>2, ElementOfSeq DEF b
  <2>3. /\ SlotOf(before[k]) = 4 * before[k].op - 3 + Phase(before[k])
        /\ Phase(before[k]) \in 0..3 /\ before[k].op < i
        /\ SlotOf(before[k]) \in 1..(4 * Len(program))
    BY <1>4, <2>2, StepMeaning
  <2>4. before[k].op \in 1..(i - 1) /\ i - 1 \in Nat
    BY <1>1, <2>2, <2>3 DEF PlanStep
  <2>5. 4 * before[k].op - 3 + Phase(before[k]) \in 1..(4 * (i - 1))
    BY <2>3, <2>4, SlotRange
  <2>6. QED
    BY <1>1, <2>3, <2>5
<1>9. \A k \in 1..c : SlotOf(chunk[k]) = 4 * i - 3 + Phase(chunk[k])
  BY <1>5 DEF SlotOf
<1>10. \A k \in 1..n : BelongsTo(after[k], program[after[k].op]) /\ after[k].op < i + 1
  <2>1. TAKE k \in 1..n
  <2>2. CASE k \in 1..b /\ after[k] = before[k]
    <3>1. after[k] \in PlanStep /\ BelongsTo(after[k], program[after[k].op]) /\ after[k].op < i
      BY <2>2, <1>2, <1>4, ElementOfSeq DEF b
    <3>2. after[k].op \in Nat
      BY <1>1, <3>1 DEF PlanStep
    <3>3. QED
      BY <1>1, <3>1, <3>2
  <2>3. CASE k > b /\ k - b \in 1..c /\ after[k] = chunk[k - b]
    BY <1>1, <1>5, <2>3
  <2>4. QED
    BY <1>6, <2>2, <2>3
<1>11. \A j, k \in 1..n : j < k => SlotOf(after[j]) < SlotOf(after[k])
  <2>1. ASSUME NEW j \in 1..n, NEW k \in 1..n, j < k
        PROVE  SlotOf(after[j]) < SlotOf(after[k])
    <3>1. CASE k \in 1..b /\ after[k] = before[k]
      <4>1. j \in 1..b /\ after[j] = before[j]
        BY <1>2, <1>3, <1>7, <2>1, <3>1
      <4>2. QED
        BY <1>4, <2>1, <3>1, <4>1
    <3>2. CASE k > b /\ k - b \in 1..c /\ after[k] = chunk[k - b]
      <4>1. SlotOf(after[k]) = 4 * i - 3 + Phase(chunk[k - b]) /\ Phase(chunk[k - b]) \in 0..3
        BY <1>5, <1>9, <3>2
      <4>2. CASE j \in 1..b /\ after[j] = before[j]
        BY <1>1, <1>8, <4>1, <4>2
      <4>3. CASE j > b /\ j - b \in 1..c /\ after[j] = chunk[j - b]
        <5>1. j - b < k - b
          BY <1>2, <2>1
        <5>2. Phase(chunk[j - b]) < Phase(chunk[k - b]) /\ Phase(chunk[j - b]) \in 0..3
          BY <1>5, <3>2, <4>3, <5>1
        <5>3. SlotOf(after[j]) = 4 * i - 3 + Phase(chunk[j - b])
          BY <1>9, <4>3
        <5>4. QED
          BY <1>1, <4>1, <5>2, <5>3
      <4>4. QED
        BY <1>6, <4>2, <4>3
    <3>3. QED
      BY <1>6, <3>1, <3>2
  <2>2. QED
    BY <2>1
<1>12. \A slot \in 1..(4 * (i + 1) - 4) :
          Semantics!Slot(slot).on # {} => \E k \in 1..n : SlotOf(after[k]) = slot
  <2>1. ASSUME NEW slot \in 1..(4 * (i + 1) - 4), Semantics!Slot(slot).on # {}
        PROVE  \E k \in 1..n : SlotOf(after[k]) = slot
    <3>1. CASE slot \in 1..(4 * i - 4)
      <4>1. PICK k \in 1..b : SlotOf(before[k]) = slot
        BY <1>4, <2>1, <3>1
      <4>2. QED
        BY <1>7, <4>1
    <3>2. CASE slot \notin 1..(4 * i - 4)
      <4>1. slot - (4 * i - 3) \in 0..3
        BY <1>1, <3>2
      <4>2. PICK phase \in 0..3 : phase = slot - (4 * i - 3)
        BY <4>1
      <4>3. slot = 4 * i - 3 + phase
        BY <1>1, <4>2
      <4>4. Semantics!Slot(slot) = Semantics!OpSlot(i, phase)
        BY <1>1, <4>3, SlotMeaning
      <4>5. Semantics!SlotSites(program[i], phase) # {}
        BY <2>1, <4>4 DEF Semantics!OpSlot
      <4>6. PICK k \in 1..c : Phase(chunk[k]) = phase
        BY <1>5, <4>5
      <4>7. SlotOf(chunk[k]) = slot
        BY <1>9, <4>3, <4>6
      <4>8. QED
        BY <1>7, <4>7
    <3>3. QED
      BY <3>1, <3>2
  <2>2. QED
    BY <2>1
<1>13. QED
  BY <1>3, <1>10, <1>11, <1>12 DEF Covers, InOrder, Complete, n, after
----------------------------------------------------------------------------
(* The inductive invariant.                                                *)

Bonds == {{a, b} : a, b \in Sites}

\* Lowering: the plan so far, the graph so far, and the checks so far.
LoweringInv ==
    pc # "rejected" =>
       /\ Covers(plan, first)
       /\ pc \in {"scan", "segment"} =>
             /\ \A i \in first..(at - 1) : ~IsPairing(program[i])
             /\ \A i \in first..at : \A atoms \in Bonds :
                   atoms \in connectivity <=> Semantics!PairedAt(i, atoms)
       /\ pc = "scan" => \A i \in 1..(first - 1) : Semantics!Legal(i)
       /\ pc = "segment" => ~AtOrdinary /\ \A i \in 1..(at - 1) : Semantics!Legal(i)
       /\ pc \in {"run", "done"} => first = Len(program) + 1 /\ Semantics!Admissible

\* The guard of step k holds on the initial digits.
HoldsInitially(k) == \A term \in plan[k].condition : initial.clbits[term[1]] = term[2]

\* The occupancy the forecast reaches with the steps before n.
LoadedBy(n) ==
    initial.occupied \cup UNION {PutSites(k) : k \in {p \in Puts : p < n /\ HoldsInitially(p)}}

ShotInv ==
    /\ pc \notin {"run", "done"} =>
          step = 1 /\ occupied = initial.occupied /\ clbits = initial.clbits
    /\ pc = "done" => step = Len(plan) + 1
    /\ \A s \in Sites \ occupied : trace[s] = <<>>
    /\ pc \in {"run", "done"} /\ IsEstimable =>
          clbits = initial.clbits /\ occupied = LoadedBy(step)

IInv == TypeOK /\ LoweringInv /\ ShotInv

LEMMA PairedNext ==
    ASSUME NEW i \in Nat, i >= 1, NEW atoms
    PROVE  Semantics!PairedAt(i + 1, atoms) <=>
              \/ program[i].kind = "pair" /\ Targets(program[i]) = atoms
              \/ /\ Semantics!PairedAt(i, atoms)
                 /\ ~(program[i].kind = "unpair" /\ Targets(program[i]) = atoms)
<1> USE DEF Semantics!TargetSet, Targets
<1> DEFINE Since(p, n) == /\ program[p].kind = "pair" /\ Targets(program[p]) = atoms
                          /\ \A u \in p..(n - 1) : program[u].kind = "unpair"
                                                    => Targets(program[u]) # atoms
<1>1. \A n \in Nat : Semantics!PairedAt(n, atoms) <=> \E p \in 1..(n - 1) : Since(p, n)
  BY DEF Semantics!PairedAt
<1>2. \A p \in 1..(i - 1) : Since(p, i + 1) <=>
         Since(p, i) /\ ~(program[i].kind = "unpair" /\ Targets(program[i]) = atoms)
  OBVIOUS
<1>3. Since(i, i + 1) <=> program[i].kind = "pair" /\ Targets(program[i]) = atoms
  OBVIOUS
<1> HIDE DEF Since
<1>4. (\E p \in 1..i : Since(p, i + 1))
        <=> Since(i, i + 1) \/ \E p \in 1..(i - 1) : Since(p, i + 1)
  OBVIOUS
<1>5. Semantics!PairedAt(i + 1, atoms) <=> \E p \in 1..i : Since(p, i + 1)
  BY <1>1
<1>6. Semantics!PairedAt(i, atoms) <=> \E p \in 1..(i - 1) : Since(p, i)
  BY <1>1
<1>7. QED
  BY <1>2, <1>3, <1>4, <1>5, <1>6
LEMMA PlanTypes ==
    ASSUME IInv
    PROVE  /\ program \in Programs /\ program \in Seq(Operation) /\ Len(program) \in Nat
           /\ at \in Nat /\ first \in Nat /\ step \in Nat
           /\ 1 <= first /\ first <= at /\ at <= Len(program) + 1
           /\ 1 <= step
           /\ pc # "rejected" => plan \in Seq(PlanStep) /\ Len(plan) \in Nat
<1>1. /\ program \in Programs /\ at \in 1..(Len(program) + 1) /\ first \in 1..at
      /\ step \in 1..(Len(plan) + 1)
  BY DEF IInv, TypeOK
<1>2. program \in Seq(Operation)
  BY <1>1, AtomAssumption
<1>3. Len(program) \in Nat
  BY <1>2, LenProperties
<1>4. pc # "rejected" => plan \in Seq(PlanStep) /\ Len(plan) \in Nat
  BY LenProperties DEF IInv, LoweringInv, Covers
<1>5. QED
  BY <1>1, <1>2, <1>3, <1>4

LEMMA CurrentTypes ==
    ASSUME IInv, pc = "run", step <= Len(plan)
    PROVE  /\ step \in 1..Len(plan) /\ plan[step] \in PlanStep
           /\ BelongsTo(plan[step], program[plan[step].op])
           /\ plan[step].op \in 1..Len(program)
           /\ program[plan[step].op] \in Operation /\ WellFormed(program[plan[step].op])
           /\ On \subseteq Sites
<1>1. /\ plan \in Seq(PlanStep) /\ Len(plan) \in Nat /\ step \in Nat /\ 1 <= step
      /\ program \in Programs
  BY PlanTypes
<1>2. step \in 1..Len(plan)
  BY <1>1
<1>3. plan[step] \in PlanStep
  BY <1>1, <1>2, ElementOfSeq
<1>4. BelongsTo(plan[step], program[plan[step].op])
  BY <1>2 DEF IInv, LoweringInv, Covers
<1>5. plan[step].op \in 1..Len(program) /\ plan[step].on \in Seq(Sites)
  BY <1>3 DEF PlanStep
<1>6. On \subseteq Sites
  BY <1>5, ElementOfSeq DEF On
<1>7. program[plan[step].op] \in Operation /\ WellFormed(program[plan[step].op])
  BY <1>1, <1>5, OperationTypes
<1>8. QED
  BY <1>2, <1>3, <1>4, <1>5, <1>6, <1>7

LEMMA InitInv == Init => IInv
<1> SUFFICES ASSUME Init PROVE IInv
  OBVIOUS
<1>1. program \in Programs /\ program \in Seq(Operation) /\ Len(program) \in Nat
  BY AtomAssumption, LenProperties DEF Init
<1>2. plan = <<>> /\ Len(plan) = 0
  BY DEF Init
<1>3. TypeOK
  <2>1. initial.occupied \in InitialOccupancies /\ initial.clbits \in [Clbits -> InitialDigits]
    BY DEF Init
  <2>2. occupied \subseteq Sites
    BY <2>1, AtomAssumption DEF Init
  <2>3. clbits \in [Clbits -> Digits]
    <3>1. InitialDigits \subseteq Digits
      BY AtomAssumption DEF Digits, ErasureDigit
    <3>2. QED
      BY <2>1, <3>1 DEF Init
  <2>4. step \in 1..(Len(plan) + 1) /\ at \in 1..(Len(program) + 1) /\ first \in 1..at
    BY <1>1, <1>2 DEF Init
  <2>5. QED
    BY <2>2, <2>3, <2>4 DEF Init, TypeOK
<1>4. Covers(plan, first)
  BY <1>2 DEF Init, Covers, InOrder, Complete
<1>5. \A i \in first..at : \A atoms \in Bonds :
         atoms \in connectivity <=> Semantics!PairedAt(i, atoms)
  BY DEF Init, Semantics!PairedAt
<1>6. LoweringInv
  BY <1>4, <1>5 DEF Init, LoweringInv
<1>7. ShotInv
  BY DEF Init, ShotInv
<1>8. QED
  BY <1>3, <1>6, <1>7 DEF IInv

\* The program and the supplied state are inputs: no step changes them.
LEMMA InputsStay == [Next]_vars => program' = program /\ initial' = initial
BY DEF Next, vars, lowering, shot, Scan, OpenSegment, LowerNext, ApplyPairing, StartShot,
       ApplyMatrix, ApplyChannel, Lose, Put, Measure, Reset, EndShot, Advance

LEMMA CoversPrime ==
    ASSUME program' = program, Covers(plan', first')
    PROVE  Covers(plan, first)'
<1>1. plan' \in Seq(PlanStep)'
  BY DEF Covers, PlanStep
<1>2. /\ \A k \in 1..Len(plan') : /\ BelongsTo(plan'[k], program[plan'[k].op])
                                  /\ plan'[k].op < first'
      /\ InOrder(plan') /\ Complete(plan', first')
  BY DEF Covers
<1>3. InOrder(plan)'
  BY <1>2 DEF InOrder, SlotOf, Phase
<1>4. \A slot : Semantics!Slot(slot)' = Semantics!Slot(slot)
  BY DEF Semantics!Slot, Semantics!OpSlot
<1>5. Complete(plan, first)'
  BY <1>2, <1>4 DEF Complete, SlotOf, Phase
<1>6. QED
  BY <1>1, <1>2, <1>3, <1>5 DEF Covers
\* Lowering one instruction covers it, and appends steps only.
LEMMA LowerCovers ==
    ASSUME IInv, LowerNext
    PROVE  Covers(plan, first)' /\ first \in 1..Len(program)
<1>1. /\ program \in Programs /\ Len(program) \in Nat /\ first \in 1..Len(program)
      /\ pc = "segment" /\ first <= at - 1 /\ first \in first..(at - 1)
  BY PlanTypes DEF LowerNext
<1>2. Covers(plan, first) /\ ~IsPairing(program[first])
  BY <1>1 DEF IInv, LoweringInv
<1>3. Covers(plan \o Lowered(first), first + 1)
  BY <1>1, <1>2, OrdinaryIsChunk, CoversOneMore
<1>4. plan' = plan \o Lowered(first) /\ first' = first + 1 /\ program' = program
  BY DEF LowerNext
<1>5. QED
  BY <1>1, <1>3, <1>4, CoversPrime

LEMMA PairingCovers ==
    ASSUME IInv, ApplyPairing
    PROVE  /\ at \in 1..Len(program) /\ IsPairing(program[at])
           /\ plan' = plan \o Channels(at, {}) /\ Len(plan') \in Nat
           /\ program[at].condition = {} => Covers(plan, first)'
<1>1. /\ program \in Programs /\ Len(program) \in Nat /\ at \in 1..Len(program)
      /\ pc = "segment" /\ first = at /\ plan \in Seq(PlanStep)
  BY PlanTypes DEF ApplyPairing
<1>2. Covers(plan, first) /\ IsPairing(program[at])
  BY <1>1 DEF IInv, LoweringInv, AtOrdinary
<1>3. plan' = plan \o Channels(at, {}) /\ program' = program
  BY DEF ApplyPairing
<1>4. Len(plan') \in Nat
  <2>1. {} \in SUBSET (Clbits \X Digits)
    OBVIOUS
  <2>2. Channels(at, {}) \in Seq(PlanStep)
    BY <1>1, <2>1, ChannelsAreNoiseSteps DEF NoiseSteps
  <2>3. plan' \in Seq(PlanStep)
    BY <1>1, <1>3, <2>2, ConcatProperties
  <2>4. QED
    BY <2>3, LenProperties
<1>5. ASSUME program[at].condition = {}
      PROVE  Covers(plan, first)'
  <2>1. Covers(plan \o Channels(at, {}), at + 1)
    BY <1>1, <1>2, <1>5, PairingIsChunk, CoversOneMore
  <2>2. first' = at + 1
    BY <1>5 DEF ApplyPairing
  <2>3. QED
    BY <1>3, <2>1, <2>2, CoversPrime
<1>6. QED
  BY <1>1, <1>2, <1>3, <1>4, <1>5

LEMMA TypeStep == IInv /\ [Next]_vars => TypeOK'
<1> SUFFICES ASSUME IInv, [Next]_vars PROVE TypeOK'
  OBVIOUS
<1>1. /\ Len(program) \in Nat /\ at \in Nat /\ first \in Nat /\ step \in Nat
      /\ 1 <= first /\ first <= at /\ at <= Len(program) + 1 /\ 1 <= step
  BY PlanTypes
<1> USE DEF TypeOK, lowering, shot
<1>2. CASE Scan
  BY <1>1, <1>2 DEF IInv, Scan, AtOrdinary
<1>3. CASE OpenSegment
  BY <1>3 DEF IInv, OpenSegment
<1>4. CASE LowerNext
  <2>1. Len(plan') \in Nat
    BY <1>4, LowerCovers, LenProperties DEF Covers
  <2>2. step = 1
    BY <1>4 DEF IInv, ShotInv, LowerNext
  <2>3. QED
    BY <1>1, <1>4, <2>1, <2>2 DEF IInv, LowerNext
<1>5. CASE ApplyPairing
  <2>1. Len(plan') \in Nat /\ at \in 1..Len(program) /\ IsPairing(program[at])
    BY <1>5, PairingCovers
  <2>2. step = 1 /\ Targets(program[at]) \in Bonds
    <3>1. step = 1
      BY <1>5 DEF IInv, ShotInv, ApplyPairing
    <3>2. /\ program[at].targets \in Seq(Sites) /\ Len(program[at].targets) = 2
      BY <2>1, PlanTypes, OperationTypes DEF WellFormed, IsPairing
    <3>3. program[at].targets[1] \in Sites /\ program[at].targets[2] \in Sites
      BY <3>2, ElementOfSeq
    <3>4. Targets(program[at]) = {program[at].targets[1], program[at].targets[2]}
      BY <3>2 DEF Targets
    <3>5. QED
      BY <3>1, <3>3, <3>4 DEF Bonds
  <2>3. connectivity' \subseteq Bonds
    BY <1>5, <2>2 DEF IInv, ApplyPairing, Edges, Bonds
  <2>4. QED
    BY <1>1, <1>5, <2>1, <2>2, <2>3 DEF IInv, ApplyPairing, Bonds
<1>6. CASE StartShot
  BY <1>6 DEF IInv, StartShot
<1>7. ASSUME pc = "run", step <= Len(plan), Advance
      PROVE  step' \in 1..(Len(plan') + 1) /\ plan' = plan
  BY <1>1, <1>7, PlanTypes DEF Advance
<1>8. CASE ApplyMatrix
  <2>1. trace' = trace \/ \E on, event : trace' = Append1(on, event)
    BY <1>8 DEF ApplyMatrix
  <2>2. trace' = [s \in Sites |-> trace'[s]]
    BY <2>1 DEF IInv, Append1
  <2>3. QED
    BY <1>7, <1>8, <2>2 DEF IInv, ApplyMatrix, Advance, Current
<1>9. CASE ApplyChannel
  <2>1. trace' = trace \/ \E on, event : trace' = Append1(on, event)
    BY <1>9 DEF ApplyChannel
  <2>2. trace' = [s \in Sites |-> trace'[s]]
    BY <2>1 DEF IInv, Append1
  <2>3. QED
    BY <1>7, <1>9, <2>2 DEF IInv, ApplyChannel, Advance, Current
<1>10. CASE Lose
  BY <1>7, <1>10 DEF IInv, Lose, Advance, Current, ResetSites
<1>11. CASE Put
  BY <1>7, <1>11, CurrentTypes DEF IInv, Put, Advance, Current, ResetSites
<1>12. CASE Measure
  <2>1. \A s \in Sites : Physical(s) \subseteq Digits
    BY DEF Physical, Digits, ErasureDigit
  <2>2. On \subseteq Sites
    BY <1>12, CurrentTypes DEF Measure, Current
  <2>3. PICK s \in On : \E bit \in Physical(s) :
           /\ trace' = IF trace[s] = <<>> THEN trace ELSE Append1({s}, <<plan[step].op, bit>>)
           /\ clbits' = [clbits EXCEPT ![program[plan[step].op].clbit] =
                            IF s \in occupied THEN bit ELSE ErasureDigit]
    BY <1>12 DEF Measure
  <2>4. PICK bit \in Physical(s) :
           /\ trace' = IF trace[s] = <<>> THEN trace ELSE Append1({s}, <<plan[step].op, bit>>)
           /\ clbits' = [clbits EXCEPT ![program[plan[step].op].clbit] =
                            IF s \in occupied THEN bit ELSE ErasureDigit]
    BY <2>3
  <2>5. (IF s \in occupied THEN bit ELSE ErasureDigit) \in Digits
    BY <2>1, <2>2, <2>4 DEF Digits, ErasureDigit
  <2>6. clbits' \in [Clbits -> Digits]
    <3>1. clbits \in [Clbits -> Digits]
      BY DEF IInv
    <3>2. \A v \in Digits : \A c : [clbits EXCEPT ![c] = v] \in [Clbits -> Digits]
      BY <3>1
    <3>3. PICK v \in Digits : v = IF s \in occupied THEN bit ELSE ErasureDigit
      BY <2>5
    <3>4. clbits' = [clbits EXCEPT ![program[plan[step].op].clbit] = v]
      BY <2>4, <3>3
    <3>5. QED
      BY <3>2, <3>4
  <2>7. trace' = [u \in Sites |-> trace'[u]]
    BY <2>4 DEF IInv, Append1
  <2>8. QED
    BY <1>7, <1>12, <2>6, <2>7 DEF IInv, Measure, Advance, Current
<1>13. CASE Reset
  BY <1>7, <1>13 DEF IInv, Reset, Advance, Current, ResetSites
<1>14. CASE EndShot
  BY <1>14 DEF IInv, EndShot
<1>15. CASE UNCHANGED vars
  BY <1>15 DEF IInv, vars
<1>16. QED
  BY <1>2, <1>3, <1>4, <1>5, <1>6, <1>8, <1>9, <1>10, <1>11, <1>12, <1>13, <1>14, <1>15 DEF Next

LEMMA LoweringStep == IInv /\ [Next]_vars => LoweringInv'
<1> SUFFICES ASSUME IInv, [Next]_vars PROVE LoweringInv'
  OBVIOUS
<1>1. /\ Len(program) \in Nat /\ at \in Nat /\ first \in Nat
      /\ 1 <= first /\ first <= at /\ at <= Len(program) + 1
      /\ program' = program
  BY PlanTypes, InputsStay
<1> USE DEF LoweringInv, lowering, shot
<1>2. /\ \A i : Semantics!Legal(i)' = Semantics!Legal(i)
      /\ \A i, atoms : Semantics!PairedAt(i, atoms)' = Semantics!PairedAt(i, atoms)
      /\ Semantics!Admissible' = Semantics!Admissible
  BY <1>1 DEF Semantics!Legal, Semantics!PairedAt, Semantics!Admissible
<1>3. ASSUME plan' = plan, first' = first, pc # "rejected"
      PROVE  Covers(plan, first)'
  BY <1>1, <1>3, CoversPrime DEF IInv
<1>4. CASE Scan
  <2>1. /\ pc = "scan" /\ pc' = "scan" /\ at' = at + 1 /\ first' = first
        /\ plan' = plan /\ connectivity' = connectivity
        /\ at \in 1..Len(program) /\ ~IsPairing(program[at])
    BY <1>1, <1>4 DEF Scan, AtOrdinary
  <2>2. \A i \in first'..(at' - 1) : ~IsPairing(program[i])
    BY <1>1, <2>1 DEF IInv
  <2>3. \A atoms \in Bonds : atoms \in connectivity' <=> Semantics!PairedAt(at + 1, atoms)
    <3>1. TAKE atoms \in Bonds
    <3>2. atoms \in connectivity <=> Semantics!PairedAt(at, atoms)
      BY <1>1, <2>1 DEF IInv
    <3>3. program[at].kind \notin {"pair", "unpair"}
      BY <2>1 DEF IsPairing
    <3>4. QED
      BY <1>1, <2>1, <3>2, <3>3, PairedNext
  <2>4. \A i \in first'..at' : \A atoms \in Bonds :
           atoms \in connectivity' <=> Semantics!PairedAt(i, atoms)
    <3>1. \A i \in first'..at' : i \in first..at \/ i = at + 1
      BY <1>1, <2>1
    <3>2. QED
      BY <2>1, <2>3, <3>1 DEF IInv
  <2>5. \A i \in 1..(first' - 1) : Semantics!Legal(i)
    BY <2>1 DEF IInv
  <2>6. QED
    BY <1>1, <1>2, <1>3, <2>1, <2>2, <2>4, <2>5 DEF Bonds
<1>5. CASE OpenSegment
  <2>1. /\ pc = "scan" /\ ~AtOrdinary /\ first' = first /\ at' = at /\ plan' = plan
        /\ connectivity' = connectivity /\ AtOrdinary' = AtOrdinary
    BY <1>1, <1>5 DEF OpenSegment, AtOrdinary
  <2>2. CASE pc' = "segment"
    <3>1. \A i \in first..(at - 1) : RequirePairing(program[i])
      BY <1>5, <2>2 DEF OpenSegment
    <3>2. \A i \in first..(at - 1) : Semantics!Legal(i)
      <4>1. TAKE i \in first..(at - 1)
      <4>2. i \in 1..Len(program) /\ i \in first..at /\ ~IsPairing(program[i])
        BY <1>1, <2>1 DEF IInv
      <4>3. ASSUME program[i].kind = "cz"
            PROVE  Targets(program[i]) \in Bonds
        <5>1. program[i].targets \in Seq(Sites) /\ Len(program[i].targets) = 2
          BY <4>2, <4>3, PlanTypes, OperationTypes DEF WellFormed
        <5>2. program[i].targets[1] \in Sites /\ program[i].targets[2] \in Sites
          BY <5>1, ElementOfSeq
        <5>3. Targets(program[i]) = {program[i].targets[1], program[i].targets[2]}
          BY <5>1 DEF Targets
        <5>4. QED
          BY <5>2, <5>3 DEF Bonds
      <4>4. program[i].kind = "cz" => Semantics!PairedAt(i, Targets(program[i]))
        BY <2>1, <3>1, <4>2, <4>3 DEF IInv, RequirePairing
      <4>5. QED
        BY <4>2, <4>4 DEF Semantics!Legal, Semantics!TargetSet, Targets,
           Semantics!IsPairing, IsPairing
    <3>3. \A i \in 1..(at - 1) : Semantics!Legal(i)
      BY <1>1, <2>1, <3>2 DEF IInv
    <3>4. QED
      BY <1>1, <1>2, <1>3, <2>1, <2>2, <3>3 DEF IInv, Bonds
  <2>3. CASE pc' = "rejected"
    BY <2>3
  <2>4. QED
    BY <1>5, <2>2, <2>3 DEF OpenSegment
<1>6. CASE LowerNext
  <2>1. /\ pc = "segment" /\ pc' = "segment" /\ first' = first + 1 /\ at' = at
        /\ connectivity' = connectivity /\ AtOrdinary' = AtOrdinary /\ first < at
    BY <1>1, <1>6 DEF LowerNext, AtOrdinary
  <2>2. Covers(plan, first)'
    BY <1>6, LowerCovers
  <2>3. \A i : i \in first'..at' => i \in first..at
    BY <1>1, <2>1
  <2>4. \A i : i \in first'..(at' - 1) => i \in first..(at - 1)
    BY <1>1, <2>1
  <2>5. QED
    BY <1>1, <1>2, <2>1, <2>2, <2>3, <2>4 DEF IInv, Bonds
<1>7. CASE ApplyPairing
  <2>1. /\ pc = "segment" /\ first = at /\ at \in 1..Len(program) /\ IsPairing(program[at])
    BY <1>7, PairingCovers DEF ApplyPairing
  <2>2. CASE program[at].condition # {}
    BY <1>7, <2>2 DEF ApplyPairing
  <2>3. CASE program[at].condition = {}
    <3>1. /\ pc' = "scan" /\ at' = at + 1 /\ first' = at + 1
          /\ connectivity' = Edges(program[at])
      BY <1>7, <2>3 DEF ApplyPairing
    <3>2. Covers(plan, first)'
      BY <1>7, <2>3, PairingCovers
    <3>3. \A atoms \in Bonds : atoms \in connectivity' <=> Semantics!PairedAt(at + 1, atoms)
      <4>1. TAKE atoms \in Bonds
      <4>2. atoms \in connectivity <=> Semantics!PairedAt(at, atoms)
        BY <1>1, <2>1 DEF IInv
      <4>3. program[at].kind \in {"pair", "unpair"}
        BY <2>1 DEF IsPairing
      <4>4. QED
        BY <1>1, <3>1, <4>2, <4>3, PairedNext DEF Edges
    <3>4. Semantics!Legal(at)
      BY <2>1, <2>3 DEF Semantics!Legal, Semantics!IsPairing, IsPairing
    <3>5. \A i \in 1..(first' - 1) : Semantics!Legal(i)
      <4>1. \A i \in 1..(first' - 1) : i \in 1..(at - 1) \/ i = at
        BY <1>1, <3>1
      <4>2. QED
        BY <2>1, <3>4, <4>1 DEF IInv
    <3>6. \A i \in first'..at' : i = at + 1
      BY <1>1, <3>1
    <3>7. first'..(at' - 1) = {}
      BY <1>1, <3>1
    <3>8. QED
      BY <1>1, <1>2, <3>1, <3>2, <3>3, <3>5, <3>6, <3>7 DEF Bonds
  <2>4. QED
    BY <2>2, <2>3
<1>8. CASE StartShot
  <2>1. /\ pc = "segment" /\ pc' = "run" /\ first = at /\ at = Len(program) + 1
        /\ first' = first /\ plan' = plan
    BY <1>1, <1>8 DEF StartShot
  <2>2. Semantics!Admissible
    BY <1>1, <2>1 DEF IInv, Semantics!Admissible
  <2>3. QED
    BY <1>1, <1>2, <1>3, <2>1, <2>2
<1>9. CASE ApplyMatrix \/ ApplyChannel \/ Lose \/ Put \/ Measure \/ Reset \/ EndShot
  <2>1. pc = "run" /\ pc' \in {"run", "done"} /\ first' = first /\ plan' = plan
    BY <1>9 DEF ApplyMatrix, ApplyChannel, Lose, Put, Measure, Reset, EndShot, Current, Advance
  <2>2. QED
    BY <1>1, <1>2, <1>3, <2>1 DEF IInv
<1>10. CASE UNCHANGED vars
  <2>1. /\ pc' = pc /\ first' = first /\ at' = at /\ plan' = plan
        /\ connectivity' = connectivity /\ AtOrdinary' = AtOrdinary
    BY <1>10 DEF vars, AtOrdinary
  <2>2. QED
    BY <1>1, <1>2, <1>3, <2>1 DEF IInv, Bonds
<1>11. QED
  BY <1>4, <1>5, <1>6, <1>7, <1>8, <1>9, <1>10 DEF Next

LEMMA LoadedMembers ==
    /\ \A n, x : x \in LoadedBy(n) <=>
          \/ x \in initial.occupied
          \/ \E k \in Puts : k < n /\ HoldsInitially(k) /\ x \in PutSites(k)
    /\ \A x : x \in Forecast <=>
          \/ x \in initial.occupied
          \/ \E k \in Puts : HoldsInitially(k) /\ x \in PutSites(k)
BY DEF LoadedBy, Forecast, HoldsInitially

\* The forecast grows by a step's sites exactly where a Put loads.
LEMMA LoadedNext ==
    ASSUME Len(plan) \in Nat
    PROVE  /\ LoadedBy(1) = initial.occupied
           /\ LoadedBy(Len(plan) + 1) = Forecast
           /\ \A n \in 1..Len(plan) :
                 LoadedBy(n + 1) = LoadedBy(n) \cup
                    IF plan[n].kind = "put" /\ HoldsInitially(n) THEN PutSites(n) ELSE {}
<1>1. LoadedBy(1) = initial.occupied
  <2>1. \A k \in Puts : ~(k < 1)
    BY DEF Puts
  <2>2. QED
    BY <2>1, LoadedMembers
<1>2. LoadedBy(Len(plan) + 1) = Forecast
  <2>1. \A k \in Puts : k < Len(plan) + 1
    BY DEF Puts
  <2>2. QED
    BY <2>1, LoadedMembers
<1>3. ASSUME NEW n \in 1..Len(plan)
      PROVE  LoadedBy(n + 1) = LoadedBy(n) \cup
                IF plan[n].kind = "put" /\ HoldsInitially(n) THEN PutSites(n) ELSE {}
  <2>1. \A k \in Puts : k < n + 1 <=> k < n \/ k = n
    BY DEF Puts
  <2>2. n \in Puts <=> plan[n].kind = "put"
    BY DEF Puts
  <2>3. ~(n < n)
    OBVIOUS
  <2>4. \A x : x \in LoadedBy(n + 1) <=>
           \/ x \in LoadedBy(n)
           \/ plan[n].kind = "put" /\ HoldsInitially(n) /\ x \in PutSites(n)
    BY <2>1, <2>2, <2>3, LoadedMembers
  <2>5. QED
    BY <2>4
<1>4. QED
  BY <1>1, <1>2, <1>3

LEMMA ShotStep == IInv /\ [Next]_vars => ShotInv'
<1> SUFFICES ASSUME IInv, [Next]_vars PROVE ShotInv'
  OBVIOUS
<1> USE DEF lowering, shot
<1>1. CASE Scan \/ OpenSegment \/ LowerNext \/ ApplyPairing
  BY <1>1 DEF IInv, ShotInv, Scan, OpenSegment, LowerNext, ApplyPairing
<1>2. CASE StartShot
  <2>1. /\ step = 1 /\ occupied = initial.occupied /\ clbits = initial.clbits
        /\ pc' = "run" /\ UNCHANGED <<lowering, shot>>
    BY <1>2 DEF StartShot, IInv, ShotInv
  <2>2. LoadedBy(1) = initial.occupied
    BY <1>2, PlanTypes, LoadedNext DEF StartShot
  <2>3. LoadedBy(step)' = LoadedBy(step)
    BY <2>1 DEF LoadedBy, HoldsInitially, Puts, PutSites
  <2>4. QED
    BY <2>1, <2>2, <2>3 DEF IInv, ShotInv
<1>3. CASE EndShot
  <2>1. /\ pc = "run" /\ pc' = "done" /\ UNCHANGED <<lowering, shot>> /\ step = Len(plan) + 1
    BY <1>3, PlanTypes DEF EndShot, IInv, TypeOK
  <2>2. LoadedBy(step)' = LoadedBy(step) /\ IsEstimable' = IsEstimable
    BY <2>1 DEF LoadedBy, HoldsInitially, Puts, PutSites, IsEstimable
  <2>3. QED
    BY <2>1, <2>2 DEF IInv, ShotInv
<1>4. ASSUME pc = "run", step <= Len(plan), Advance,
             \A s \in Sites \ occupied' : trace'[s] = <<>>,
             IsEstimable => /\ clbits' = clbits
                            /\ occupied' = occupied \cup
                                  IF plan[step].kind = "put" /\ Matches THEN On ELSE {}
      PROVE  ShotInv'
  <2>1. pc' = "run" /\ step' = step + 1 /\ plan' = plan /\ initial' = initial
    BY <1>4 DEF Advance
  <2>2. IsEstimable' = IsEstimable
    BY <2>1 DEF IsEstimable
  <2>3. LoadedBy(step)' = LoadedBy(step + 1)
    BY <2>1 DEF LoadedBy, HoldsInitially, Puts, PutSites
  <2>4. ASSUME IsEstimable
        PROVE  clbits' = initial.clbits /\ occupied' = LoadedBy(step + 1)
    <3>1. clbits = initial.clbits /\ occupied = LoadedBy(step)
      BY <1>4, <2>4 DEF IInv, ShotInv
    <3>2. step \in 1..Len(plan) /\ Len(plan) \in Nat
      BY <1>4, PlanTypes, CurrentTypes
    <3>3. LoadedBy(step + 1) = LoadedBy(step) \cup
             IF plan[step].kind = "put" /\ HoldsInitially(step) THEN PutSites(step) ELSE {}
      BY <3>2, LoadedNext
    <3>4. PutSites(step) = On
      BY DEF PutSites, On
    <3>5. QED
      BY <1>4, <2>4, <3>1, <3>3, <3>4 DEF Matches, HoldsInitially
  <2>5. QED
    BY <1>4, <2>1, <2>2, <2>3, <2>4 DEF ShotInv
<1>5. /\ \A s \in Sites \ occupied : trace[s] = <<>>
      /\ \A s \in Sites : \A on, event :
            Append1(on, event)[s] = IF s \in on THEN Append(trace[s], event) ELSE trace[s]
      /\ \A s \in Sites : \A on : ResetSites(on)[s] = IF s \in on THEN <<>> ELSE trace[s]
  BY DEF IInv, ShotInv, Append1, ResetSites
<1>6. CASE ApplyMatrix
  <2>1. \A s \in Sites \ occupied' : trace'[s] = <<>>
    BY <1>5, <1>6 DEF ApplyMatrix, AllPresent
  <2>2. QED
    BY <1>4, <1>6, <2>1 DEF ApplyMatrix, Current
<1>7. CASE ApplyChannel
  <2>1. \A s \in Sites \ occupied' : trace'[s] = <<>>
    BY <1>5, <1>7 DEF ApplyChannel, AllPresent
  <2>2. QED
    BY <1>4, <1>7, <2>1 DEF ApplyChannel, Current
<1>8. CASE Reset
  <2>1. \A s \in Sites \ occupied' : trace'[s] = <<>>
    BY <1>5, <1>8 DEF Reset
  <2>2. QED
    BY <1>4, <1>8, <2>1 DEF Reset, Current
<1>9. CASE Put
  <2>1. \A s \in Sites \ occupied' : trace'[s] = <<>>
    BY <1>5, <1>9 DEF Put
  <2>2. occupied' = occupied \cup IF Matches THEN On ELSE {}
    BY <1>9 DEF Put
  <2>3. QED
    BY <1>4, <1>9, <2>1, <2>2 DEF Put, Current
<1>10. CASE Lose
  <2>1. PICK lost : occupied' = occupied \ lost /\ trace' = ResetSites(lost)
    BY <1>10 DEF Lose
  <2>2. \A s \in Sites \ occupied' : trace'[s] = <<>>
    BY <1>5, <2>1
  <2>3. ~IsEstimable
    BY <1>10, CurrentTypes DEF Lose, Current, IsEstimable
  <2>4. QED
    BY <1>4, <1>10, <2>2, <2>3 DEF Lose, Current
<1>11. CASE Measure
  <2>1. PICK s \in On, bit \in {0, 1} :
           trace' = IF trace[s] = <<>> THEN trace ELSE Append1({s}, <<plan[step].op, bit>>)
    BY <1>11 DEF Measure, Physical
  <2>2. \A u \in Sites \ occupied' : trace'[u] = <<>>
    BY <1>5, <1>11, <2>1 DEF Measure
  <2>3. ~IsEstimable
    BY <1>11, CurrentTypes DEF Measure, Current, IsEstimable
  <2>4. QED
    BY <1>4, <1>11, <2>2, <2>3 DEF Measure, Current
<1>12. CASE UNCHANGED vars
  <2>1. UNCHANGED <<lowering, shot>> /\ pc' = pc
    BY <1>12 DEF vars
  <2>2. LoadedBy(step)' = LoadedBy(step) /\ IsEstimable' = IsEstimable
    BY <2>1 DEF LoadedBy, HoldsInitially, Puts, PutSites, IsEstimable
  <2>3. QED
    BY <2>1, <2>2 DEF IInv, ShotInv
<1>13. QED
  BY <1>1, <1>2, <1>3, <1>6, <1>7, <1>8, <1>9, <1>10, <1>11, <1>12 DEF Next

\* The invariant holds in every state.
THEOREM Invariance == Spec => []IInv
<1>1. IInv /\ [Next]_vars => IInv'
  BY TypeStep, LoweringStep, ShotStep DEF IInv
<1>2. QED
  BY InitInv, <1>1, PTL DEF Spec

(* An empty site always holds |0>, whatever gates, channels, losses and    *)
(* reloads a program strings together.                                     *)
THEOREM EmptySitesStayGround == Spec => []EmptySitesGround
<1>1. IInv => EmptySitesGround
  BY DEF IInv, ShotInv, EmptySitesGround
<1>2. QED
  BY Invariance, <1>1, PTL

(* The estimator's forecast of the occupancy is the one the shot ends      *)
(* with, for every program it accepts.                                     *)
THEOREM ForecastIsExact == Spec => []ForecastExact
<1>1. ASSUME IInv
      PROVE  ForecastExact
  <2>1. ASSUME pc = "done", IsEstimable
        PROVE  occupied = Forecast
    <3>1. occupied = LoadedBy(step) /\ step = Len(plan) + 1 /\ Len(plan) \in Nat
      BY <1>1, <2>1, PlanTypes DEF IInv, ShotInv
    <3>2. LoadedBy(Len(plan) + 1) = Forecast
      BY <3>1, LoadedNext
    <3>3. QED
      BY <3>1, <3>2
  <2>2. QED
    BY <2>1 DEF ForecastExact
<1>2. QED
  BY Invariance, <1>1, PTL
----------------------------------------------------------------------------
(* The refinement.                                                         *)

\* Programs on which the code and the documented meaning of reset agree.
SingleSiteResets ==
    \A source \in Programs : \A i \in 1..Len(source) :
       source[i].kind = "reset" => Len(source[i].targets) = 1

\* What the mapping makes of the abstract position.
Position == IF step = 1 THEN 0 ELSE SlotOf(plan[step - 1])

LEMMA PlanSlots ==
    ASSUME IInv, pc = "run"
    PROVE  /\ \A k \in 1..Len(plan) : /\ SlotOf(plan[k]) \in Semantics!Slots
                                      /\ SlotOf(plan[k]) \in Nat
                                      /\ Semantics!Slot(SlotOf(plan[k])).on # {}
           /\ \A slot \in Semantics!Slots : Semantics!Slot(slot).on # {} =>
                 \E k \in 1..Len(plan) : SlotOf(plan[k]) = slot
           /\ \A j, k \in 1..Len(plan) : j < k => SlotOf(plan[j]) < SlotOf(plan[k])
<1>1. /\ Covers(plan, first) /\ first = Len(program) + 1 /\ program \in Programs
      /\ Len(program) \in Nat
  BY PlanTypes DEF IInv, LoweringInv
<1>2. \A k \in 1..Len(plan) : plan[k] \in PlanStep /\ BelongsTo(plan[k], program[plan[k].op])
  BY <1>1, ElementOfSeq DEF Covers
<1>3. \A k \in 1..Len(plan) : /\ SlotOf(plan[k]) \in 1..(4 * Len(program))
                             /\ Semantics!Slot(SlotOf(plan[k])).on # {}
  BY <1>1, <1>2, StepMeaning
<1>4. 4 * first - 4 = 4 * Len(program)
  BY <1>1
<1>5. \A k \in 1..Len(plan) : /\ SlotOf(plan[k]) \in Semantics!Slots
                             /\ SlotOf(plan[k]) \in Nat
                             /\ Semantics!Slot(SlotOf(plan[k])).on # {}
  BY <1>1, <1>3 DEF Semantics!Slots
<1>6. \A slot \in Semantics!Slots : Semantics!Slot(slot).on # {} =>
         \E k \in 1..Len(plan) : SlotOf(plan[k]) = slot
  <2>1. Complete(plan, first) /\ Semantics!Slots = 1..(4 * first - 4)
    BY <1>1, <1>4 DEF Covers, Semantics!Slots
  <2>2. QED
    BY <2>1 DEF Complete
<1>7. \A j, k \in 1..Len(plan) : j < k => SlotOf(plan[j]) < SlotOf(plan[k])
  BY <1>1 DEF Covers, InOrder
<1>8. QED
  BY <1>5, <1>6, <1>7

\* The current step of the plan is the next slot that is due.
LEMMA CurrentIsTurn ==
    ASSUME IInv, pc = "run", step <= Len(plan)
    PROVE  /\ SlotOf(plan[step]) \in Semantics!Slots
           /\ Semantics!Turn(SlotOf(plan[step]))
<1>1. /\ step \in 1..Len(plan) /\ Len(plan) \in Nat /\ step \in Nat /\ 1 <= step
  BY PlanTypes, CurrentTypes
<1>2. /\ SlotOf(plan[step]) \in Semantics!Slots /\ SlotOf(plan[step]) \in Nat
      /\ Semantics!Slot(SlotOf(plan[step])).on # {}
  BY <1>1, PlanSlots
<1>3. SlotOf(plan[step]) > Position
  <2>1. CASE step = 1
    BY <1>2, <2>1 DEF Position, Semantics!Slots
  <2>2. CASE step # 1
    <3>1. step - 1 \in 1..Len(plan) /\ step - 1 < step
      BY <1>1, <2>2
    <3>2. /\ SlotOf(plan[step - 1]) < SlotOf(plan[step])
          /\ SlotOf(plan[step - 1]) \in Nat
      BY <1>1, <3>1, PlanSlots
    <3>3. QED
      BY <1>2, <2>2, <3>2 DEF Position
  <2>3. QED
    BY <2>1, <2>2
<1>4. ASSUME NEW slot \in Semantics!Slots, slot > Position, Semantics!Slot(slot).on # {}
      PROVE  SlotOf(plan[step]) <= slot
  <2>1. PICK k \in 1..Len(plan) : SlotOf(plan[k]) = slot
    BY <1>4, PlanSlots
  <2>2. SlotOf(plan[k]) \in Nat
    BY PlanSlots
  <2>3. CASE k < step
    <3>1. step # 1 /\ step - 1 \in 1..Len(plan) /\ SlotOf(plan[step - 1]) \in Nat
      BY <1>1, <2>3, PlanSlots
    <3>2. k = step - 1 \/ k < step - 1
      BY <1>1, <2>3
    <3>3. SlotOf(plan[k]) <= SlotOf(plan[step - 1])
      BY <2>2, <3>1, <3>2, PlanSlots
    <3>4. QED
      BY <1>4, <2>1, <2>2, <3>1, <3>3 DEF Position
  <2>4. CASE k = step
    BY <1>2, <2>1, <2>4
  <2>5. CASE k > step
    <3>1. SlotOf(plan[step]) < SlotOf(plan[k])
      BY <1>1, <2>5, PlanSlots
    <3>2. QED
      BY <1>2, <2>1, <2>2, <3>1
  <2>6. QED
    BY <1>1, <2>3, <2>4, <2>5
<1>5. QED
  BY <1>2, <1>3, <1>4 DEF Semantics!Turn, Semantics!Due, Position

\* When the plan is over no slot is due.
LEMMA NothingLeft ==
    ASSUME IInv, pc = "run", step > Len(plan)
    PROVE  \A slot \in Semantics!Slots : ~Semantics!Due(slot)
<1>1. step = Len(plan) + 1 /\ Len(plan) \in Nat
  BY PlanTypes DEF IInv, TypeOK
<1>2. ASSUME NEW slot \in Semantics!Slots, slot > Position, Semantics!Slot(slot).on # {}
      PROVE  FALSE
  <2>1. PICK k \in 1..Len(plan) : SlotOf(plan[k]) = slot
    BY <1>2, PlanSlots
  <2>2. /\ SlotOf(plan[k]) \in Nat /\ step # 1 /\ step - 1 \in 1..Len(plan)
        /\ SlotOf(plan[step - 1]) \in Nat
    BY <1>1, PlanSlots
  <2>3. k = step - 1 \/ k < step - 1
    BY <1>1
  <2>4. SlotOf(plan[k]) <= SlotOf(plan[step - 1])
    BY <2>2, <2>3, PlanSlots
  <2>5. QED
    BY <1>2, <2>1, <2>2, <2>4 DEF Position
<1>3. QED
  BY <1>2 DEF Semantics!Due, Position

\* A step of the shot is its slot happening.
LEMMA ShotHappens ==
    ASSUME IInv, pc = "run", step <= Len(plan), Advance,
           \/ Semantics!Effect(Semantics!Slot(SlotOf(plan[step])))
           \/ Semantics!Noise(Semantics!Slot(SlotOf(plan[step])))
    PROVE  Semantics!Happen
<1>1. /\ SlotOf(plan[step]) \in Semantics!Slots
      /\ Semantics!Turn(SlotOf(plan[step]))
  BY CurrentIsTurn
<1>2. /\ pc' = pc /\ program' = program /\ plan' = plan /\ step' = step + 1
      /\ step \in Nat /\ 1 <= step
  BY PlanTypes DEF Advance, lowering
<1>3. Position' = SlotOf(plan[step])
  <2>1. step' # 1 /\ step' - 1 = step
    BY <1>2
  <2>2. QED
    BY <1>2, <2>1 DEF Position, SlotOf, Phase
<1>4. QED
  BY <1>1, <1>2, <1>3 DEF Semantics!Happen, Position

\* The slot a step stands for, and what its operation is.
LEMMA CurrentSlot ==
    ASSUME IInv, pc = "run", step <= Len(plan)
    PROVE  LET s    == plan[step]
               slot == Semantics!Slot(SlotOf(s)) IN
           /\ slot.op = s.op /\ slot.phase = Phase(s) /\ slot.on = On
           /\ Semantics!Holds(program[s.op].condition) <=> Matches
           /\ s.kind = "channel" => Phase(s) \in {1, 2} /\ \E e : On = {e}
           /\ s.kind = "loss" => Phase(s) = 3
           /\ s.kind \notin {"channel", "loss"} =>
                 Phase(s) = 0 /\ s.kind = program[s.op].kind /\ s.on = program[s.op].targets
<1> DEFINE s == plan[step]
<1>1. /\ s \in PlanStep /\ BelongsTo(s, program[s.op]) /\ program \in Programs
      /\ program[s.op] \in Operation
  BY CurrentTypes, PlanTypes
<1>2. Semantics!Slot(SlotOf(s))
        = [op |-> s.op, phase |-> Phase(s), on |-> {s.on[k] : k \in 1..Len(s.on)}]
  BY <1>1, StepMeaning
<1>3. Semantics!Holds(program[s.op].condition) <=> Matches
  BY <1>1 DEF Semantics!Holds, Matches, BelongsTo
<1>4. s.kind = "channel" => Phase(s) \in {1, 2} /\ \E e : On = {e}
  <2>1. ASSUME s.kind = "channel"
        PROVE  \E e : On = {e}
    <3>1. PICK k \in 1..Len(program[s.op].targets) : s.on = <<program[s.op].targets[k]>>
      BY <1>1, <2>1 DEF BelongsTo, Operation
    <3>2. On = {program[s.op].targets[k]}
      BY <3>1 DEF On
    <3>3. QED
      BY <3>2
  <2>2. QED
    BY <2>1 DEF Phase
<1>5. /\ s.kind = "loss" => Phase(s) = 3
      /\ s.kind \notin {"channel", "loss"} =>
            Phase(s) = 0 /\ s.kind = program[s.op].kind /\ s.on = program[s.op].targets
  BY <1>1 DEF Phase, BelongsTo
<1>6. LET slot == Semantics!Slot(SlotOf(s)) IN
      slot.op = s.op /\ slot.phase = Phase(s) /\ slot.on = On
  BY <1>2 DEF On
<1> HIDE DEF s
<1>7. QED
  BY <1>3, <1>4, <1>5, <1>6 DEF s

LEMMA StepRefines ==
    ASSUME SingleSiteResets, IInv, [Next]_vars
    PROVE  [Semantics!Next]_(Semantics!vars)
<1> DEFINE slot == Semantics!Slot(SlotOf(plan[step]))
           op == program[plan[step].op]
<1> HIDE DEF slot, op
<1> USE DEF lowering, shot
<1>1. ASSUME pc \in {"scan", "segment"}, pc' \in {"scan", "segment"},
             program' = program, UNCHANGED shot
      PROVE  UNCHANGED Semantics!vars
  <2>1. step = 1 /\ step' = 1
    BY <1>1 DEF IInv, ShotInv
  <2>2. QED
    BY <1>1, <2>1 DEF Semantics!vars
<1>2. CASE Scan \/ LowerNext
  BY <1>1, <1>2 DEF Scan, LowerNext
<1>3. CASE OpenSegment
  <2>1. CASE pc' = "segment"
    BY <1>1, <1>3, <2>1 DEF OpenSegment
  <2>2. CASE pc' = "rejected"
    <3>1. PICK i \in first..(at - 1) : ~RequirePairing(program[i])
      BY <1>3, <2>2 DEF OpenSegment
    <3>2. /\ pc = "scan" /\ i \in 1..Len(program) /\ i \in first..at
      BY <1>3, <3>1, PlanTypes DEF OpenSegment
    <3>3. /\ program[i].kind = "cz" /\ Targets(program[i]) \notin connectivity
      BY <3>1 DEF RequirePairing
    <3>4. Targets(program[i]) \in Bonds
      <4>1. program[i].targets \in Seq(Sites) /\ Len(program[i].targets) = 2
        BY <3>2, <3>3, PlanTypes, OperationTypes DEF WellFormed
      <4>2. program[i].targets[1] \in Sites /\ program[i].targets[2] \in Sites
        BY <4>1, ElementOfSeq
      <4>3. Targets(program[i]) = {program[i].targets[1], program[i].targets[2]}
        BY <4>1 DEF Targets
      <4>4. QED
        BY <4>2, <4>3 DEF Bonds
    <3>5. ~Semantics!PairedAt(i, Targets(program[i]))
      BY <3>2, <3>3, <3>4 DEF IInv, LoweringInv
    <3>6. ~Semantics!Admissible
      BY <3>2, <3>3, <3>5 DEF Semantics!Admissible, Semantics!Legal, Semantics!TargetSet, Targets
    <3>7. Position' = Position
      BY <1>3 DEF OpenSegment, Position, SlotOf, Phase
    <3>8. Semantics!Reject
      BY <1>3, <2>2, <3>6, <3>7 DEF OpenSegment, Semantics!Reject, Position
    <3>9. QED
      BY <3>8 DEF Semantics!Next
  <2>3. QED
    BY <1>3, <2>1, <2>2 DEF OpenSegment
<1>4. CASE ApplyPairing
  <2>1. CASE program[at].condition = {}
    BY <1>1, <1>4, <2>1 DEF ApplyPairing
  <2>2. CASE program[at].condition # {}
    <3>1. at \in 1..Len(program) /\ IsPairing(program[at])
      BY <1>4, PairingCovers
    <3>2. ~Semantics!Admissible
      BY <2>2, <3>1 DEF Semantics!Admissible, Semantics!Legal, Semantics!IsPairing, IsPairing
    <3>3. Position' = Position
      BY <1>4 DEF ApplyPairing, IInv, ShotInv, Position
    <3>4. Semantics!Reject
      BY <1>4, <2>2, <3>2, <3>3 DEF ApplyPairing, Semantics!Reject, Position
    <3>5. QED
      BY <3>4 DEF Semantics!Next
  <2>3. QED
    BY <2>1, <2>2
<1>5. CASE StartShot
  <2>1. /\ pc = "segment" /\ pc' = "run" /\ first = at /\ at = Len(program) + 1
    BY <1>5, PlanTypes DEF StartShot
  <2>2. Semantics!Admissible
    BY <2>1, PlanTypes DEF IInv, LoweringInv, Semantics!Admissible
  <2>3. Position' = Position
    BY <1>5 DEF StartShot, Position, SlotOf, Phase
  <2>4. Semantics!Accept
    BY <1>5, <2>1, <2>2, <2>3 DEF StartShot, Semantics!Accept, Position
  <2>5. QED
    BY <2>4 DEF Semantics!Next
<1>6. CASE EndShot
  <2>1. /\ pc = "run" /\ pc' = "done" /\ step > Len(plan) /\ UNCHANGED <<lowering, shot>>
    BY <1>6, PlanTypes DEF EndShot
  <2>2. \A k \in Semantics!Slots : ~Semantics!Due(k)
    BY <2>1, NothingLeft
  <2>3. Position' = Position
    BY <2>1 DEF Position, SlotOf, Phase
  <2>4. Semantics!Finish
    BY <2>1, <2>2, <2>3 DEF Semantics!Finish, Position
  <2>5. QED
    BY <2>4 DEF Semantics!Next
<1>7. ASSUME pc = "run", step <= Len(plan)
      PROVE  /\ slot.op = plan[step].op /\ program[slot.op] = op
             /\ slot.phase = Phase(plan[step]) /\ slot.on = On
             /\ Semantics!Holds(op.condition) <=> Matches
             /\ plan[step].kind \notin {"channel", "loss"} =>
                   /\ slot.phase = 0 /\ plan[step].kind = op.kind
                   /\ plan[step].on = op.targets
  BY <1>7, CurrentSlot DEF slot, op
<1>8. ASSUME pc = "run", step <= Len(plan), Advance,
             Semantics!Effect(slot) \/ Semantics!Noise(slot)
      PROVE  Semantics!Next
  BY <1>8, ShotHappens DEF slot, Semantics!Next
<1>9. CASE ApplyMatrix
  <2>1. pc = "run" /\ step <= Len(plan) /\ plan[step].kind \in {"rotate", "cz"} /\ Advance
    BY <1>9 DEF ApplyMatrix, Current
  <2>2. Semantics!Effect(slot)
    BY <1>7, <1>9, <2>1 DEF ApplyMatrix, Semantics!Effect, Semantics!Gate, Semantics!Note,
       AllPresent, Append1
  <2>3. QED
    BY <1>8, <2>1, <2>2
<1>10. Semantics!Ground({}) = trace /\ \A event : Semantics!Note({}, event) = trace
  <2>1. trace = [s \in Sites |-> trace[s]]
    BY DEF IInv, TypeOK
  <2>2. \A s : ~(s \in {})
    OBVIOUS
  <2>3. \A s : (IF s \in {} THEN <<>> ELSE trace[s]) = trace[s]
    OBVIOUS
  <2>4. Semantics!Ground({}) = [s \in Sites |-> trace[s]]
    BY <2>3 DEF Semantics!Ground
  <2>5. \A event : Semantics!Note({}, event) = [s \in Sites |-> trace[s]]
    BY <2>2 DEF Semantics!Note
  <2>6. QED
    BY <2>1, <2>4, <2>5
<1>11. CASE Reset
  <2>1. pc = "run" /\ step <= Len(plan) /\ plan[step].kind = "reset" /\ Advance
    BY <1>11 DEF Reset, Current
  <2>2. \E e : On = {e}
    <3>1. Len(plan[step].on) = 1
      BY <1>7, <2>1, CurrentTypes, PlanTypes DEF SingleSiteResets, op
    <3>2. On = {plan[step].on[1]}
      BY <3>1 DEF On
    <3>3. QED
      BY <3>2
  <2>3. AllPresent => On \cap occupied = On
    BY DEF AllPresent
  <2>4. ~AllPresent => On \cap occupied = {}
    BY <2>2 DEF AllPresent
  <2>5. Semantics!Effect(slot)
      BY <1>7, <1>10, <1>11, <2>1, <2>3, <2>4
         DEF Reset, Semantics!Effect, Semantics!Reset, Semantics!Ground, ResetSites
  <2>6. QED
    BY <1>8, <2>1, <2>5
<1>12. CASE ApplyChannel
  <2>1. pc = "run" /\ step <= Len(plan) /\ plan[step].kind = "channel" /\ Advance
    BY <1>12 DEF ApplyChannel, Current
  <2>2. slot.phase \in {1, 2} /\ \E e : On = {e}
    BY <1>7, <2>1, CurrentSlot
  <2>3. /\ AllPresent => On \cap occupied = On
        /\ ~AllPresent => On \cap occupied = {}
    BY <2>2 DEF AllPresent
  <2>4. \A on, event : Append1(on, event) = Semantics!Note(on, event)
    BY DEF Append1, Semantics!Note
  <2>5. /\ occupied' = occupied /\ clbits' = clbits
        /\ ~Matches => trace' = trace
        /\ Matches => trace' = Semantics!Note(On \cap occupied, <<plan[step].op, "channel">>)
    BY <1>10, <1>12, <2>3, <2>4 DEF ApplyChannel
  <2>6. slot.phase # 0 /\ slot.phase # 3
    BY <2>2
  <2>7. Semantics!Noise(slot)
    BY <1>7, <2>1, <2>5, <2>6 DEF Semantics!Noise
  <2>8. QED
    BY <1>8, <2>1, <2>7
<1>13. CASE Lose
  <2>1. pc = "run" /\ step <= Len(plan) /\ plan[step].kind = "loss" /\ Advance
    BY <1>13 DEF Lose, Current
  <2>2. slot.phase = 3
    BY <1>7, <2>1, CurrentSlot
  <2>3. PICK lost \in IF Matches THEN SUBSET (On \cap occupied) ELSE {{}} :
           occupied' = occupied \ lost /\ trace' = Semantics!Ground(lost)
    BY <1>13 DEF Lose, ResetSites, Semantics!Ground
  <2>4. ~Matches => occupied' = occupied /\ trace' = trace
    BY <1>10, <2>3
  <2>5. clbits' = clbits
    BY <1>13 DEF Lose
  <2>6. Semantics!Noise(slot)
    BY <1>7, <2>1, <2>2, <2>3, <2>4, <2>5 DEF Semantics!Noise
  <2>7. QED
    BY <1>8, <2>1, <2>6
<1>14. CASE Put
  <2>1. pc = "run" /\ step <= Len(plan) /\ plan[step].kind = "put" /\ Advance
    BY <1>14 DEF Put, Current
  <2>2. Matches => trace' = Semantics!Ground(On \ occupied) /\ occupied' = occupied \cup On
    BY <1>14 DEF Put, ResetSites, Semantics!Ground
  <2>3. ~Matches => trace' = trace /\ occupied' = occupied
    BY <1>10, <1>14 DEF Put, ResetSites, Semantics!Ground
  <2>4. clbits' = clbits
    BY <1>14 DEF Put
  <2>5. Semantics!Effect(slot)
    BY <1>7, <2>1, <2>2, <2>3, <2>4 DEF Semantics!Effect, Semantics!Put
  <2>6. QED
    BY <1>8, <2>1, <2>5
<1>15. CASE Measure
  <2>1. pc = "run" /\ step <= Len(plan) /\ plan[step].kind = "measure" /\ Advance
    BY <1>15 DEF Measure, Current
  <2>2. slot.phase = 0 /\ op.kind = "measure" /\ program[plan[step].op] = op
    BY <1>7, <2>1
  <2>3. PICK s \in On : \E bit \in Physical(s) :
           /\ trace' = IF trace[s] = <<>> THEN trace
                                         ELSE Append1({s}, <<plan[step].op, bit>>)
           /\ clbits' = [clbits EXCEPT ![op.clbit] = IF s \in occupied THEN bit ELSE ErasureDigit]
    BY <1>15, <2>2 DEF Measure
  <2>4. Matches
    <3>1. op.condition = {}
      BY <2>1, <2>2, CurrentTypes DEF WellFormed
    <3>2. QED
      BY <1>7, <2>1, <3>1 DEF Semantics!Holds
  <2>5. /\ Physical(s) = Semantics!Readings(s)
        /\ \A event : Append1({s}, event) = Semantics!Note({s}, event)
        /\ ErasureDigit = Semantics!ErasureDigit /\ occupied' = occupied
    BY <1>15 DEF Measure, Physical, Semantics!Readings, Append1, Semantics!Note, ErasureDigit,
       Semantics!ErasureDigit
  <2>6. Semantics!Measure(slot, op)
    <3>1. slot.op = plan[step].op /\ slot.on = On
      BY <1>7, <2>1
    <3>2. PICK bit \in Physical(s) :
             /\ trace' = IF trace[s] = <<>> THEN trace
                                           ELSE Append1({s}, <<plan[step].op, bit>>)
             /\ clbits' = [clbits EXCEPT ![op.clbit] = IF s \in occupied THEN bit
                                                                         ELSE ErasureDigit]
      BY <2>3
    <3>3. trace' = IF trace[s] = <<>> THEN trace ELSE Semantics!Note({s}, <<slot.op, bit>>)
      BY <2>5, <3>1, <3>2
    <3>4. clbits' = [clbits EXCEPT ![op.clbit] = IF s \in occupied THEN bit
                                                                  ELSE Semantics!ErasureDigit]
      BY <2>5, <3>2
    <3>5. bit \in Semantics!Readings(s) /\ occupied' = occupied
      BY <2>5, <3>2
    <3>6. QED
      BY <2>2, <3>1, <3>3, <3>4, <3>5 DEF Semantics!Measure
  <2>7. Semantics!Effect(slot)
    BY <1>7, <2>1, <2>2, <2>4, <2>6 DEF Semantics!Effect
  <2>8. QED
    BY <1>8, <2>1, <2>7
<1>16. CASE UNCHANGED vars
  <2>1. UNCHANGED <<lowering, shot>> /\ pc' = pc
    BY <1>16 DEF vars
  <2>2. Position' = Position
    BY <2>1 DEF Position, SlotOf, Phase
  <2>3. QED
    BY <2>1, <2>2 DEF Semantics!vars, Position
<1>17. QED
  BY <1>2, <1>3, <1>4, <1>5, <1>6, <1>9, <1>11, <1>12, <1>13, <1>14, <1>15, <1>16 DEF Next

(* Lowering and one shot together do what the documentation says of the    *)
(* program's text: the programs with an unpaired CZ or a guarded pairing   *)
(* are refused, and otherwise the operations act once each, in order, on   *)
(* the atoms present. A reset of several sites is excluded: there the code *)
(* and the documentation differ.                                           *)
THEOREM ImplementsSemanticsForAll ==
    ASSUME SingleSiteResets
    PROVE  Spec => ImplementsSemantics
<1>1. Init => Semantics!Init
  BY DEF Init, Semantics!Init
<1>2. IInv /\ [Next]_vars => [Semantics!Next]_(Semantics!vars)
  BY StepRefines
<1>3. QED
  BY <1>1, <1>2, Invariance, PTL DEF Spec, ImplementsSemantics, Semantics!Spec
=============================================================================
