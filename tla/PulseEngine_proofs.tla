------------------------- MODULE PulseEngine_proofs -------------------------
(***************************************************************************)
(* Two theorems about the pulse engine, for every plan, sequence of        *)
(* terminal groups, entry point and number of shots.                       *)
(*                                                                         *)
(* The state that samples are drawn from is never measured.  The heap does *)
(* not keep objects apart by itself: an in-place runner overwrites one,    *)
(* the others add one, and the sampling loop copies.  The invariant Inv    *)
(* says which objects may still be drawn from and that the context of the  *)
(* sample in progress refers to none of them.                              *)
(*                                                                         *)
(* The engine implements ShotSemantics.  The invariant ValueInv says what  *)
(* the objects hold: History is the state of a source-order run after some *)
(* steps, without the steps a strategy leaves out, and a sample in         *)
(* progress is that state with the deferred measurements applied so far.   *)
(* That leaving measurements out and applying them at the end makes no     *)
(* difference is the lemma Deferral; that the analyses of the plan choose  *)
(* only plans for which it does are FastReady, BatchReady and GroupReady.  *)
(***************************************************************************)
EXTENDS PulseEngine, FiniteSetTheorems, SequenceTheorems, WellFoundedInduction, TLAPS

IsSequence(q) == Len(q) \in Nat /\ q = [k \in 1..Len(q) |-> q[k]]

\* Operations none of which is a measurement, and states of such operations.
NoMeasurement(q) == IsSequence(q) /\ \A k \in 1..Len(q) : q[k].kind # "measure"
Unmeasured(state) == \A s \in Subsystems : NoMeasurement(state[s])

Contexts(refs) == [state : 1..refs, memory : [Clbits -> Bits], frame : SUBSET Indices,
                   time : 0..Len(plan)]

\* The call and the strategy chosen for it agree.
CallInv ==
    /\ runner \in Runners /\ api \in runner.apis /\ plan \in Plans
    /\ IF api = "groups" THEN groups \in Groups ELSE groups = <<>>
    /\ api = "groups" => \A i \in Indices : IsPulse(plan[i])
    /\ pc = "choose" <=> strategy = "none"
    /\ strategy # "none" => (strategy = "groups" <=> api = "groups")
    /\ pc = "batch" => strategy = "batch"
    /\ pc = "traverse" => strategy \in {"per_shot", "fast", "groups"}
    /\ pc \in {"sample", "measure"} => strategy \in {"fast", "groups", "batch"}

\* The positions in the plan and in the deferred measurements.
CursorInv ==
    /\ at \in 1..(Len(plan) + 1)
    /\ pending \subseteq Indices
    /\ terminal \subseteq 1..(Len(plan) + 1)
    /\ cursor \in terminal \cup {0}
    /\ pc = "choose" => cursor = 0

\* Outcomes are counted per group, and groups are served in order.
CountInv ==
    /\ group \in 1..Len(Requests)
    /\ IsSequence(delivered) /\ Len(delivered) = Len(Requests)
    /\ \A g \in 1..Len(Requests) : IsSequence(delivered[g]) /\ Len(delivered[g]) <= Shots
    /\ \A g \in 1..Len(Requests) : g > group => delivered[g] = <<>>
    /\ pc # "returned" => Len(delivered[group]) < Shots

\* Contexts refer to state objects.
HeapInv ==
    /\ IsSequence(heap)
    /\ context \in Contexts(Len(heap))
    /\ source \in Contexts(Len(heap))
    /\ pc \in {"choose", "traverse", "batch"} => source = Fresh(1)
    /\ pc \in {"choose", "batch"} => heap = <<Blank>> /\ context = Fresh(1)

\* The objects that samples are drawn from.
SourceInv ==
    /\ pc = "traverse" /\ strategy # "per_shot" => Unmeasured(heap[context.state])
    /\ pc \in {"sample", "measure"} /\ strategy = "groups" =>
          /\ Unmeasured(heap[source.state])
          /\ pc = "measure" => context.state # source.state
    /\ pc \in {"sample", "measure"} /\ strategy = "fast" /\ Shots > 1 =>
          /\ Unmeasured(heap[source.state])
          /\ terminal = {} \/ context.state # source.state
    /\ pc \in {"sample", "measure"} /\ strategy = "batch" =>
          /\ Len(heap) >= Shots
          /\ \A n \in 1..Shots : Unmeasured(heap[n])
          /\ pc = "measure" => context.state > Shots

Inv == /\ pc \in {"choose", "traverse", "batch", "sample", "measure", "returned"}
       /\ strategy \in {"none", "per_shot", "fast", "groups", "batch"}
       /\ CallInv /\ CursorInv /\ CountInv /\ HeapInv /\ SourceInv
----------------------------------------------------------------------------
(* Sequences.                                                              *)

\* A function on 1..n is a sequence of length n.
LEMMA FunctionIsSequence ==
    ASSUME NEW n \in Nat, NEW q, q = [k \in 1..n |-> q[k]]
    PROVE  IsSequence(q) /\ Len(q) = n /\ q \in Seq({q[k] : k \in 1..n})
<1>. DEFINE S == {q[k] : k \in 1..n}
<1>1. q \in [1..n -> S]
    OBVIOUS
<1>2. q \in Seq(S)
    BY <1>1 DEF Seq
<1>3. Len(q) = n
    BY <1>1, <1>2
<1>. QED BY <1>2, <1>3 DEF IsSequence

LEMMA SeqIsSequence ==
    ASSUME NEW S, NEW q \in Seq(S)
    PROVE  IsSequence(q)
<1>1. PICK n \in Nat : q \in [1..n -> S]
    BY SeqDef
<1>2. q = [k \in 1..n |-> q[k]]
    BY <1>1
<1>. QED BY <1>1, <1>2, FunctionIsSequence

\* One more element.
LEMMA AppendIsSequence ==
    ASSUME NEW q, NEW e, IsSequence(q)
    PROVE  /\ IsSequence(Append(q, e)) /\ Len(Append(q, e)) = Len(q) + 1
           /\ \A k \in 1..Len(q) : Append(q, e)[k] = q[k]
           /\ Append(q, e)[Len(q) + 1] = e
<1>. DEFINE S == {q[k] : k \in 1..Len(q)} \cup {e}
            r == Append(q, e)
<1>1. q \in Seq(S) /\ Len(q) \in Nat
  <2>1. q \in [1..Len(q) -> S] /\ Len(q) \in Nat
      BY DEF IsSequence
  <2>. QED BY <2>1 DEF Seq
<1>2. e \in S
    OBVIOUS
<1>. HIDE DEF S
<1>3. r \in Seq(S) /\ Len(r) = Len(q) + 1 /\ r[Len(q) + 1] = e
    BY <1>1, <1>2
<1>4. \A k \in 1..Len(q) : r[k] = q[k]
    BY <1>1, <1>2
<1>5. r = [k \in 1..Len(r) |-> r[k]]
    BY <1>3, SeqIsSequence DEF IsSequence
<1>. QED BY <1>1, <1>3, <1>4, <1>5 DEF IsSequence

\* Operations that are no measurements, one after the other.
LEMMA NoMeasurementAppend ==
    ASSUME NEW q, NEW e, NoMeasurement(q), e.kind # "measure"
    PROVE  NoMeasurement(Append(q, e))
<1>1. IsSequence(q)
    BY DEF NoMeasurement
<1>. DEFINE r == Append(q, e)
<1>2. /\ IsSequence(r) /\ Len(r) = Len(q) + 1 /\ r[Len(q) + 1] = e
      /\ \A k \in 1..Len(q) : r[k] = q[k]
    BY <1>1, AppendIsSequence
<1>3. Len(q) \in Nat
    BY <1>1 DEF IsSequence
<1>. HIDE DEF r
<1>4. ASSUME NEW k \in 1..Len(r) PROVE r[k].kind # "measure"
  <2>1. k \in 1..Len(q) \/ k = Len(q) + 1
      BY <1>2, <1>3
  <2>. QED BY <1>2, <2>1 DEF NoMeasurement
<1>. QED BY <1>2, <1>4 DEF NoMeasurement, r

LEMMA NoMeasurementConcat ==
    ASSUME NEW p, NEW q, NoMeasurement(p), NoMeasurement(q)
    PROVE  NoMeasurement(p \o q)
<1>. DEFINE S == {p[k] : k \in 1..Len(p)} \cup {q[k] : k \in 1..Len(q)}
            r == p \o q
<1>1. p \in Seq(S) /\ q \in Seq(S) /\ Len(p) \in Nat /\ Len(q) \in Nat
  <2>1. p \in [1..Len(p) -> S] /\ Len(p) \in Nat
      BY DEF NoMeasurement, IsSequence
  <2>2. q \in [1..Len(q) -> S] /\ Len(q) \in Nat
      BY DEF NoMeasurement, IsSequence
  <2>. QED BY <2>1, <2>2 DEF Seq
<1>2. \A e \in S : e.kind # "measure"
    BY DEF NoMeasurement
<1>. HIDE DEF S
<1>3. r \in Seq(S) /\ Len(r) = Len(p) + Len(q)
    BY <1>1
<1>4. \A k \in 1..Len(r) : r[k] \in S
    BY <1>3
<1>5. IsSequence(r)
    BY <1>3, SeqIsSequence
<1>. QED BY <1>2, <1>4, <1>5 DEF NoMeasurement, r
----------------------------------------------------------------------------
(* Numbers.                                                                *)

LEMMA LeastNatural ==
    ASSUME NEW S \in SUBSET Nat, S # {}
    PROVE  \E x \in S : \A y \in S : x <= y
<1>1. PICK R : IsWellFoundedOn(R, Nat) /\ \A a, b \in Nat : a < b => <<a, b>> \in R
  <2>1. \A a, b \in Nat : a < b => <<a, b>> \in OpToRel(<, Nat)
      BY DEF OpToRel
  <2>. QED BY <2>1, NatLessThanWellFounded
<1>2. S \subseteq Nat
    OBVIOUS
<1>3. IsWellFoundedOn(R, Nat)
    BY <1>1
<1>4. \E x \in S : \A y \in S : ~ (<<y, x>> \in R)
    BY <1>2, <1>3, WFMin
<1>5. PICK x \in S : \A y \in S : ~ (<<y, x>> \in R)
    BY <1>4
<1>6. \A y \in S : y \in Nat /\ ~(y < x) /\ x \in Nat
    BY <1>1, <1>5
<1>. QED BY <1>5, <1>6

\* What holds of 0, and of k + 1 below n whenever of k, holds up to n.
LEMMA UpTo ==
    ASSUME NEW n \in Nat, NEW S, 0 \in S, \A k \in 0..n : k < n /\ k \in S => k + 1 \in S
    PROVE  \A k \in 0..n : k \in S
<1>. DEFINE bad == {k \in 0..n : k \notin S}
<1>. SUFFICES ASSUME bad # {} PROVE FALSE
    OBVIOUS
<1>1. bad \in SUBSET Nat
    OBVIOUS
<1>2. PICK x \in bad : \A y \in bad : x <= y
  <2>. HIDE DEF bad
  <2>. QED BY <1>1, LeastNatural
<1>3. x \in 0..n /\ x # 0 /\ x \notin S
    OBVIOUS
<1>4. x - 1 \in 0..n /\ x - 1 < n /\ x - 1 + 1 = x /\ x - 1 \notin bad
    BY <1>2, <1>3
<1>. QED BY <1>3, <1>4

\* The latest of some step indices, 0 if there is none.
LEMMA LatestFacts ==
    ASSUME NEW n \in Nat, NEW S \in SUBSET (1..n)
    PROVE  Semantics!Latest(S) \in S \cup {0} /\ \A s \in S : s <= Semantics!Latest(S)
<1>. DEFINE U == {u \in Nat : \A s \in S : s <= u}
<1>1. n \in U
    OBVIOUS
<1>2. PICK u \in U : \A v \in U : u <= v
  <2>1. U \in SUBSET Nat /\ U # {}
      BY <1>1
  <2>. HIDE DEF U
  <2>. QED BY <2>1, LeastNatural
<1>3. u \in S \cup {0}
  <2>. SUFFICES ASSUME u \notin S, u # 0 PROVE FALSE
      OBVIOUS
  <2>1. \A s \in S : s \in Nat /\ s <= u /\ s # u
      OBVIOUS
  <2>2. u - 1 \in Nat /\ \A s \in S : s <= u - 1
      BY <2>1
  <2>3. u - 1 \in U
      BY <2>2
  <2>. QED BY <1>2, <2>3
<1>4. \A s \in S : s <= u
    OBVIOUS
<1>. QED BY <1>3, <1>4 DEF Semantics!Latest

LEMMA LatestInRange ==
    ASSUME NEW n \in Nat, NEW S \in SUBSET (1..n)
    PROVE  Semantics!Latest(S) \in 0..n
<1>1. Semantics!Latest(S) \in S \cup {0}
    BY LatestFacts
<1>2. \A m \in S \cup {0} : m \in 0..n
    OBVIOUS
<1>. QED BY <1>1, <1>2

LEMMA LatestIs ==
    ASSUME NEW n \in Nat, NEW S \in SUBSET (1..n), NEW m \in S \cup {0}, \A s \in S : s <= m
    PROVE  Semantics!Latest(S) = m
<1>1. Semantics!Latest(S) \in S \cup {0} /\ \A s \in S : s <= Semantics!Latest(S)
    BY LatestFacts
<1>. DEFINE k == Semantics!Latest(S)
<1>2. k \in 0..n /\ m \in 0..n
  <2>1. \A l \in S \cup {0} : l \in 0..n
      OBVIOUS
  <2>. QED BY <1>1, <2>1
<1>3. k \in S => k <= m
    OBVIOUS
<1>4. m \in S => m <= k
    BY <1>1
<1>. HIDE DEF k
<1>5. (k \in S \/ k = 0) /\ (m \in S \/ m = 0)
    BY <1>1 DEF k
<1>6. k = m
    BY <1>2, <1>3, <1>4, <1>5
<1>. QED BY <1>6 DEF k
----------------------------------------------------------------------------
(* The classical memory and the clock of a source-order run.               *)

\* The measurements of a plan that write to a clbit before step i.
Writers(q, c, i) == {m \in Semantics!Measurements(q) : m < i /\ q[m].clbit = c}

Memory(q, bits, i) == Semantics!MemoryBefore(q, bits, i)

LEMMA MemoryIs ==
    ASSUME NEW q, NEW bits, NEW i
    PROVE  Memory(q, bits, i) =
              [c \in Clbits |-> IF Semantics!Latest(Writers(q, c, i)) = 0 THEN 0
                                ELSE bits[Semantics!Latest(Writers(q, c, i))]]
    BY DEF Memory, Semantics!MemoryBefore, Writers

\* Nothing is written while nothing is measured.
LEMMA MemoryStays ==
    ASSUME NEW q, NEW bits, Len(q) \in Nat, NEW i \in Nat, NEW j \in Nat, i <= j,
           \A k \in 1..Len(q) : i <= k /\ k < j => q[k].kind # "measure"
    PROVE  Memory(q, bits, i) = Memory(q, bits, j)
<1>1. ASSUME NEW c PROVE Writers(q, c, i) = Writers(q, c, j)
    BY DEF Writers, Semantics!Measurements, Semantics!IsMeasurement
<1>. QED BY <1>1, MemoryIs

\* A measurement writes its result to its clbit.
Written(memory, c, bit) == [memory EXCEPT ![c] = bit]

LEMMA MemoryWritten ==
    ASSUME NEW q, NEW bits, Len(q) \in Nat, NEW i \in 1..Len(q), q[i].kind = "measure"
    PROVE  Memory(q, bits, i + 1) = Written(Memory(q, bits, i), q[i].clbit, bits[i])
<1>1. ASSUME NEW c, c = q[i].clbit PROVE Semantics!Latest(Writers(q, c, i + 1)) = i
  <2>1. Writers(q, c, i + 1) \in SUBSET (1..Len(q)) /\ i \in Writers(q, c, i + 1)
        /\ \A s \in Writers(q, c, i + 1) : s <= i
      BY <1>1 DEF Writers, Semantics!Measurements, Semantics!IsMeasurement
  <2>. QED BY <2>1, LatestIs
<1>2. ASSUME NEW c, c # q[i].clbit PROVE Writers(q, c, i + 1) = Writers(q, c, i)
    BY <1>2 DEF Writers, Semantics!Measurements, Semantics!IsMeasurement
<1>. DEFINE f == Memory(q, bits, i)
            g == Memory(q, bits, i + 1)
            h == [f EXCEPT ![q[i].clbit] = bits[i]]
<1>3. f = [c \in Clbits |-> f[c]] /\ g = [c \in Clbits |-> g[c]]
    BY MemoryIs
<1>4. ASSUME NEW c \in Clbits PROVE g[c] = IF c = q[i].clbit THEN bits[i] ELSE f[c]
  <2>1. CASE c = q[i].clbit
      BY <1>1, <2>1, MemoryIs
  <2>2. CASE c # q[i].clbit
      BY <1>2, <2>2, MemoryIs
  <2>. QED BY <2>1, <2>2
<1>. HIDE DEF f, g
<1>5. h = [c \in Clbits |-> h[c]] /\ \A c \in Clbits : h[c] = IF c = q[i].clbit THEN bits[i] ELSE f[c]
    BY <1>3
<1>6. \A c \in Clbits : g[c] = h[c]
    BY <1>4, <1>5
<1>. HIDE DEF h
<1>7. g = h
    BY <1>3, <1>5, <1>6
<1>. QED BY <1>7 DEF f, g, h, Written

\* The memory depends on the results so far.
AgreeBefore(q, bits, other, i) ==
    \A m \in Semantics!Measurements(q) : m < i => bits[m] = other[m]

LEMMA MemorySame ==
    ASSUME NEW q, NEW bits, NEW other, Len(q) \in Nat, NEW i \in Nat, AgreeBefore(q, bits, other, i)
    PROVE  Memory(q, bits, i) = Memory(q, other, i)
<1>1. ASSUME NEW c, Semantics!Latest(Writers(q, c, i)) # 0
      PROVE  bits[Semantics!Latest(Writers(q, c, i))] = other[Semantics!Latest(Writers(q, c, i))]
  <2>1. Writers(q, c, i) \in SUBSET (1..Len(q))
      BY DEF Writers, Semantics!Measurements
  <2>2. Semantics!Latest(Writers(q, c, i)) \in Writers(q, c, i)
      BY <1>1, <2>1, LatestFacts
  <2>. HIDE DEF Writers
  <2>. QED BY <2>2 DEF AgreeBefore, Writers
<1>. QED BY <1>1, MemoryIs

\* Before a result other than 0 the memory is as it was at first.
LEMMA MemoryBlank ==
    ASSUME NEW q, NEW bits, Len(q) \in Nat, NEW i \in Nat,
           \A m \in Semantics!Measurements(q) : m < i => bits[m] = 0
    PROVE  Memory(q, bits, i) = [c \in Clbits |-> 0]
<1>1. ASSUME NEW c, Semantics!Latest(Writers(q, c, i)) # 0
      PROVE  bits[Semantics!Latest(Writers(q, c, i))] = 0
  <2>1. Writers(q, c, i) \in SUBSET (1..Len(q))
      BY DEF Writers, Semantics!Measurements
  <2>2. Semantics!Latest(Writers(q, c, i)) \in Writers(q, c, i)
      BY <1>1, <2>1, LatestFacts
  <2>. QED BY <2>2 DEF Writers
<1>. QED BY <1>1, MemoryIs

\* The time at which a region begins that follows step base.
Clock(q, base) == Semantics!Latest({i \in 1..base : q[i].kind = "pulse"})

\* The steps behind base up to top are pulses, and the region begins with them.
RegionOf(q, base, top) ==
    /\ base \in 0..Len(q) /\ top \in base..Len(q)
    /\ \A k \in (base + 1)..top : q[k].kind = "pulse"
    /\ base # 0 => q[base].kind # "pulse"

LEMMA RegionBegins ==
    ASSUME NEW q, Len(q) \in Nat, NEW base, NEW top, RegionOf(q, base, top),
           NEW j \in (base + 1)..top
    PROVE  Semantics!RegionStart(q, j) = Clock(q, base)
<1>1. base \in Nat /\ top \in Nat /\ j \in Nat /\ base < j /\ j <= top
    BY DEF RegionOf
<1>2. {i \in 1..(j - 1) : Semantics!IsPulse(q[i]) /\ \E k \in i..j : ~Semantics!IsPulse(q[k])}
        = {i \in 1..base : q[i].kind = "pulse"}
  <2>1. ASSUME NEW i \in 1..(j - 1), NEW k \in i..j, q[k].kind # "pulse" PROVE i \in 1..base
      BY <1>1, <2>1 DEF RegionOf
  <2>2. ASSUME NEW i \in 1..base PROVE i \in 1..(j - 1) /\ base \in i..j /\ q[base].kind # "pulse"
      BY <1>1 DEF RegionOf
  <2>. QED BY <2>1, <2>2 DEF Semantics!IsPulse
<1>. QED BY <1>2 DEF Semantics!RegionStart, Clock

\* The clock after a region is its last pulse, and boundaries do not move it.
LEMMA ClockAfterRegion ==
    ASSUME NEW q, Len(q) \in Nat, NEW base, NEW top, RegionOf(q, base, top), base < top
    PROVE  Clock(q, top) = top /\ Semantics!Latest((base + 1)..top) = top
<1>1. base \in Nat /\ top \in Nat /\ q[top].kind = "pulse"
    BY DEF RegionOf
<1>2. /\ {i \in 1..top : q[i].kind = "pulse"} \in SUBSET (1..top)
      /\ top \in {i \in 1..top : q[i].kind = "pulse"} \cup {0}
      /\ \A s \in {i \in 1..top : q[i].kind = "pulse"} : s <= top
    BY <1>1
<1>3. (base + 1)..top \in SUBSET (1..top) /\ top \in (base + 1)..top /\ \A s \in (base + 1)..top : s <= top
    BY <1>1
<1>4. Clock(q, top) = top
    BY <1>1, <1>2, LatestIs DEF Clock
<1>5. Semantics!Latest((base + 1)..top) = top
    BY <1>1, <1>3, LatestIs
<1>. QED BY <1>4, <1>5

LEMMA ClockAtBoundary ==
    ASSUME NEW q, NEW i \in Nat, q[i + 1].kind # "pulse"
    PROVE  Clock(q, i + 1) = Clock(q, i)
<1>1. {k \in 1..(i + 1) : q[k].kind = "pulse"} = {k \in 1..i : q[k].kind = "pulse"}
    OBVIOUS
<1>. QED BY <1>1 DEF Clock
----------------------------------------------------------------------------
(* A state after some operations.                                          *)

After(state, operations, noise, n) == Semantics!After(state, operations, noise, n)

\* One operation more, and its noise.
Step(state, operations, noise, i) == Touch(Touch(state, operations[i]), noise[i])

LEMMA AfterUnfolds ==
    ASSUME NEW state, NEW operations, NEW noise, Len(operations) \in Nat
    PROVE  /\ After(state, operations, noise, 0) = state
           /\ \A i \in 1..Len(operations) :
                 After(state, operations, noise, i)
                    = Step(After(state, operations, noise, i - 1), operations, noise, i)
<1>. DEFINE m == Len(operations)
            Longer(h, k) == Semantics!Touch(Semantics!Touch(h, operations[k]), noise[k])
            Solves(f, n) == f = [k \in 0..n |-> IF k = 0 THEN state ELSE Longer(f[k - 1], k)]
            past == CHOOSE f : Solves(f, m)
<1>1. \A n : After(state, operations, noise, n) = past[n]
    BY DEF After, Semantics!After
<1>2. \A h, k : Longer(h, k) = Step(h, operations, noise, k)
    BY DEF Touch, Step
<1>. HIDE DEF Longer
<1>3. ASSUME NEW n \in Nat, NEW f, Solves(f, n)
      PROVE  \E g : Solves(g, n + 1)
  <2>. DEFINE g == [k \in 0..(n + 1) |-> IF k = n + 1 THEN Longer(f[n], n + 1) ELSE f[k]]
              h == [k \in 0..(n + 1) |-> IF k = 0 THEN state ELSE Longer(g[k - 1], k)]
  <2>1. ASSUME NEW k \in 0..(n + 1) PROVE g[k] = h[k]
    <3>1. CASE k = n + 1
        BY <3>1
    <3>2. CASE k # n + 1
      <4>1. k \in 0..n /\ (k # 0 => k - 1 \in 0..n /\ k - 1 # n + 1)
          BY <3>2
      <4>2. f[k] = IF k = 0 THEN state ELSE Longer(f[k - 1], k)
          BY <1>3, <4>1
      <4>. QED BY <3>2, <4>1, <4>2
    <3>. QED BY <3>1, <3>2
  <2>2. g = [k \in 0..(n + 1) |-> g[k]] /\ h = [k \in 0..(n + 1) |-> h[k]]
      OBVIOUS
  <2>3. g = h
    <3>. HIDE DEF g, h
    <3>. QED BY <2>1, <2>2
  <2>. HIDE DEF g
  <2>. QED BY <2>3
<1>4. \E f : Solves(f, 0)
  <2>. DEFINE f == [k \in 0..0 |-> state]
  <2>1. Solves(f, 0)
      OBVIOUS
  <2>. HIDE DEF f
  <2>. QED BY <2>1
<1>. DEFINE good == {n \in 0..m : \E f : Solves(f, n)}
<1>5. \A n \in 0..m : n \in good
  <2>1. 0 \in good
      BY <1>4
  <2>2. \A k \in 0..m : k < m /\ k \in good => k + 1 \in good
    <3>. HIDE DEF Solves
    <3>. QED BY <1>3
  <2>. HIDE DEF good
  <2>. QED BY <2>1, <2>2, UpTo
<1>6. Solves(past, m)
  <2>1. m \in good
      BY <1>5
  <2>2. \E f : Solves(f, m)
      BY <2>1
  <2>. HIDE DEF Solves
  <2>. QED BY <2>2
<1>. HIDE DEF past
<1>7. \A k \in 0..m : past[k] = IF k = 0 THEN state ELSE Longer(past[k - 1], k)
    BY <1>6
<1>8. past[0] = state
    BY <1>7
<1>9. \A k \in 1..m : past[k] = Longer(past[k - 1], k)
    BY <1>7
<1>. QED BY <1>1, <1>2, <1>8, <1>9

LEMMA AfterNext ==
    ASSUME NEW state, NEW operations, NEW noise, NEW m \in Nat, Len(operations) = m,
           NEW i \in 0..m, i < m
    PROVE  After(state, operations, noise, i + 1)
             = Step(After(state, operations, noise, i), operations, noise, i + 1)
<1>1. i + 1 \in 1..Len(operations) /\ Len(operations) \in Nat
    OBVIOUS
<1>. DEFINE k == i + 1
<1>2. k \in 1..Len(operations) /\ k - 1 = i
    BY <1>1
<1>. HIDE DEF k
<1>3. After(state, operations, noise, k)
        = Step(After(state, operations, noise, k - 1), operations, noise, k)
    BY <1>1, <1>2, AfterUnfolds
<1>. QED BY <1>2, <1>3 DEF k

\* States give a history to each subsystem.
IsState(state) == state = [s \in Subsystems |-> state[s]]

LEMMA TouchAt ==
    ASSUME NEW state, NEW event, NEW s \in Subsystems
    PROVE  Touch(state, event)[s] = IF s \in event.on THEN Append(state[s], event) ELSE state[s]
    BY DEF Touch, Semantics!Touch

LEMMA TouchIsState ==
    ASSUME NEW state, NEW event
    PROVE  IsState(Touch(state, event))
    BY DEF IsState, Touch, Semantics!Touch

LEMMA TouchNothing ==
    ASSUME NEW state, NEW event, IsState(state), event.on = {}
    PROVE  Touch(state, event) = state
    BY DEF IsState, Touch, Semantics!Touch

\* Nothing happens at step i, the same happens at it.
Silent(operations, noise, i) == operations[i].on = {} /\ noise[i].on = {}
SameAt(operations, noise, others, quiet, i) ==
    operations[i] = others[i] /\ noise[i] = quiet[i]

LEMMA StepSilent ==
    ASSUME NEW state, NEW operations, NEW noise, NEW i, IsState(state), Silent(operations, noise, i)
    PROVE  Step(state, operations, noise, i) = state
<1>1. Touch(state, operations[i]) = state
    BY TouchNothing DEF Silent
<1>2. Touch(state, noise[i]) = state
    BY TouchNothing DEF Silent
<1>. QED BY <1>1, <1>2 DEF Step

LEMMA StepSame ==
    ASSUME NEW state, NEW operations, NEW noise, NEW others, NEW quiet, NEW i,
           SameAt(operations, noise, others, quiet, i)
    PROVE  Step(state, operations, noise, i) = Step(state, others, quiet, i)
    BY DEF Step, SameAt

LEMMA StepIsState ==
    ASSUME NEW state, NEW operations, NEW noise, NEW i
    PROVE  IsState(Step(state, operations, noise, i))
    BY TouchIsState DEF Step

LEMMA AfterStart ==
    ASSUME NEW state, NEW operations, NEW noise, Len(operations) \in Nat
    PROVE  After(state, operations, noise, 0) = state
    BY AfterUnfolds

LEMMA AfterIsState ==
    ASSUME NEW state, NEW operations, NEW noise, NEW m \in Nat, Len(operations) = m,
           NEW n \in 0..m, IsState(state)
    PROVE  IsState(After(state, operations, noise, n))
<1>. DEFINE good == {i \in 0..m : IsState(After(state, operations, noise, i))}
<1>1. 0 \in good
    BY AfterStart
<1>2. ASSUME NEW i \in 0..m, i < m, i \in good PROVE i + 1 \in good
  <2>1. IsState(After(state, operations, noise, i + 1))
      BY <1>2, AfterNext, StepIsState
  <2>. QED BY <1>2, <2>1
<1>3. \A i \in 0..m : i \in good
  <2>. HIDE DEF good
  <2>. QED BY <1>1, <1>2, UpTo
<1>. QED BY <1>3

\* A state depends on what happened so far.
LEMMA AfterSame ==
    ASSUME NEW state, NEW operations, NEW noise, NEW others, NEW quiet,
           NEW m \in Nat, Len(operations) = m, NEW l \in Nat, Len(others) = l,
           NEW n \in Nat, n <= m, n <= l,
           \A i \in 1..n : SameAt(operations, noise, others, quiet, i)
    PROVE  After(state, operations, noise, n) = After(state, others, quiet, n)
<1>. DEFINE good == {i \in 0..n : After(state, operations, noise, i) = After(state, others, quiet, i)}
<1>1. 0 \in good
    BY AfterStart
<1>2. ASSUME NEW i \in 0..n, i < n, i \in good PROVE i + 1 \in good
  <2>1. i + 1 \in 1..n /\ i + 1 \in 0..n /\ i \in 0..m /\ i < m /\ i \in 0..l /\ i < l
      BY <1>2
  <2>2. After(state, operations, noise, i + 1)
          = Step(After(state, operations, noise, i), operations, noise, i + 1)
      BY <2>1, AfterNext
  <2>3. After(state, others, quiet, i + 1) = Step(After(state, others, quiet, i), others, quiet, i + 1)
      BY <2>1, AfterNext
  <2>4. After(state, operations, noise, i) = After(state, others, quiet, i)
      BY <1>2
  <2>5. Step(After(state, others, quiet, i), operations, noise, i + 1)
          = Step(After(state, others, quiet, i), others, quiet, i + 1)
      BY <2>1, StepSame
  <2>. QED BY <2>1, <2>2, <2>3, <2>4, <2>5
<1>3. \A i \in 0..n : i \in good
  <2>. HIDE DEF good
  <2>. QED BY <1>1, <1>2, UpTo
<1>. QED BY <1>3

\* A silent stretch leaves a state as it was.
LEMMA AfterSilence ==
    ASSUME NEW state, NEW operations, NEW noise, NEW m \in Nat, Len(operations) = m, IsState(state),
           NEW from \in 0..m, NEW to \in from..m,
           \A i \in (from + 1)..to : Silent(operations, noise, i)
    PROVE  After(state, operations, noise, to) = After(state, operations, noise, from)
<1>. DEFINE good == {i \in 0..to : i >= from =>
                        After(state, operations, noise, i) = After(state, operations, noise, from)}
<1>1. 0 \in good
    OBVIOUS
<1>2. ASSUME NEW i \in 0..to, i < to, i \in good PROVE i + 1 \in good
  <2>1. CASE i + 1 > from
    <3>1. i + 1 \in (from + 1)..to /\ i \in 0..m /\ i < m /\ i >= from
        BY <1>2, <2>1
    <3>2. IsState(After(state, operations, noise, i))
        BY <3>1, AfterIsState
    <3>3. After(state, operations, noise, i + 1) = After(state, operations, noise, i)
        BY <3>1, <3>2, AfterNext, StepSilent
    <3>. QED BY <1>2, <3>1, <3>3
  <2>2. CASE i + 1 <= from
    <3>1. i + 1 \in 0..to /\ (i + 1 >= from => i + 1 = from)
        BY <1>2, <2>2
    <3>. QED BY <3>1
  <2>. QED BY <1>2, <2>1, <2>2
<1>3. \A i \in 0..to : i \in good
  <2>. HIDE DEF good
  <2>. QED BY <1>1, <1>2, UpTo
<1>. QED BY <1>3
----------------------------------------------------------------------------
(* The history of a source-order run, without the steps of some kinds.     *)

Operations(q, bits, without) ==
    [i \in 1..Len(q) |->
        IF q[i].kind \in without THEN [Semantics!Operation(q, bits, i) EXCEPT !.on = {}]
                                             ELSE Semantics!Operation(q, bits, i)]

Noise(r, q) ==
    [i \in 1..Len(q) |->
        [kind |-> "idle", step |-> i, from |-> Semantics!RegionStart(q, i), bit |-> 0,
         on |-> IF r.background /\ Semantics!EndsRegion(q, i) THEN Subsystems ELSE {}]]

History(r, q, bits, without, n) == After(Blank, Operations(q, bits, without), Noise(r, q), n)

LEMMA OperationCount ==
    ASSUME NEW q, NEW bits, NEW without, Len(q) \in Nat
    PROVE  Len(Operations(q, bits, without)) = Len(q)
<1>. DEFINE o == Operations(q, bits, without)
<1>1. o = [i \in 1..Len(q) |-> o[i]]
    BY DEF Operations
<1>. HIDE DEF o
<1>2. Len(o) = Len(q)
    BY <1>1, FunctionIsSequence
<1>. QED BY <1>2 DEF o

LEMMA BlankIsState == IsState(Blank)
    BY DEF IsState, Blank

LEMMA HistoryIsState ==
    ASSUME NEW r, NEW q, NEW bits, NEW without, Len(q) \in Nat, NEW n \in 0..Len(q)
    PROVE  IsState(History(r, q, bits, without, n))
    BY OperationCount, BlankIsState, AfterIsState DEF History

\* What the contract says of a state.
LEMMA OutcomeHistory ==
    ASSUME NEW q, NEW bits
    PROVE  Semantics!Outcome(q, bits).state = History(runner, q, bits, {}, Len(q))
<1>1. Operations(q, bits, {}) = [i \in 1..Len(q) |-> Semantics!Operation(q, bits, i)]
    BY DEF Operations
<1>2. Noise(runner, q) = [i \in 1..Len(q) |-> Semantics!Elapse(q, i)]
    BY DEF Noise, Semantics!Elapse
<1>. QED BY <1>1, <1>2 DEF Semantics!Outcome, History, After, Blank
----------------------------------------------------------------------------
(* The runner and the traversal on a heap.                                 *)

\* What an update or a copy leaves of a heap: another one that extends it,
\* in which every object but the one at ref is the same.
Keeps(h, k, ref) ==
    /\ IsSequence(k) /\ Len(k) >= Len(h)
    /\ \A n \in 1..Len(h) : n # ref => k[n] = h[n]

LEMMA UpdateKeeps ==
    ASSUME NEW h, NEW ref, NEW state, IsSequence(h), ref \in 1..Len(h)
    PROVE  LET new == Update(h, ref, state) IN
           /\ Keeps(h, new.heap, ref)
           /\ new.ref \in 1..Len(new.heap) /\ new.heap[new.ref] = state
           /\ new.ref = ref \/ new.ref > Len(h)
<1>1. Len(h) \in Nat
    BY DEF IsSequence
<1>2. CASE runner.inPlace
  <2>. DEFINE k == [h EXCEPT ![ref] = state]
  <2>1. Update(h, ref, state) = [heap |-> k, ref |-> ref]
      BY <1>2 DEF Update
  <2>2. /\ IsSequence(k) /\ Len(k) = Len(h) /\ k[ref] = state
        /\ \A n \in 1..Len(h) : n # ref => k[n] = h[n]
    <3>1. k = [n \in 1..Len(h) |-> k[n]]
        BY DEF IsSequence
    <3>2. k[ref] = state /\ \A n \in 1..Len(h) : n # ref => k[n] = h[n]
        BY DEF IsSequence
    <3>. HIDE DEF k
    <3>3. IsSequence(k) /\ Len(k) = Len(h)
        BY <1>1, <3>1, FunctionIsSequence
    <3>. QED BY <3>2, <3>3
  <2>. HIDE DEF k
  <2>. QED BY <1>1, <2>1, <2>2 DEF Keeps
<1>3. CASE ~ runner.inPlace
  <2>. DEFINE k == Append(h, state)
  <2>1. Update(h, ref, state) = [heap |-> k, ref |-> Len(h) + 1]
      BY <1>3 DEF Update
  <2>2. /\ IsSequence(k) /\ Len(k) = Len(h) + 1 /\ k[Len(h) + 1] = state
        /\ \A n \in 1..Len(h) : k[n] = h[n]
      BY AppendIsSequence
  <2>. HIDE DEF k
  <2>3. Len(h) + 1 \in 1..Len(k) /\ Len(h) + 1 > Len(h) /\ Len(k) >= Len(h)
      BY <1>1, <2>2
  <2>. QED BY <2>1, <2>2, <2>3 DEF Keeps
<1>. QED BY <1>2, <1>3

LEMMA CopyKeeps ==
    ASSUME NEW h, NEW ref, IsSequence(h), ref \in 1..Len(h)
    PROVE  LET new == Copy(h, ref) IN
           /\ Keeps(h, new.heap, 0)
           /\ new.ref \in 1..Len(new.heap) /\ new.heap[new.ref] = h[ref]
           /\ new.ref > Len(h)
<1>1. Len(h) \in Nat
    BY DEF IsSequence
<1>. DEFINE k == Append(h, h[ref])
<1>2. Copy(h, ref) = [heap |-> k, ref |-> Len(h) + 1]
    BY DEF Copy
<1>3. /\ IsSequence(k) /\ Len(k) = Len(h) + 1 /\ k[Len(h) + 1] = h[ref]
      /\ \A n \in 1..Len(h) : k[n] = h[n]
    BY AppendIsSequence
<1>. HIDE DEF k
<1>4. Len(h) + 1 \in 1..Len(k) /\ Len(h) + 1 > Len(h) /\ Len(k) >= Len(h)
    BY <1>1, <1>3
<1>. QED BY <1>2, <1>3, <1>4 DEF Keeps

\* A plan is a sequence of steps.
LEMMA PlanLength ==
    ASSUME plan \in Plans
    PROVE  Len(plan) \in Nat /\ IsSequence(plan)
    BY EngineAssumption, SeqIsSequence DEF IsSequence

\* An event that is no measurement leaves an unmeasured state unmeasured.
LEMMA TouchUnmeasured ==
    ASSUME NEW state, NEW event, Unmeasured(state), event.kind # "measure"
    PROVE  Unmeasured(Touch(state, event))
<1>. SUFFICES ASSUME NEW s \in Subsystems
              PROVE  NoMeasurement(Touch(state, event)[s])
    BY DEF Unmeasured
<1>1. NoMeasurement(state[s]) /\ NoMeasurement(Append(state[s], event))
    BY NoMeasurementAppend DEF Unmeasured
<1>. QED BY <1>1 DEF Touch, Semantics!Touch

\* A region of pulses does not measure.
LEMMA EvolveUnmeasured ==
    ASSUME NEW state, NEW boundary, NEW enabled, NEW region \in SUBSET Indices,
           plan \in Plans, Unmeasured(state)
    PROVE  Unmeasured(Evolve(state, region, boundary, enabled))
<1>. DEFINE pulses == [i \in Indices |-> Pulse(i, boundary, i \in region \cap enabled)]
            noise  == [i \in Indices |-> Idle(i, boundary, i = Semantics!Latest(region))]
            n == Len(plan)
<1>1. Evolve(state, region, boundary, enabled) = After(state, pulses, noise, n)
    BY DEF Evolve, After
<1>2. n \in Nat
    BY PlanLength
<1>3. \A i \in 1..n : pulses[i].kind = "pulse" /\ noise[i].kind = "idle"
    BY DEF Indices, Pulse, Idle
<1>4. Len(pulses) = n
  <2>1. pulses = [i \in 1..n |-> pulses[i]]
      BY DEF Indices
  <2>. HIDE DEF pulses, n
  <2>. QED BY <1>2, <2>1, FunctionIsSequence
<1>. HIDE DEF pulses, noise, n
<1>. DEFINE good == {i \in 0..n : Unmeasured(After(state, pulses, noise, i))}
<1>5. 0 \in good
    BY <1>2, <1>4, AfterUnfolds
<1>6. ASSUME NEW i \in 0..n, i < n, i \in good PROVE i + 1 \in good
  <2>1. /\ i + 1 \in 1..n
        /\ After(state, pulses, noise, i + 1)
             = Touch(Touch(After(state, pulses, noise, i), pulses[i + 1]), noise[i + 1])
      BY <1>2, <1>4, <1>6, AfterNext DEF Step
  <2>2. Unmeasured(Touch(After(state, pulses, noise, i), pulses[i + 1]))
      BY <1>3, <1>6, <2>1, TouchUnmeasured
  <2>3. Unmeasured(After(state, pulses, noise, i + 1))
      BY <1>3, <2>1, <2>2, TouchUnmeasured
  <2>. QED BY <1>2, <2>1, <2>3
<1>7. n \in good
  <2>. HIDE DEF good
  <2>. QED BY <1>2, <1>5, <1>6, UpTo
<1>. QED BY <1>1, <1>7

\* The context after a step on a heap h refers to the object its context had or
\* to a new one, and every other object stays as it was.
Follows(h, c, next) ==
    /\ Keeps(h, next.heap, c.state)
    /\ next.context \in Contexts(Len(next.heap))
    /\ next.context.state = c.state \/ next.context.state > Len(h)

LEMMA FlushFollows ==
    ASSUME NEW h, NEW c \in Contexts(Len(h)), IsSequence(h),
           plan \in Plans, pending \in SUBSET Indices
    PROVE  /\ Follows(h, c, Flush(h, c))
           /\ Unmeasured(h[c.state]) =>
                Unmeasured(Flush(h, c).heap[Flush(h, c).context.state])
<1>1. Len(h) \in Nat /\ Len(plan) \in Nat /\ c.state \in 1..Len(h)
    BY EngineAssumption DEF IsSequence, Contexts
<1>2. CASE pending = {}
  <2>1. Flush(h, c) = [heap |-> h, context |-> c]
      BY <1>2 DEF Flush
  <2>2. Keeps(h, h, c.state)
      BY <1>1 DEF Keeps
  <2>. QED BY <2>1, <2>2 DEF Follows
<1>3. CASE pending # {}
  <2>. DEFINE enabled == Enabled(pending, c.memory)
              state == Evolve(h[c.state], pending, c.time, enabled)
              new == Update(h, c.state, state)
              frame == IF runner.frames THEN c.frame \cup enabled ELSE c.frame
              time == Semantics!Latest(pending)
              d == [c EXCEPT !.state = new.ref,
                             !.frame = IF runner.frames THEN @ \cup enabled ELSE @,
                             !.time = time]
  <2>1. Flush(h, c) = [heap |-> new.heap, context |-> d]
      BY <1>3 DEF Flush
  <2>2. enabled \subseteq Indices
      BY DEF Enabled
  <2>3. time \in 0..Len(plan)
      BY <1>1, LatestInRange DEF Indices
  <2>4. /\ Keeps(h, new.heap, c.state)
        /\ new.ref \in 1..Len(new.heap) /\ new.heap[new.ref] = state
        /\ new.ref = c.state \/ new.ref > Len(h)
      BY <1>1, UpdateKeeps
  <2>5. Unmeasured(h[c.state]) => Unmeasured(state)
      BY EvolveUnmeasured
  <2>. HIDE DEF new, enabled, state, time
  <2>6. d \in Contexts(Len(new.heap)) /\ d.state = new.ref
      BY <2>2, <2>3, <2>4 DEF Contexts
  <2>. HIDE DEF d
  <2>. QED BY <2>1, <2>4, <2>5, <2>6 DEF Follows
<1>. QED BY <1>2, <1>3

LEMMA BoundaryFollows ==
    ASSUME NEW h, NEW c \in Contexts(Len(h)), IsSequence(h), NEW i, NEW bit \in Bits
    PROVE  /\ Follows(h, c, Boundary(h, c, i, bit))
           /\ Unmeasured(h[c.state]) /\ ~ IsMeasurement(StepAt(i)) =>
                Unmeasured(Boundary(h, c, i, bit).heap[Boundary(h, c, i, bit).context.state])
<1>1. Len(h) \in Nat /\ c.state \in 1..Len(h)
    BY DEF IsSequence, Contexts
<1>. DEFINE step == StepAt(i)
            on == IF IsMeasurement(step) \/ Matches(step.condition, c.memory)
                    THEN step.targets ELSE {}
            event == [kind |-> step.kind, step |-> i, from |-> 0, bit |-> bit, on |-> on]
            state == Touch(h[c.state], event)
            new == Update(h, c.state, state)
            d == [c EXCEPT !.state = new.ref,
                           !.memory = IF IsMeasurement(step) THEN [@ EXCEPT ![step.clbit] = bit]
                                                             ELSE @]
<1>2. Boundary(h, c, i, bit) = [heap |-> new.heap, context |-> d]
    BY DEF Boundary
<1>3. /\ Keeps(h, new.heap, c.state)
      /\ new.ref \in 1..Len(new.heap) /\ new.heap[new.ref] = state
      /\ new.ref = c.state \/ new.ref > Len(h)
    BY <1>1, UpdateKeeps
<1>4. Unmeasured(h[c.state]) /\ ~ IsMeasurement(step) => Unmeasured(state)
  <2>1. event.kind = step.kind
      OBVIOUS
  <2>. HIDE DEF event
  <2>. QED BY <2>1, TouchUnmeasured DEF IsMeasurement, Semantics!IsMeasurement
<1>. HIDE DEF new, state
<1>5. d \in Contexts(Len(new.heap)) /\ d.state = new.ref
    BY <1>3 DEF Contexts
<1>. HIDE DEF d
<1>. QED BY <1>2, <1>3, <1>4, <1>5 DEF Follows
----------------------------------------------------------------------------
(* The invariant.                                                          *)

LEMMA RequestCount ==
    ASSUME CallInv
    PROVE  /\ Len(Requests) \in Nat \ {0}
           /\ Requests = [g \in 1..Len(Requests) |-> Requests[g]]
           /\ api # "groups" => Len(Requests) = 1
<1>1. CASE api = "groups"
  <2>1. Len(groups) \in Nat \ {0}
      BY <1>1, EngineAssumption DEF CallInv
  <2>. DEFINE r == [g \in 1..Len(groups) |-> Append(plan, groups[g])]
  <2>2. Requests = r
      BY <1>1 DEF Requests
  <2>3. r = [g \in 1..Len(groups) |-> r[g]]
      OBVIOUS
  <2>. HIDE DEF r
  <2>4. Len(r) = Len(groups)
      BY <2>1, <2>3, FunctionIsSequence
  <2>. QED BY <1>1, <2>1, <2>2, <2>3, <2>4
<1>2. CASE api # "groups"
  <2>1. Requests = <<plan>>
      BY <1>2 DEF Requests
  <2>2. Len(<<plan>>) = 1 /\ <<plan>> = [g \in 1..1 |-> <<plan>>[g]]
      OBVIOUS
  <2>. QED BY <2>1, <2>2
<1>. QED BY <1>1, <1>2

LEMMA OneObject == IsSequence(<<Blank>>) /\ Len(<<Blank>>) = 1 /\ <<Blank>>[1] = Blank
<1>1. <<Blank>> = [k \in 1..1 |-> <<Blank>>[k]]
    OBVIOUS
<1>. QED BY <1>1, FunctionIsSequence

LEMMA BlankUnmeasured == Unmeasured(Blank)
<1>1. NoMeasurement(<<>>)
  <2>1. <<>> \in Seq({}) /\ Len(<<>>) = 0
      OBVIOUS
  <2>2. IsSequence(<<>>)
      BY <2>1, SeqIsSequence
  <2>3. \A k \in 1..0 : FALSE
      OBVIOUS
  <2>. QED BY <2>1, <2>2, <2>3 DEF NoMeasurement
<1>. QED BY <1>1 DEF Unmeasured, Blank

LEMMA FreshContext ==
    ASSUME plan \in Plans, NEW n \in Nat, NEW ref \in 1..n
    PROVE  Fresh(ref) \in Contexts(n)
<1>1. Len(plan) \in Nat
    BY EngineAssumption
<1>. QED BY <1>1 DEF Fresh, Contexts, Bits, Semantics!Bits

LEMMA InitInv == Init => Inv
<1>. SUFFICES ASSUME Init PROVE Inv
    OBVIOUS
<1>1. CallInv
    BY DEF Init, CallInv
<1>2. plan \in Plans /\ Len(plan) \in Nat
    BY EngineAssumption DEF Init
<1>3. CursorInv
    BY <1>2 DEF Init, CursorInv
<1>4. CountInv
  <2>. DEFINE n == Len(Requests)
  <2>1. n \in Nat \ {0} /\ DOMAIN Requests = 1..n
      BY <1>1, RequestCount
  <2>2. delivered = [g \in 1..n |-> <<>>] /\ group = 1
      BY DEF Init
  <2>3. IsSequence(<<>>) /\ Len(<<>>) = 0
    <3>1. <<>> \in Seq({})
        OBVIOUS
    <3>. QED BY <3>1, SeqIsSequence
  <2>. HIDE DEF n
  <2>4. IsSequence(delivered) /\ Len(delivered) = n
    <3>1. delivered = [g \in 1..n |-> delivered[g]]
        BY <2>2
    <3>. QED BY <2>1, <3>1, FunctionIsSequence
  <2>5. \A g \in 1..n : delivered[g] = <<>>
      BY <2>2
  <2>6. 0 < Shots /\ 0 <= Shots
      BY EngineAssumption
  <2>7. 1 \in 1..n
      BY <2>1
  <2>. QED BY <2>2, <2>3, <2>4, <2>5, <2>6, <2>7 DEF CountInv, n
<1>5. HeapInv
  <2>1. Fresh(1) \in Contexts(1)
      BY <1>2, FreshContext
  <2>. QED BY <2>1, OneObject DEF Init, HeapInv
<1>6. SourceInv
    BY DEF Init, SourceInv
<1>. QED BY <1>1, <1>3, <1>4, <1>5, <1>6 DEF Init, Inv

\* The call does not change.
LEMMA CallStays ==
    ASSUME [Next]_vars
    PROVE  /\ call' = call
           /\ Requests' = Requests /\ Indices' = Indices
           /\ \A n \in Nat : Contexts(n)' = Contexts(n)
<1>1. call' = call
    BY DEF Next, ChooseStrategy, TakePulse, CrossBoundary, EndShot, EndEvolution,
           RunTrajectoryBatch, StartSample, MeasureTerminal, FinishSample, vars
<1>. QED BY <1>1 DEF call, Requests, Indices, Contexts

LEMMA NextCall == CallInv /\ [Next]_vars => CallInv'
<1>. SUFFICES ASSUME CallInv, [Next]_vars PROVE CallInv'
    OBVIOUS
<1>1. call' = call /\ Indices' = Indices /\ runner' = runner /\ api' = api /\ plan' = plan
      /\ groups' = groups
    BY CallStays DEF call
<1>2. runner.apis \subseteq {"run", "trajectories", "groups"}
    BY EngineAssumption DEF CallInv, Runner
<1>3. CASE ChooseStrategy
    BY <1>1, <1>2, <1>3 DEF ChooseStrategy, CallInv
<1>4. CASE TakePulse \/ CrossBoundary
    BY <1>1, <1>4 DEF TakePulse, CrossBoundary, CallInv
<1>5. CASE EndShot
    BY <1>1, <1>5 DEF EndShot, CallInv
<1>6. CASE EndEvolution
    BY <1>1, <1>6 DEF EndEvolution, CallInv
<1>7. CASE RunTrajectoryBatch \/ StartSample \/ MeasureTerminal
    BY <1>1, <1>7 DEF RunTrajectoryBatch, StartSample, MeasureTerminal, CallInv
<1>8. CASE FinishSample
    BY <1>1, <1>8 DEF FinishSample, CallInv
<1>9. CASE UNCHANGED vars
    BY <1>1, <1>9 DEF vars, CallInv
<1>. QED BY <1>3, <1>4, <1>5, <1>6, <1>7, <1>8, <1>9 DEF Next

LEMMA NextCursor == CallInv /\ CursorInv /\ [Next]_vars => CursorInv'
<1>. SUFFICES ASSUME CallInv, CursorInv, [Next]_vars PROVE CursorInv'
    OBVIOUS
<1>1. plan' = plan /\ Indices' = Indices
    BY CallStays DEF call
<1>2. Len(plan) \in Nat
    BY EngineAssumption DEF CallInv
<1>3. CASE ChooseStrategy
  <2>1. terminal' \subseteq 1..(Len(plan) + 1)
    <3>1. AllMeasurements \subseteq 1..(Len(plan) + 1) /\ Len(plan) + 1 \in 1..(Len(plan) + 1)
        BY <1>2 DEF AllMeasurements, Indices
    <3>. QED BY <1>3, <3>1 DEF ChooseStrategy
  <2>2. cursor' = 0 /\ at' = at /\ pending' = pending
      BY <1>3 DEF ChooseStrategy, CursorInv
  <2>. QED BY <1>1, <1>2, <2>1, <2>2 DEF CursorInv
<1>4. CASE TakePulse
  <2>1. at \in Indices /\ at + 1 \in 1..(Len(plan) + 1)
      BY <1>2, <1>4 DEF TakePulse, CursorInv, Indices
  <2>. QED BY <1>1, <1>4, <2>1 DEF TakePulse, CursorInv
<1>5. CASE CrossBoundary
  <2>1. at + 1 \in 1..(Len(plan) + 1)
      BY <1>2, <1>5 DEF CrossBoundary, CursorInv
  <2>. QED BY <1>1, <1>5, <2>1 DEF CrossBoundary, CursorInv
<1>6. CASE EndShot
  <2>1. 1 \in 1..(Len(plan) + 1)
      BY <1>2
  <2>. QED BY <1>1, <1>6, <2>1 DEF EndShot, CursorInv
<1>7. CASE EndEvolution \/ RunTrajectoryBatch \/ StartSample
    BY <1>1, <1>7 DEF EndEvolution, RunTrajectoryBatch, StartSample, CursorInv
<1>8. CASE MeasureTerminal
    BY <1>1, <1>8 DEF MeasureTerminal, Ahead, CursorInv
<1>9. CASE FinishSample \/ UNCHANGED vars
    BY <1>1, <1>9 DEF FinishSample, CursorInv, vars
<1>. QED BY <1>3, <1>4, <1>5, <1>6, <1>7, <1>8, <1>9 DEF Next

\* An answer adds one outcome to the running group.
LEMMA AnswerCounts ==
    ASSUME CallInv, CountInv, pc # "returned", NEW outcome, Answer(outcome)
    PROVE  /\ IsSequence(delivered') /\ Len(delivered') = Len(Requests)
           /\ \A g \in 1..Len(Requests) :
                 IsSequence(delivered'[g]) /\ Len(delivered'[g]) <= Shots
           /\ \A g \in 1..Len(Requests) : g # group => delivered'[g] = delivered[g]
           /\ Len(delivered'[group]) = Len(delivered[group]) + 1
<1>. DEFINE n == Len(Requests)
            more == Append(delivered[group], outcome)
<1>1. n \in Nat /\ group \in 1..n /\ delivered = [g \in 1..n |-> delivered[g]]
    BY RequestCount DEF CountInv, IsSequence
<1>2. IsSequence(delivered[group])
    BY DEF CountInv
<1>3. delivered' = [delivered EXCEPT ![group] = more]
    BY DEF Answer
<1>4. IsSequence(more) /\ Len(more) = Len(delivered[group]) + 1
    BY <1>2, AppendIsSequence
<1>5. Len(delivered[group]) \in Nat /\ Len(delivered[group]) < Shots /\ Shots \in Nat
    BY <1>2, EngineAssumption DEF IsSequence, CountInv
<1>6. Len(more) <= Shots
    BY <1>4, <1>5
<1>7. \A g \in 1..n : IsSequence(delivered[g]) /\ Len(delivered[g]) <= Shots
    BY DEF CountInv
<1>. HIDE DEF n, more
<1>8. delivered' = [g \in 1..n |-> delivered'[g]]
    BY <1>1, <1>3
<1>9. delivered'[group] = more /\ \A g \in 1..n : g # group => delivered'[g] = delivered[g]
    BY <1>1, <1>3
<1>10. IsSequence(delivered') /\ Len(delivered') = n
    BY <1>1, <1>8, FunctionIsSequence
<1>. QED BY <1>4, <1>6, <1>7, <1>9, <1>10 DEF n

LEMMA NextCount == CallInv /\ CountInv /\ [Next]_vars => CountInv'
<1>. SUFFICES ASSUME CallInv, CountInv, [Next]_vars PROVE CountInv'
    OBVIOUS
<1>. DEFINE n == Len(Requests)
<1>1. Requests' = Requests
    BY CallStays
<1>2. n \in Nat \ {0} /\ group \in 1..n /\ Shots \in Nat \ {0}
    BY RequestCount, EngineAssumption DEF CountInv
<1>3. Len(delivered) = n
    BY DEF CountInv
<1>4. Len(delivered[group]) \in Nat
    BY DEF CountInv, IsSequence
<1>5. CASE EndShot
  <2>1. /\ \E outcome : Answer(outcome)
        /\ pc # "returned" /\ group' = group
        /\ pc' = IF Len(delivered[group]) + 1 = Shots THEN "returned" ELSE "traverse"
      BY <1>5 DEF EndShot
  <2>2. PICK outcome : Answer(outcome)
      BY <2>1
  <2>3. /\ IsSequence(delivered') /\ Len(delivered') = n
        /\ \A g \in 1..n : IsSequence(delivered'[g]) /\ Len(delivered'[g]) <= Shots
        /\ \A g \in 1..n : g # group => delivered'[g] = delivered[g]
        /\ Len(delivered'[group]) = Len(delivered[group]) + 1
      BY <2>1, <2>2, AnswerCounts
  <2>4. Len(delivered[group]) < Shots
      BY <2>1 DEF CountInv
  <2>. HIDE DEF n
  <2>5. pc' # "returned" => Len(delivered'[group]) < Shots
      BY <1>2, <1>4, <2>1, <2>3, <2>4
  <2>6. \A g \in 1..n : g > group => delivered'[g] = <<>>
      BY <1>2, <2>3 DEF CountInv, n
  <2>. QED BY <1>1, <1>2, <2>1, <2>3, <2>5, <2>6 DEF CountInv, n
<1>6. CASE FinishSample
  <2>1. /\ Answer(Payload(heap, context)) /\ pc # "returned"
        /\ IF Len(delivered[group]) + 1 < Shots
             THEN pc' = "sample" /\ group' = group
             ELSE IF group < n
               THEN pc' = "sample" /\ group' = group + 1
               ELSE pc' = "returned" /\ group' = group
      BY <1>3, <1>6 DEF FinishSample, Drawn
  <2>3. /\ IsSequence(delivered') /\ Len(delivered') = n
        /\ \A g \in 1..n : IsSequence(delivered'[g]) /\ Len(delivered'[g]) <= Shots
        /\ \A g \in 1..n : g # group => delivered'[g] = delivered[g]
        /\ Len(delivered'[group]) = Len(delivered[group]) + 1
      BY <2>1, AnswerCounts
  <2>4. \A g \in 1..n : g > group => delivered[g] = <<>>
      BY DEF CountInv
  <2>. HIDE DEF n
  <2>5. CASE group' = group
    <3>1. pc' # "returned" => Len(delivered'[group]) < Shots
        BY <1>2, <1>4, <2>1, <2>3, <2>5
    <3>2. \A g \in 1..n : g > group => delivered'[g] = <<>>
        BY <1>2, <2>3, <2>4
    <3>. QED BY <1>1, <1>2, <2>3, <2>5, <3>1, <3>2 DEF CountInv, n
  <2>6. CASE group < n /\ group' = group + 1
    <3>1. group + 1 \in 1..n /\ group + 1 > group /\ group + 1 # group
        BY <1>2, <2>6
    <3>2. delivered'[group + 1] = <<>> /\ Len(<<>>) = 0 /\ 0 < Shots
        BY <1>2, <2>3, <2>4, <3>1
    <3>3. \A g \in 1..n : g > group + 1 => g > group /\ g # group
        BY <1>2
    <3>4. \A g \in 1..n : g > group' => delivered'[g] = <<>>
        BY <2>3, <2>4, <2>6, <3>3
    <3>5. Len(delivered'[group']) < Shots
        BY <2>6, <3>2
    <3>. QED BY <1>1, <2>3, <2>6, <3>1, <3>4, <3>5 DEF CountInv, n
  <2>. QED BY <2>1, <2>5, <2>6
<1>7. CASE ~ EndShot /\ ~ FinishSample
  <2>1. /\ delivered' = delivered /\ group' = group
        /\ pc' # "returned" => pc # "returned"
      BY <1>7 DEF Next, ChooseStrategy, TakePulse, CrossBoundary, EndEvolution,
             RunTrajectoryBatch, StartSample, MeasureTerminal, vars
  <2>. QED BY <1>1, <2>1 DEF CountInv
<1>. QED BY <1>5, <1>6, <1>7
ObjectInv == HeapInv /\ SourceInv

LEMMA MoreObjects ==
    ASSUME NEW m \in Nat, NEW n \in Nat, m <= n, NEW c \in Contexts(m)
    PROVE  c \in Contexts(n)
BY DEF Contexts

LEMMA ChooseObjects == CallInv /\ ObjectInv /\ ChooseStrategy => ObjectInv'
<1>. SUFFICES ASSUME CallInv, ObjectInv, ChooseStrategy PROVE ObjectInv'
    OBVIOUS
<1>1. [Next]_vars
    BY DEF Next
<1>2. /\ pc = "choose" /\ pc' \in {"traverse", "batch"}
      /\ heap' = heap /\ context' = context /\ source' = source
      /\ Len(heap) \in Nat /\ Contexts(Len(heap))' = Contexts(Len(heap'))
    BY <1>1, CallStays DEF ChooseStrategy, ObjectInv, HeapInv, IsSequence, Contexts, call
<1>3. heap = <<Blank>> /\ context = Fresh(1) /\ source = Fresh(1)
    BY <1>2 DEF ObjectInv, HeapInv
<1>4. pc' = "batch" <=> strategy' = "batch"
    BY DEF ChooseStrategy
<1>5. HeapInv'
  <2>1. Contexts(Len(heap))' = Contexts(Len(heap))
      BY <1>2
  <2>. QED BY <1>2, <1>3, <2>1 DEF ObjectInv, HeapInv, Fresh, Blank
<1>6. Unmeasured(heap[context.state])
    BY <1>3, BlankUnmeasured DEF Fresh
<1>7. SourceInv'
    BY <1>2, <1>6 DEF SourceInv, Unmeasured, NoMeasurement, IsSequence
<1>. QED BY <1>5, <1>7 DEF ObjectInv

LEMMA CrossObjects == CallInv /\ CursorInv /\ ObjectInv /\ CrossBoundary => ObjectInv'
<1>. SUFFICES ASSUME CallInv, CursorInv, ObjectInv, CrossBoundary PROVE ObjectInv'
    OBVIOUS
<1>1. [Next]_vars /\ plan \in Plans /\ pending \in SUBSET Indices
    BY DEF Next, CallInv, CursorInv
<1>2. IsSequence(heap) /\ Len(heap) \in Nat /\ context \in Contexts(Len(heap))
      /\ source \in Contexts(Len(heap)) /\ source = Fresh(1)
    BY DEF ObjectInv, HeapInv, CrossBoundary, IsSequence
<1>. DEFINE flushed == Flush(heap, context)
            deferred == Deferring /\ IsMeasurement(plan[at])
            crossed(bit) == IF deferred THEN flushed
                            ELSE Boundary(flushed.heap, flushed.context, at, bit)
<1>3. PICK bit \in Bits : heap' = crossed(bit).heap /\ context' = crossed(bit).context
  <2>1. \A b \in Results(at) \cup {0} : b \in Bits
      BY DEF Results, Bits, Semantics!Bits
  <2>. QED BY <2>1 DEF CrossBoundary
<1>4. /\ Follows(heap, context, flushed)
      /\ Unmeasured(heap[context.state]) => Unmeasured(flushed.heap[flushed.context.state])
    BY <1>1, <1>2, FlushFollows
<1>5. /\ IsSequence(flushed.heap) /\ Len(flushed.heap) >= Len(heap)
      /\ Len(flushed.heap) \in Nat
      /\ flushed.context \in Contexts(Len(flushed.heap))
    BY <1>4 DEF Follows, Keeps, IsSequence
<1>. DEFINE done == Boundary(flushed.heap, flushed.context, at, bit)
<1>6. /\ Follows(flushed.heap, flushed.context, done)
      /\ Unmeasured(flushed.heap[flushed.context.state]) /\ ~ IsMeasurement(StepAt(at)) =>
           Unmeasured(done.heap[done.context.state])
    BY <1>5, BoundaryFollows
<1>7. /\ IsSequence(done.heap) /\ Len(done.heap) >= Len(flushed.heap)
      /\ Len(done.heap) \in Nat
      /\ done.context \in Contexts(Len(done.heap))
    BY <1>6 DEF Follows, Keeps, IsSequence
<1>8. IF deferred THEN heap' = flushed.heap /\ context' = flushed.context
                  ELSE heap' = done.heap /\ context' = done.context
    BY <1>3
<1>9. StepAt(at) = plan[at] /\ ~ IsPulse(plan[at]) /\ at \in Indices
  <2>1. Len(plan) \in Nat
      BY <1>1, EngineAssumption
  <2>. QED BY <2>1 DEF CrossBoundary, StepAt, CursorInv, Indices
<1>. HIDE DEF flushed, done
<1>10. /\ IsSequence(heap') /\ Len(heap') >= Len(heap) /\ Len(heap') \in Nat
       /\ context' \in Contexts(Len(heap'))
    BY <1>2, <1>5, <1>7, <1>8
<1>11. source' = source /\ source \in Contexts(Len(heap'))
    BY <1>2, <1>10, MoreObjects DEF CrossBoundary
<1>12. pc' = pc /\ pc = "traverse" /\ strategy' = strategy
    BY DEF CrossBoundary
<1>13. HeapInv'
  <2>1. Contexts(Len(heap))' = Contexts(Len(heap'))
      BY <1>1, CallStays DEF Contexts, call
  <2>. QED BY <1>2, <1>10, <1>11, <1>12, <2>1 DEF HeapInv, Fresh
<1>14. strategy # "per_shot" => Unmeasured(heap'[context'.state])
  <2>. SUFFICES ASSUME strategy # "per_shot" PROVE Unmeasured(heap'[context'.state])
      OBVIOUS
  <2>1. strategy = "fast"
      BY <1>9, <1>12 DEF CallInv
  <2>2. Unmeasured(flushed.heap[flushed.context.state])
      BY <1>4, <1>12 DEF ObjectInv, SourceInv
  <2>3. CASE deferred
      BY <1>8, <2>2, <2>3
  <2>4. CASE ~ deferred
    <3>1. ~ IsMeasurement(StepAt(at))
        BY <1>9, <2>1, <2>4 DEF Deferring
    <3>. QED BY <1>6, <1>8, <2>2, <2>4, <3>1
  <2>. QED BY <2>3, <2>4
<1>15. SourceInv'
    BY <1>12, <1>14 DEF SourceInv, Unmeasured, NoMeasurement, IsSequence
<1>. QED BY <1>13, <1>15 DEF ObjectInv

LEMMA EndShotObjects == CallInv /\ ObjectInv /\ EndShot => ObjectInv'
<1>. SUFFICES ASSUME CallInv, ObjectInv, EndShot PROVE ObjectInv'
    OBVIOUS
<1>1. [Next]_vars /\ plan \in Plans /\ plan' = plan
    BY CallStays DEF Next, CallInv, call
<1>2. /\ heap' = <<Blank>> /\ context' = Fresh(1) /\ source' = source /\ source = Fresh(1)
      /\ pc' \in {"returned", "traverse"} /\ strategy' = "per_shot"
    BY DEF EndShot, ObjectInv, HeapInv
<1>3. Fresh(1) \in Contexts(1)
    BY <1>1, FreshContext
<1>4. IsSequence(heap') /\ Len(heap') = 1
    BY <1>2, OneObject
<1>5. Contexts(Len(heap))' = Contexts(1)
    BY <1>1, <1>4, CallStays DEF Contexts, call
<1>6. HeapInv'
    BY <1>2, <1>3, <1>4, <1>5 DEF HeapInv, Fresh
<1>7. SourceInv'
    BY <1>2 DEF SourceInv
<1>. QED BY <1>6, <1>7 DEF ObjectInv

LEMMA EndEvolutionObjects ==
    CallInv /\ CursorInv /\ CountInv /\ ObjectInv /\ EndEvolution => ObjectInv'
<1>. SUFFICES ASSUME CallInv, CursorInv, ObjectInv, EndEvolution PROVE ObjectInv'
    OBVIOUS
<1>1. [Next]_vars /\ plan \in Plans /\ pending \in SUBSET Indices
    BY DEF Next, CallInv, CursorInv
<1>2. IsSequence(heap) /\ Len(heap) \in Nat /\ context \in Contexts(Len(heap))
    BY DEF ObjectInv, HeapInv, IsSequence
<1>. DEFINE flushed == Flush(heap, context)
            needs   == ~PreserveSource /\ terminal # {} /\ Shots > 1
            copy    == Copy(flushed.heap, flushed.context.state)
            kept    == IF needs THEN copy
                       ELSE [heap |-> flushed.heap, ref |-> flushed.context.state]
<1>3. /\ heap' = kept.heap /\ context' = flushed.context
      /\ source' = [flushed.context EXCEPT !.state = kept.ref]
      /\ pc = "traverse" /\ pc' = "sample" /\ strategy' = strategy /\ strategy # "per_shot"
      /\ terminal' = terminal
    BY DEF EndEvolution
<1>4. Follows(heap, context, flushed)
    BY <1>1, <1>2, FlushFollows
<1>5. Unmeasured(heap[context.state]) => Unmeasured(flushed.heap[flushed.context.state])
    BY <1>1, <1>2, FlushFollows
<1>6. Unmeasured(heap[context.state])
    BY <1>3 DEF ObjectInv, SourceInv
<1>7. /\ IsSequence(flushed.heap) /\ Len(flushed.heap) \in Nat
      /\ flushed.context \in Contexts(Len(flushed.heap))
      /\ flushed.context.state \in 1..Len(flushed.heap)
    BY <1>4 DEF Follows, Keeps, IsSequence, Contexts
<1>8. /\ Keeps(flushed.heap, copy.heap, 0)
      /\ copy.ref \in 1..Len(copy.heap)
      /\ copy.heap[copy.ref] = flushed.heap[flushed.context.state]
      /\ copy.ref > Len(flushed.heap)
    BY <1>7, CopyKeeps
<1>9. IF needs THEN kept = copy ELSE kept.heap = flushed.heap /\ kept.ref = flushed.context.state
    OBVIOUS
<1>. HIDE DEF flushed, copy, kept
<1>10. /\ IsSequence(kept.heap) /\ Len(kept.heap) \in Nat /\ Len(kept.heap) >= Len(flushed.heap)
       /\ kept.ref \in 1..Len(kept.heap)
       /\ kept.heap[kept.ref] = flushed.heap[flushed.context.state]
       /\ needs => kept.ref # flushed.context.state
  <2>1. CASE needs
    <3>1. kept = copy /\ Len(copy.heap) >= Len(flushed.heap) /\ IsSequence(copy.heap)
        BY <1>8, <1>9, <2>1 DEF Keeps
    <3>2. copy.ref # flushed.context.state
        BY <1>7, <1>8, <3>1 DEF IsSequence
    <3>. QED BY <1>8, <3>1, <3>2 DEF IsSequence
  <2>2. CASE ~ needs
      BY <1>7, <1>9, <2>2
  <2>. QED BY <2>1, <2>2
<1>11. context' \in Contexts(Len(heap'))
    BY <1>3, <1>7, <1>10, MoreObjects
<1>12. source' \in Contexts(Len(heap')) /\ source'.state = kept.ref
    BY <1>3, <1>10, <1>11 DEF Contexts
<1>13. Contexts(Len(heap))' = Contexts(Len(heap'))
    BY <1>1, CallStays DEF Contexts, call
<1>14. HeapInv'
    BY <1>3, <1>10, <1>11, <1>12, <1>13 DEF HeapInv
<1>15. Unmeasured(heap'[source'.state])
    BY <1>3, <1>5, <1>6, <1>10, <1>12
<1>16. strategy # "batch"
    BY <1>3 DEF CallInv
<1>17. strategy = "fast" /\ Shots > 1 => terminal = {} \/ context'.state # source'.state
    BY <1>3, <1>10, <1>12 DEF PreserveSource
<1>18. SourceInv'
    BY <1>3, <1>15, <1>16, <1>17 DEF SourceInv, Unmeasured, NoMeasurement, IsSequence
<1>. QED BY <1>14, <1>18 DEF ObjectInv

LEMMA BatchObjects == CallInv /\ ObjectInv /\ RunTrajectoryBatch => ObjectInv'
<1>. SUFFICES ASSUME CallInv, ObjectInv, RunTrajectoryBatch PROVE ObjectInv'
    OBVIOUS
<1>1. [Next]_vars /\ plan \in Plans /\ plan' = plan /\ Len(plan) \in Nat /\ Shots \in Nat \ {0}
    BY CallStays, EngineAssumption DEF Next, CallInv, call
<1>. DEFINE blocks == {i \in Indices : IsPulse(plan[i])}
            evolved == Evolve(Blank, blocks, 0, blocks)
            time == Semantics!Latest(blocks)
<1>2. /\ heap' = [n \in 1..Shots |-> evolved]
      /\ source' = [Fresh(1) EXCEPT !.time = time]
      /\ pc = "batch" /\ pc' = "sample" /\ strategy' = strategy /\ context' = context
    BY DEF RunTrajectoryBatch
<1>3. strategy = "batch" /\ context = Fresh(1)
    BY <1>2 DEF CallInv, ObjectInv, HeapInv
<1>4. Unmeasured(evolved)
    BY <1>1, BlankUnmeasured, EvolveUnmeasured
<1>5. time \in 0..Len(plan)
    BY <1>1, LatestInRange DEF Indices
<1>. HIDE DEF evolved, time
<1>6. IsSequence(heap') /\ Len(heap') = Shots
  <2>1. heap' = [n \in 1..Shots |-> heap'[n]]
      BY <1>2
  <2>. QED BY <1>1, <2>1, FunctionIsSequence
<1>7. Fresh(1) \in Contexts(Shots)
    BY <1>1, FreshContext
<1>8. source' \in Contexts(Shots) /\ context' \in Contexts(Shots)
    BY <1>2, <1>3, <1>5, <1>7 DEF Contexts
<1>9. Contexts(Len(heap))' = Contexts(Shots)
    BY <1>1, <1>6, CallStays DEF Contexts, call
<1>10. HeapInv'
    BY <1>2, <1>6, <1>8, <1>9 DEF HeapInv
<1>11. \A n \in 1..Shots : Unmeasured(heap'[n])
    BY <1>2, <1>4
<1>12. Len(heap') >= Shots
    BY <1>1, <1>6
<1>13. SourceInv'
    BY <1>2, <1>3, <1>11, <1>12 DEF SourceInv, Unmeasured, NoMeasurement, IsSequence
<1>. QED BY <1>10, <1>13 DEF ObjectInv

LEMMA StartSampleObjects == CallInv /\ CountInv /\ ObjectInv /\ StartSample => ObjectInv'
<1>. SUFFICES ASSUME CallInv, CountInv, ObjectInv, StartSample PROVE ObjectInv'
    OBVIOUS
<1>1. [Next]_vars /\ plan \in Plans /\ plan' = plan
    BY CallStays DEF Next, CallInv, call
<1>2. /\ IsSequence(heap) /\ Len(heap) \in Nat /\ context \in Contexts(Len(heap))
      /\ source \in Contexts(Len(heap)) /\ source.state \in 1..Len(heap)
    BY DEF ObjectInv, HeapInv, IsSequence, Contexts
<1>3. /\ pc = "sample" /\ pc' = "measure" /\ strategy' = strategy /\ source' = source
      /\ terminal' = terminal
    BY DEF StartSample
<1>4. strategy \in {"fast", "groups", "batch"}
    BY <1>3 DEF CallInv
<1>5. Contexts(Len(heap))' = Contexts(Len(heap'))
    BY <1>1, CallStays DEF Contexts, call
<1>6. CASE strategy = "fast" /\ Drawn = 0
  <2>1. heap' = heap /\ context' = context
      BY <1>6 DEF StartSample
  <2>2. HeapInv'
      BY <1>2, <1>3, <1>5, <2>1 DEF HeapInv
  <2>3. SourceInv'
      BY <1>3, <1>6, <2>1 DEF ObjectInv, SourceInv, Unmeasured, NoMeasurement, IsSequence
  <2>. QED BY <2>2, <2>3 DEF ObjectInv
<1>7. CASE ~ (strategy = "fast" /\ Drawn = 0)
  <2>. DEFINE from == IF strategy = "batch" THEN Drawn + 1 ELSE source.state
              copy == Copy(heap, from)
  <2>1. /\ heap' = copy.heap
        /\ context' = [Fresh(copy.ref) EXCEPT !.frame = source.frame, !.time = source.time]
      BY <1>7 DEF StartSample
  <2>2. from \in 1..Len(heap)
    <3>1. Drawn \in Nat /\ Drawn < Shots /\ Shots \in Nat
        BY <1>3, EngineAssumption DEF CountInv, Drawn, IsSequence
    <3>2. strategy = "batch" => Len(heap) >= Shots
        BY <1>3 DEF ObjectInv, SourceInv
    <3>. QED BY <1>2, <3>1, <3>2
  <2>3. /\ Keeps(heap, copy.heap, 0)
        /\ copy.ref \in 1..Len(copy.heap) /\ copy.ref > Len(heap)
      BY <1>2, <2>2, CopyKeeps
  <2>. HIDE DEF from, copy
  <2>4. /\ IsSequence(heap') /\ Len(heap') \in Nat /\ Len(heap') >= Len(heap)
        /\ \A n \in 1..Len(heap) : heap'[n] = heap[n]
    <3>1. \A n \in 1..Len(heap) : n # 0
        BY <1>2
    <3>. QED BY <2>1, <2>3, <3>1 DEF Keeps, IsSequence
  <2>5. Fresh(copy.ref) \in Contexts(Len(heap'))
      BY <1>1, <2>1, <2>3, <2>4, FreshContext
  <2>6. source \in Contexts(Len(heap'))
      BY <1>2, <2>4, MoreObjects
  <2>7. context' \in Contexts(Len(heap')) /\ context'.state = copy.ref
      BY <2>1, <2>5, <2>6 DEF Contexts, Fresh
  <2>8. HeapInv'
      BY <1>3, <1>5, <2>4, <2>6, <2>7 DEF HeapInv
  <2>9. heap'[source.state] = heap[source.state] /\ context'.state # source.state
      BY <1>2, <2>3, <2>4, <2>7
  <2>10. CASE strategy = "batch"
    <3>1. Len(heap) >= Shots /\ \A n \in 1..Shots : Unmeasured(heap[n])
        BY <1>3, <2>10 DEF ObjectInv, SourceInv
    <3>2. Shots \in Nat
        BY EngineAssumption
    <3>3. \A n \in 1..Shots : heap'[n] = heap[n]
        BY <1>2, <2>4, <3>1, <3>2
    <3>4. Len(heap') >= Shots /\ context'.state > Shots
        BY <1>2, <2>3, <2>4, <2>7, <3>1, <3>2
    <3>5. \A n \in 1..Shots : Unmeasured(heap'[n])
        BY <3>1, <3>3
    <3>. QED BY <1>3, <2>8, <2>10, <3>4, <3>5
             DEF ObjectInv, SourceInv, Unmeasured, NoMeasurement, IsSequence
  <2>11. CASE strategy # "batch"
    <3>1. strategy = "groups" \/ Shots > 1 => Unmeasured(heap[source.state])
        BY <1>3, <1>4, <2>11 DEF ObjectInv, SourceInv
    <3>2. strategy = "groups" \/ Shots > 1 => Unmeasured(heap'[source'.state])
        BY <1>3, <2>9, <3>1
    <3>. QED BY <1>3, <2>8, <2>9, <2>11, <3>2
             DEF ObjectInv, SourceInv, Unmeasured, NoMeasurement, IsSequence
  <2>. QED BY <2>10, <2>11
<1>. QED BY <1>6, <1>7

LEMMA MeasureObjects == CallInv /\ ObjectInv /\ MeasureTerminal => ObjectInv'
<1>. SUFFICES ASSUME CallInv, ObjectInv, MeasureTerminal PROVE ObjectInv'
    OBVIOUS
<1>1. [Next]_vars /\ plan \in Plans
    BY DEF Next, CallInv
<1>2. /\ IsSequence(heap) /\ Len(heap) \in Nat
      /\ context \in Contexts(Len(heap)) /\ context.state \in 1..Len(heap)
      /\ source \in Contexts(Len(heap)) /\ source.state \in 1..Len(heap)
    BY DEF ObjectInv, HeapInv, IsSequence, Contexts
<1>3. PICK i \in Ahead : \E bit \in Bits :
          LET measured == Boundary(heap, context, i, bit)
          IN  heap' = measured.heap /\ context' = measured.context
    BY DEF MeasureTerminal
<1>4. PICK bit \in Bits : LET measured == Boundary(heap, context, i, bit)
                          IN  heap' = measured.heap /\ context' = measured.context
    BY <1>3
<1>5. /\ pc = "measure" /\ pc' = pc /\ strategy' = strategy /\ source' = source
      /\ terminal' = terminal
    BY DEF MeasureTerminal
<1>. DEFINE measured == Boundary(heap, context, i, bit)
<1>6. Follows(heap, context, measured)
    BY <1>2, BoundaryFollows
<1>7. heap' = measured.heap /\ context' = measured.context
    BY <1>4
<1>. HIDE DEF measured
<1>8. /\ IsSequence(heap') /\ Len(heap') \in Nat /\ Len(heap') >= Len(heap)
      /\ \A n \in 1..Len(heap) : n # context.state => heap'[n] = heap[n]
      /\ context' \in Contexts(Len(heap'))
      /\ context'.state = context.state \/ context'.state > Len(heap)
    BY <1>6, <1>7 DEF Follows, Keeps, IsSequence
<1>9. source \in Contexts(Len(heap'))
    BY <1>2, <1>8, MoreObjects
<1>10. Contexts(Len(heap))' = Contexts(Len(heap'))
    BY <1>1, CallStays DEF Contexts, call
<1>11. HeapInv'
    BY <1>5, <1>8, <1>9, <1>10 DEF HeapInv
<1>12. context.state # source.state =>
          heap'[source.state] = heap[source.state] /\ context'.state # source.state
    BY <1>2, <1>8
<1>13. terminal # {}
    BY <1>3 DEF Ahead
<1>14. CASE strategy = "batch"
  <2>1. Len(heap) >= Shots /\ context.state > Shots /\ \A n \in 1..Shots : Unmeasured(heap[n])
      BY <1>5, <1>14 DEF ObjectInv, SourceInv
  <2>2. Shots \in Nat
      BY EngineAssumption
  <2>3. \A n \in 1..Shots : n \in 1..Len(heap) /\ n # context.state
      BY <1>2, <2>1, <2>2
  <2>4. \A n \in 1..Shots : Unmeasured(heap'[n])
      BY <1>8, <2>1, <2>3
  <2>5. context'.state \in Nat /\ context.state \in Nat
      BY <1>2, <1>8 DEF Contexts
  <2>6. Len(heap') >= Shots /\ context'.state > Shots
      BY <1>2, <1>8, <2>1, <2>2, <2>5
  <2>. QED BY <1>5, <1>11, <1>14, <2>4, <2>6
           DEF ObjectInv, SourceInv, Unmeasured, NoMeasurement, IsSequence
<1>15. CASE strategy # "batch"
  <2>1. strategy = "groups" \/ strategy = "fast"
      BY <1>5, <1>15 DEF CallInv
  <2>2. strategy = "groups" \/ Shots > 1 =>
          Unmeasured(heap[source.state]) /\ context.state # source.state
      BY <1>5, <1>13, <2>1 DEF ObjectInv, SourceInv
  <2>3. strategy = "groups" \/ Shots > 1 =>
          Unmeasured(heap'[source'.state]) /\ context'.state # source'.state
      BY <1>5, <1>12, <2>2
  <2>. QED BY <1>5, <1>11, <1>15, <2>3
           DEF ObjectInv, SourceInv, Unmeasured, NoMeasurement, IsSequence
<1>. QED BY <1>14, <1>15

LEMMA NextObjects == CallInv /\ CursorInv /\ CountInv /\ ObjectInv /\ [Next]_vars => ObjectInv'
<1>. SUFFICES ASSUME CallInv, CursorInv, CountInv, ObjectInv, [Next]_vars PROVE ObjectInv'
    OBVIOUS
<1>1. CASE TakePulse \/ FinishSample \/ UNCHANGED vars
  <2>1. /\ heap' = heap /\ context' = context /\ source' = source /\ strategy' = strategy
        /\ terminal' = terminal
        /\ pc' = pc \/ (pc = "measure" /\ pc' \in {"sample", "returned"})
      BY <1>1 DEF TakePulse, FinishSample, vars
  <2>2. Contexts(Len(heap))' = Contexts(Len(heap))
      BY <2>1, CallStays DEF Contexts, call
  <2>3. HeapInv'
      BY <2>1, <2>2 DEF ObjectInv, HeapInv, Fresh, Blank, IsSequence
  <2>4. SourceInv'
      BY <2>1 DEF ObjectInv, SourceInv, Unmeasured, NoMeasurement, IsSequence
  <2>. QED BY <2>3, <2>4 DEF ObjectInv
<1>. QED BY <1>1, ChooseObjects, CrossObjects, EndShotObjects, EndEvolutionObjects,
            BatchObjects, StartSampleObjects, MeasureObjects DEF Next

LEMMA InvImplies == Inv => SourceStaysUnmeasured
<1>. SUFFICES ASSUME Inv PROVE SourceStaysUnmeasured
    OBVIOUS
<1>1. CallInv /\ CursorInv /\ CountInv /\ HeapInv /\ SourceInv
    BY DEF Inv
<1>2. ContextType = Contexts(Len(heap))
    BY DEF ContextType, Contexts, Refs
<1>3. \A g \in DOMAIN delivered : Len(delivered[g]) <= Shots
    BY <1>1 DEF CountInv, IsSequence
<1>4. TypeOK
    BY <1>1, <1>2, <1>3 DEF TypeOK, Inv, CallInv, CursorInv, CountInv, HeapInv
<1>5. ASSUME NEW state, Unmeasured(state) PROVE Measured(state) = {}
  <2>. SUFFICES ASSUME NEW s \in Subsystems, NEW k \in DOMAIN state[s],
                       state[s][k].kind = "measure"
                PROVE  FALSE
      BY DEF Measured
  <2>1. NoMeasurement(state[s])
      BY <1>5 DEF Unmeasured
  <2>2. k \in 1..Len(state[s])
      BY <2>1 DEF NoMeasurement, IsSequence
  <2>. QED BY <2>1, <2>2 DEF NoMeasurement
<1>6. Drawn \in Nat /\ Shots \in Nat /\ Len(delivered) = Len(Requests)
      /\ group \in 1..Len(Requests)
    BY <1>1, EngineAssumption DEF CountInv, Drawn, IsSequence
<1>7. ASSUME pc \in {"sample", "measure"}, Drawn + 1 < Shots \/ group < Len(delivered)
      PROVE  IF strategy = "batch"
               THEN \A n \in (Drawn + 2)..Shots : Measured(heap[n]) = {}
               ELSE Measured(heap[source.state]) = {}
  <2>1. CASE strategy = "batch"
    <3>1. \A n \in 1..Shots : Measured(heap[n]) = {}
        BY <1>1, <1>5, <1>7, <2>1 DEF SourceInv
    <3>2. \A n \in (Drawn + 2)..Shots : n \in 1..Shots
        BY <1>6
    <3>. QED BY <2>1, <3>1, <3>2
  <2>2. CASE strategy = "groups"
    <3>1. Unmeasured(heap[source.state])
        BY <1>1, <1>7, <2>2 DEF SourceInv
    <3>. QED BY <1>5, <2>2, <3>1
  <2>3. CASE strategy = "fast"
    <3>1. Len(Requests) = 1
        BY <1>1, <2>3, RequestCount DEF CallInv
    <3>2. Shots > 1
        BY <1>6, <1>7, <3>1
    <3>3. Unmeasured(heap[source.state])
        BY <1>1, <1>7, <2>3, <3>2 DEF SourceInv
    <3>. QED BY <1>5, <2>3, <3>3
  <2>. QED BY <1>1, <1>7, <2>1, <2>2, <2>3 DEF CallInv
<1>. QED BY <1>4, <1>7 DEF SourceStaysUnmeasured
----------------------------------------------------------------------------
(* The theorem.                                                            *)

\* The engine's steps keep the first invariant.
LEMMA NextInv == Inv /\ [Next]_vars => Inv'
<1>. SUFFICES ASSUME Inv, [Next]_vars PROVE Inv'
    OBVIOUS
<1>1. /\ pc' \in {"choose", "traverse", "batch", "sample", "measure", "returned"}
      /\ strategy' \in {"none", "per_shot", "fast", "groups", "batch"}
    BY DEF Inv, Next, ChooseStrategy, TakePulse, CrossBoundary, EndShot, EndEvolution,
           RunTrajectoryBatch, StartSample, MeasureTerminal, FinishSample, vars
<1>2. CallInv'
    BY NextCall DEF Inv
<1>3. CursorInv'
    BY NextCursor DEF Inv
<1>4. CountInv'
    BY NextCount DEF Inv
<1>5. ObjectInv'
    BY NextObjects DEF Inv, ObjectInv
<1>. QED BY <1>1, <1>2, <1>3, <1>4, <1>5 DEF Inv, ObjectInv

\* Whatever the runner does to its state objects, whatever the entry point, the
\* plan, the groups and the number of shots: contexts are well formed and the
\* object a later sample is drawn from has not been measured
\* (engine.py:396-451).
THEOREM SourceIsNeverMeasured == Spec => []SourceStaysUnmeasured
    BY InitInv, NextInv, InvImplies, PTL DEF Spec
----------------------------------------------------------------------------
(* Deferring measurements past operations that touch nothing measured.     *)

\* A history of one subsystem after an event.
Grows(h, event, s) == IF s \in event.on THEN Append(h, event) ELSE h

LEMMA StepGrows ==
    ASSUME NEW state, NEW operations, NEW noise, NEW i, NEW s \in Subsystems
    PROVE  Step(state, operations, noise, i)[s] = Grows(Grows(state[s], operations[i], s), noise[i], s)
<1>1. Touch(state, operations[i])[s] = Grows(state[s], operations[i], s)
    BY TouchAt DEF Grows
<1>2. Touch(Touch(state, operations[i]), noise[i])[s]
        = Grows(Touch(state, operations[i])[s], noise[i], s)
    BY TouchAt DEF Grows
<1>. QED BY <1>1, <1>2 DEF Step

\* Operations in source order, the same without the measurements M, and the
\* measurements alone: how the three sequences agree at step i.
Splits(all, others, measures, noise, quiet, M, i) ==
    /\ quiet[i].on = {}
    /\ i \in M => others[i].on = {} /\ noise[i].on = {} /\ measures[i] = all[i]
    /\ i \notin M => others[i] = all[i] /\ measures[i].on = {}

\* Nothing touches at step i what was measured at step m.
Apart(all, noise, m, i) ==
    noise[i].on = {} /\ \A s \in all[m].on : s \notin all[i].on

\* A subsystem was measured by step i.
MeasuredBy(all, M, s, i) == \E m \in M : m <= i /\ s \in all[m].on

LEMMA MeasuredStays ==
    ASSUME NEW n \in Nat, NEW M \in SUBSET (1..n), NEW all, NEW s, NEW i \in 0..n, NEW j \in i..n,
           MeasuredBy(all, M, s, i)
    PROVE  MeasuredBy(all, M, s, j)
<1>1. PICK m \in M : m <= i /\ s \in all[m].on
    BY DEF MeasuredBy
<1>2. m <= j
    BY <1>1
<1>. QED BY <1>1, <1>2 DEF MeasuredBy

\* The measurements can be left to the end.
Defers(all, others, measures, noise, quiet, M, n) ==
    /\ n \in Nat /\ M \in SUBSET (1..n)
    /\ Len(all) = n /\ Len(others) = n /\ Len(measures) = n
    /\ \A i \in 1..n : Splits(all, others, measures, noise, quiet, M, i)
    /\ \A m \in M : \A i \in 1..n : m < i /\ i \notin M => Apart(all, noise, m, i)

LEMMA Deferral ==
    ASSUME NEW all, NEW others, NEW measures, NEW noise, NEW quiet, NEW M, NEW n, NEW start,
           Defers(all, others, measures, noise, quiet, M, n), IsState(start)
    PROVE  After(After(start, others, noise, n), measures, quiet, n) = After(start, all, noise, n)
<1>. DEFINE E(i) == After(start, all, noise, i)
            D(i) == After(start, others, noise, i)
            S(i) == After(D(n), measures, quiet, i)
            Known(s, i) == MeasuredBy(all, M, s, i)
<1>0. /\ n \in Nat /\ M \in SUBSET (1..n)
      /\ Len(all) = n /\ Len(others) = n /\ Len(measures) = n
      /\ \A i \in 1..n : Splits(all, others, measures, noise, quiet, M, i)
      /\ \A m \in M : \A i \in 1..n : m < i /\ i \notin M => Apart(all, noise, m, i)
    BY DEF Defers
<1>. USE <1>0
<1>1. IsState(D(n)) /\ IsState(S(n)) /\ IsState(E(n))
    BY AfterIsState
<1>2. E(0) = start /\ D(0) = start /\ S(0) = D(n)
    BY AfterStart
<1>3. ASSUME NEW i \in 0..n, i < n
      PROVE  /\ E(i + 1) = Step(E(i), all, noise, i + 1)
             /\ D(i + 1) = Step(D(i), others, noise, i + 1)
             /\ S(i + 1) = Step(S(i), measures, quiet, i + 1)
             /\ i + 1 \in 1..n
  <2>1. E(i + 1) = Step(E(i), all, noise, i + 1)
      BY <1>3, AfterNext
  <2>2. D(i + 1) = Step(D(i), others, noise, i + 1)
      BY <1>3, AfterNext
  <2>3. S(i + 1) = Step(S(i), measures, quiet, i + 1)
      BY <1>3, AfterNext
  <2>. QED BY <1>3, <2>1, <2>2, <2>3
<1>. HIDE DEF E, D, S, Known
<1>4. ASSUME NEW s \in Subsystems, NEW i \in 0..n, i < n
      PROVE  /\ E(i + 1)[s] = Grows(Grows(E(i)[s], all[i + 1], s), noise[i + 1], s)
             /\ D(i + 1)[s] = Grows(Grows(D(i)[s], others[i + 1], s), noise[i + 1], s)
             /\ S(i + 1)[s] = Grows(Grows(S(i)[s], measures[i + 1], s), quiet[i + 1], s)
    BY <1>3, <1>4, StepGrows
<1>5. ASSUME NEW s \in Subsystems, NEW i \in 0..n, i < n
      PROVE  Splits(all, others, measures, noise, quiet, M, i + 1)
    BY <1>5, <1>3
<1>6. ASSUME NEW s \in Subsystems, NEW i \in 0..n, i < n, Known(s, i), i + 1 \notin M
      PROVE  noise[i + 1].on = {} /\ s \notin all[i + 1].on
  <2>1. PICK m \in M : m <= i /\ s \in all[m].on
      BY <1>6 DEF Known, MeasuredBy
  <2>2. m < i + 1 /\ i + 1 \in 1..n
      BY <1>3, <1>6, <2>1
  <2>3. Apart(all, noise, m, i + 1)
      BY <1>6, <2>2
  <2>. QED BY <2>1, <2>3 DEF Apart

\* What was measured stays as it is while measurements are left out.
<1>7. ASSUME NEW s \in Subsystems, NEW i \in 0..n, Known(s, i)
      PROVE  D(n)[s] = D(i)[s]
  <2>. DEFINE good == {k \in 0..n : k >= i => D(k)[s] = D(i)[s]}
  <2>1. 0 \in good
      BY <1>7
  <2>2. ASSUME NEW k \in 0..n, k < n, k \in good PROVE k + 1 \in good
    <3>1. CASE k >= i
      <4>1. Known(s, k)
          BY <1>7, <2>2, <3>1 DEF Known, MeasuredBy
      <4>2. D(k + 1)[s] = Grows(Grows(D(k)[s], others[k + 1], s), noise[k + 1], s)
          BY <1>4, <2>2
      <4>3. noise[k + 1].on = {} /\ s \notin others[k + 1].on
          BY <1>5, <1>6, <2>2, <4>1 DEF Splits
      <4>4. D(k + 1)[s] = D(k)[s]
          BY <4>2, <4>3 DEF Grows
      <4>. QED BY <2>2, <3>1, <4>4
    <3>2. CASE k < i
      <4>1. k + 1 \in 0..n /\ (k + 1 >= i => k + 1 = i)
          BY <2>2, <3>2
      <4>. QED BY <4>1
    <3>. QED BY <2>2, <3>1, <3>2
  <2>3. \A k \in 0..n : k \in good
    <3>. HIDE DEF good
    <3>. QED BY <2>1, <2>2, UpTo
  <2>. QED BY <2>3
<1>8. ASSUME NEW s \in Subsystems
      PROVE  S(n)[s] = E(n)[s]
  <2>. DEFINE good == {k \in 0..n : IF Known(s, k) THEN S(k)[s] = E(k)[s]
                                    ELSE E(k)[s] = D(k)[s] /\ S(k)[s] = D(n)[s]}
  <2>1. 0 \in good
    <3>1. ~ Known(s, 0)
        BY DEF Known, MeasuredBy
    <3>. QED BY <1>2, <3>1
  <2>2. ASSUME NEW k \in 0..n, k < n, k \in good PROVE k + 1 \in good
    <3>1. /\ E(k + 1)[s] = Grows(Grows(E(k)[s], all[k + 1], s), noise[k + 1], s)
          /\ D(k + 1)[s] = Grows(Grows(D(k)[s], others[k + 1], s), noise[k + 1], s)
          /\ S(k + 1)[s] = Grows(Grows(S(k)[s], measures[k + 1], s), quiet[k + 1], s)
        BY <1>4, <2>2
    <3>2. Splits(all, others, measures, noise, quiet, M, k + 1)
        BY <1>5, <2>2
    <3>3. Known(s, k) => Known(s, k + 1)
      <4>1. k + 1 \in k..n
          BY <2>2
      <4>. QED BY <4>1, MeasuredStays DEF Known
    <3>4. CASE Known(s, k)
      <4>1. S(k)[s] = E(k)[s]
          BY <2>2, <3>4
      <4>2. CASE k + 1 \in M
        <5>1. S(k + 1)[s] = E(k + 1)[s]
            BY <3>1, <3>2, <4>1, <4>2 DEF Splits, Grows
        <5>. QED BY <2>2, <3>3, <3>4, <5>1
      <4>3. CASE k + 1 \notin M
        <5>1. noise[k + 1].on = {} /\ s \notin all[k + 1].on
            BY <1>6, <2>2, <3>4, <4>3
        <5>2. S(k + 1)[s] = E(k + 1)[s]
            BY <3>1, <3>2, <4>1, <4>3, <5>1 DEF Splits, Grows
        <5>. QED BY <2>2, <3>3, <3>4, <5>2
      <4>. QED BY <4>2, <4>3
    <3>5. CASE ~ Known(s, k) /\ ~ Known(s, k + 1)
      <4>1. E(k)[s] = D(k)[s] /\ S(k)[s] = D(n)[s]
          BY <2>2, <3>5
      <4>2. k + 1 \in M => s \notin all[k + 1].on
          BY <2>2, <3>5 DEF Known, MeasuredBy
      <4>3. S(k + 1)[s] = D(n)[s]
          BY <3>1, <3>2, <4>1, <4>2 DEF Splits, Grows
      <4>4. E(k + 1)[s] = D(k + 1)[s]
          BY <3>1, <3>2, <4>1, <4>2 DEF Splits, Grows
      <4>. QED BY <2>2, <3>5, <4>3, <4>4
    <3>6. CASE ~ Known(s, k) /\ Known(s, k + 1)
      <4>1. E(k)[s] = D(k)[s] /\ S(k)[s] = D(n)[s]
          BY <2>2, <3>6
      <4>2. k + 1 \in M /\ s \in all[k + 1].on
        <5>1. PICK m \in M : m <= k + 1 /\ s \in all[m].on
            BY <3>6 DEF Known, MeasuredBy
        <5>2. ~ (m <= k)
            BY <3>6, <5>1 DEF Known, MeasuredBy
        <5>3. m = k + 1
            BY <2>2, <5>1, <5>2
        <5>. QED BY <5>1, <5>3
      <4>3. D(k + 1)[s] = D(k)[s]
          BY <3>1, <3>2, <4>2 DEF Splits, Grows
      <4>4. k + 1 \in 0..n
          BY <2>2
      <4>5. D(n)[s] = D(k + 1)[s]
          BY <1>7, <3>6, <4>4
      <4>6. S(k + 1)[s] = E(k + 1)[s]
          BY <3>1, <3>2, <4>1, <4>2, <4>3, <4>5 DEF Splits, Grows
      <4>. QED BY <3>6, <4>4, <4>6
    <3>. QED BY <3>4, <3>5, <3>6
  <2>3. \A k \in 0..n : k \in good
    <3>. HIDE DEF good
    <3>. QED BY <2>1, <2>2, UpTo
  <2>4. IF Known(s, n) THEN S(n)[s] = E(n)[s]
        ELSE E(n)[s] = D(n)[s] /\ S(n)[s] = D(n)[s]
      BY <2>3
  <2>. QED BY <2>4
<1>9. S(n) = E(n)
    BY <1>1, <1>8 DEF IsState, S, E, D
<1>. QED BY <1>9 DEF S, E, D

\* What a run leaves out that samples its measurements later.
Deferred == {"measure"}

\* A run in which every measurement gives 0.
Zero(q) == [m \in Semantics!Measurements(q) |-> 0]

\* The measurements of a plan alone, no time passing between them.
Alone(q, bits) ==
    [i \in 1..Len(q) |->
        IF q[i].kind = "measure" THEN Semantics!Operation(q, bits, i)
                                 ELSE [Semantics!Operation(q, bits, i) EXCEPT !.on = {}]]

Silence(q) == [i \in 1..Len(q) |-> [on |-> {}]]

\* A sample, measured up to step i, of the state evolved without measurements.
Sampled(r, q, bits, i) ==
    After(History(r, q, Zero(q), Deferred, Len(q)), Alone(q, bits), Silence(q), i)

\* Whether step i happens depends on no measurement.
Unconditional(q, i) ==
    q[i].condition = {} \/ \A m \in Semantics!Measurements(q) : ~(m < i)

\* No step depends on a measurement or touches what was measured before.
Deferrable(r, q) ==
    /\ \A i \in 1..Len(q) : Unconditional(q, i)
    /\ \A m \in Semantics!Measurements(q) : \A i \in 1..Len(q) :
          m < i /\ q[i].kind # "measure" => /\ ~(r.background /\ q[i].kind = "pulse")
                                            /\ q[i].targets \cap q[m].targets = {}

LEMMA OperationIs ==
    ASSUME NEW q, NEW bits, NEW i
    PROVE  Semantics!Operation(q, bits, i) =
              [kind |-> q[i].kind, step |-> i,
               from |-> IF q[i].kind = "pulse" THEN Semantics!RegionStart(q, i) ELSE 0,
               bit  |-> IF q[i].kind = "measure" THEN bits[i] ELSE 0,
               on   |-> IF \A term \in q[i].condition : Memory(q, bits, i)[term[1]] = term[2]
                          THEN q[i].targets ELSE {}]
    BY DEF Semantics!Operation, Semantics!Happens, Semantics!IsPulse, Semantics!IsMeasurement, Memory

LEMMA OperationOn ==
    ASSUME NEW q, NEW bits, NEW i
    PROVE  Semantics!Operation(q, bits, i).on \subseteq q[i].targets
    BY OperationIs

\* An operation depends on the results up to it.
LEMMA OperationSame ==
    ASSUME NEW q, NEW bits, NEW other, Len(q) \in Nat, NEW i \in 1..Len(q),
           AgreeBefore(q, bits, other, i), q[i].kind = "measure" => bits[i] = other[i]
    PROVE  Semantics!Operation(q, bits, i) = Semantics!Operation(q, other, i)
<1>1. Memory(q, bits, i) = Memory(q, other, i)
    BY MemorySame
<1>. QED BY <1>1, OperationIs

\* One that depends on no measurement is the same whatever the results are.
LEMMA OperationFixed ==
    ASSUME NEW q, NEW bits, NEW other, Len(q) \in Nat, NEW i \in 1..Len(q),
           q[i].kind # "measure", Unconditional(q, i)
    PROVE  Semantics!Operation(q, bits, i) = Semantics!Operation(q, other, i)
<1>1. CASE q[i].condition = {}
    BY <1>1, OperationIs
<1>2. CASE \A m \in Semantics!Measurements(q) : ~(m < i)
  <2>1. AgreeBefore(q, bits, other, i)
      BY <1>2 DEF AgreeBefore
  <2>. QED BY <2>1, OperationSame
<1>. QED BY <1>1, <1>2 DEF Unconditional

\* Time passes with pulses.
LEMMA NoiseAt ==
    ASSUME NEW r, NEW q, NEW i \in 1..Len(q), q[i].kind # "pulse" \/ ~ r.background
    PROVE  Noise(r, q)[i].on = {}
    BY DEF Noise, Semantics!EndsRegion, Semantics!IsPulse

LEMMA AloneCount ==
    ASSUME NEW q, NEW bits, Len(q) \in Nat
    PROVE  Len(Alone(q, bits)) = Len(q)
<1>. DEFINE o == Alone(q, bits)
<1>1. o = [i \in 1..Len(q) |-> o[i]]
    BY DEF Alone
<1>. HIDE DEF o
<1>2. Len(o) = Len(q)
    BY <1>1, FunctionIsSequence
<1>. QED BY <1>2 DEF o

LEMMA AloneAt ==
    ASSUME NEW q, NEW bits, NEW i \in 1..Len(q)
    PROVE  /\ q[i].kind = "measure" => Alone(q, bits)[i] = Semantics!Operation(q, bits, i)
           /\ q[i].kind # "measure" => Alone(q, bits)[i].on = {}
           /\ Silence(q)[i].on = {}
    BY OperationIs DEF Alone, Silence

LEMMA OperationsAt ==
    ASSUME NEW q, NEW bits, NEW without, NEW i \in 1..Len(q)
    PROVE  IF q[i].kind \in without
             THEN Operations(q, bits, without)[i].on = {}
             ELSE Operations(q, bits, without)[i] = Semantics!Operation(q, bits, i)
    BY OperationIs DEF Operations

\* Measuring at the end is measuring in source order.
LEMMA SampleIsHistory ==
    ASSUME NEW r, NEW q, NEW bits, Len(q) \in Nat, Deferrable(r, q)
    PROVE  Sampled(r, q, bits, Len(q)) = History(r, q, bits, {}, Len(q))
<1>. DEFINE n == Len(q)
            M == Semantics!Measurements(q)
            all == Operations(q, bits, {})
            others == Operations(q, Zero(q), Deferred)
            measures == Alone(q, bits)
            noise == Noise(r, q)
            quiet == Silence(q)
<1>1. M \in SUBSET (1..n) /\ \A i \in 1..n : i \in M <=> q[i].kind = "measure"
    BY DEF Semantics!Measurements, Semantics!IsMeasurement
<1>2. ASSUME NEW i \in 1..n PROVE Splits(all, others, measures, noise, quiet, M, i)
  <2>1. quiet[i].on = {}
      BY AloneAt
  <2>2. all[i] = Semantics!Operation(q, bits, i)
      BY OperationsAt
  <2>3. CASE i \in M
    <3>1. others[i].on = {}
        BY <1>1, <2>3, OperationsAt DEF Deferred
    <3>2. noise[i].on = {}
        BY <1>1, <2>3, NoiseAt
    <3>3. measures[i] = all[i]
        BY <1>1, <2>2, <2>3, AloneAt
    <3>. HIDE DEF M, all, others, measures, noise, quiet
    <3>. QED BY <2>1, <2>3, <3>1, <3>2, <3>3 DEF Splits
  <2>4. CASE i \notin M
    <3>1. others[i] = Semantics!Operation(q, Zero(q), i)
        BY <1>1, <2>4, OperationsAt DEF Deferred
    <3>2. others[i] = all[i]
        BY <1>1, <2>2, <2>4, <3>1, OperationFixed DEF Deferrable
    <3>3. measures[i].on = {}
        BY <1>1, <2>4, AloneAt
    <3>. HIDE DEF M, all, others, measures, noise, quiet
    <3>. QED BY <2>1, <2>4, <3>2, <3>3 DEF Splits
  <2>. QED BY <2>3, <2>4
<1>3. ASSUME NEW m \in M, NEW i \in 1..n, m < i, i \notin M PROVE Apart(all, noise, m, i)
  <2>1. /\ ~(r.background /\ q[i].kind = "pulse") /\ q[i].targets \cap q[m].targets = {}
        /\ m \in 1..n
      BY <1>1, <1>3 DEF Deferrable
  <2>2. noise[i].on = {}
      BY <2>1, NoiseAt
  <2>3. all[i] = Semantics!Operation(q, bits, i) /\ all[m] = Semantics!Operation(q, bits, m)
      BY <2>1, OperationsAt
  <2>4. all[m].on \subseteq q[m].targets /\ all[i].on \subseteq q[i].targets
      BY <2>3, OperationOn
  <2>5. \A s \in all[m].on : s \notin all[i].on
      BY <2>1, <2>4
  <2>. HIDE DEF M, all, noise
  <2>. QED BY <2>2, <2>5 DEF Apart
<1>4. Len(all) = n /\ Len(others) = n /\ Len(measures) = n
    BY OperationCount, AloneCount
<1>5. n \in Nat
    OBVIOUS
<1>. HIDE DEF n, M, all, others, measures, noise, quiet
<1>6. Defers(all, others, measures, noise, quiet, M, n)
    BY <1>1, <1>2, <1>3, <1>4, <1>5 DEF Defers
<1>7. After(After(Blank, others, noise, n), measures, quiet, n) = After(Blank, all, noise, n)
    BY <1>6, BlankIsState, Deferral
<1>. QED BY <1>7 DEF Sampled, History, n, all, others, measures, noise, quiet
----------------------------------------------------------------------------
(* A traversal is a source-order run.                                      *)

LEMMA HappensIs ==
    ASSUME NEW q, NEW bits, NEW i
    PROVE  Semantics!Happens(q, bits, i) <=> Matches(q[i].condition, Memory(q, bits, i))
    BY DEF Semantics!Happens, Matches, Memory

\* A region ends with its last pulse.
LEMMA EndsRegionIs ==
    ASSUME NEW q, NEW base, NEW top, RegionOf(q, base, top), Len(q) \in Nat,
           top = Len(q) \/ q[top + 1].kind # "pulse", NEW i \in (base + 1)..top
    PROVE  Semantics!EndsRegion(q, i) <=> i = top
<1>1. base \in Nat /\ top \in Nat /\ top <= Len(q) /\ i \in Nat /\ q[i].kind = "pulse"
    BY DEF RegionOf
<1>2. CASE i = top
    BY <1>1, <1>2 DEF Semantics!EndsRegion, Semantics!IsPulse
<1>3. CASE i # top
  <2>1. i + 1 \in (base + 1)..top /\ i # Len(q)
      BY <1>1, <1>3
  <2>2. q[i + 1].kind = "pulse"
      BY <2>1 DEF RegionOf
  <2>. QED BY <1>3, <2>1, <2>2 DEF Semantics!EndsRegion, Semantics!IsPulse
<1>. QED BY <1>2, <1>3

\* The blocks of a region that are enabled when it is flushed.
LEMMA RegionEnabled ==
    ASSUME plan \in Plans, NEW bits, NEW base, NEW top, RegionOf(plan, base, top),
           NEW i \in (base + 1)..top
    PROVE  Semantics!Happens(plan, bits, i)
             <=> i \in Enabled((base + 1)..top, Memory(plan, bits, base + 1))
<1>1. /\ Len(plan) \in Nat /\ base + 1 \in Nat /\ i \in Nat /\ base + 1 <= i
      /\ \A k \in 1..Len(plan) : base + 1 <= k /\ k < i => plan[k].kind # "measure"
    BY PlanLength DEF RegionOf
<1>2. Memory(plan, bits, i) = Memory(plan, bits, base + 1)
    BY <1>1, MemoryStays
<1>. DEFINE region == (base + 1)..top
            memory == Memory(plan, bits, base + 1)
<1>3. Semantics!Happens(plan, bits, i) <=> Matches(plan[i].condition, memory)
    BY <1>2, HappensIs
<1>4. i \in region
    OBVIOUS
<1>. HIDE DEF region, memory
<1>5. Semantics!Happens(plan, bits, i) <=> i \in Enabled(region, memory)
    BY <1>3, <1>4 DEF Enabled
<1>. QED BY <1>5 DEF region, memory

\* What evolve makes of a whole region is what its pulses do in source order.
LEMMA RegionEvolves ==
    ASSUME plan \in Plans, NEW bits, NEW without, "pulse" \notin without,
           NEW base, NEW top, RegionOf(plan, base, top), base < top,
           top = Len(plan) \/ plan[top + 1].kind # "pulse"
    PROVE  Evolve(History(runner, plan, bits, without, base), (base + 1)..top, Clock(plan, base),
                  Enabled((base + 1)..top, Memory(plan, bits, base + 1)))
             = History(runner, plan, bits, without, top)
<1>. DEFINE n == Len(plan)
            region == (base + 1)..top
            boundary == Clock(plan, base)
            memory == Memory(plan, bits, base + 1)
            enabled == Enabled(region, memory)
            start == History(runner, plan, bits, without, base)
            pulses == [i \in Indices |-> Pulse(i, boundary, i \in region \cap enabled)]
            noise  == [i \in Indices |-> Idle(i, boundary, i = Semantics!Latest(region))]
            operations == Operations(plan, bits, without)
            elapse == Noise(runner, plan)
            H(i) == After(Blank, operations, elapse, i)
            D(i) == After(start, pulses, noise, i)
<1>1. n \in Nat /\ base \in 0..n /\ top \in base..n /\ base \in Nat /\ top \in Nat /\ top <= n
    BY PlanLength DEF RegionOf
<1>2. Semantics!Latest(region) = top
    BY <1>1, ClockAfterRegion
<1>3. Len(pulses) = n /\ Len(operations) = n
  <2>1. pulses = [i \in 1..n |-> pulses[i]]
      BY DEF Indices
  <2>2. Len(operations) = n
      BY <1>1, OperationCount
  <2>. HIDE DEF pulses, n, operations
  <2>. QED BY <1>1, <2>1, <2>2, FunctionIsSequence
<1>4. IsState(start)
    BY <1>1, HistoryIsState
<1>5. ASSUME NEW i \in 1..n, i \notin region PROVE Silent(pulses, noise, i)
  <2>1. i # top
      BY <1>1, <1>5
  <2>2. i \in Indices /\ i \notin region \cap enabled /\ i # Semantics!Latest(region)
      BY <1>2, <1>5, <2>1 DEF Indices
  <2>3. pulses[i].on = {} /\ noise[i].on = {}
    <3>. HIDE DEF region, boundary, enabled
    <3>. QED BY <2>2 DEF Pulse, Idle
  <2>. HIDE DEF pulses, noise
  <2>. QED BY <2>3 DEF Silent
<1>6. ASSUME NEW i \in region PROVE SameAt(pulses, noise, operations, elapse, i)
  <2>1. /\ i \in Nat /\ i \in 1..n /\ base + 1 <= i /\ i <= top /\ base + 1 \in Nat
        /\ plan[i].kind = "pulse"
      BY <1>1, <1>6 DEF RegionOf
  <2>2. Semantics!RegionStart(plan, i) = boundary
      BY <1>1, <1>6, RegionBegins
  <2>4. i \in region \cap enabled <=> Semantics!Happens(plan, bits, i)
      BY <1>6, RegionEnabled
  <2>5. pulses[i] = [kind |-> "pulse", step |-> i, from |-> boundary, bit |-> 0,
                     on |-> IF Semantics!Happens(plan, bits, i) THEN plan[i].targets ELSE {}]
    <3>. HIDE DEF region, boundary, enabled
    <3>. QED BY <2>1, <2>4 DEF Indices, Pulse
  <2>6. operations[i] = Semantics!Operation(plan, bits, i)
      BY <2>1, OperationsAt
  <2>7. pulses[i] = operations[i]
    <3>. HIDE DEF pulses, operations, boundary
    <3>. QED BY <2>1, <2>2, <2>5, <2>6 DEF Semantics!Operation, Semantics!IsPulse,
             Semantics!IsMeasurement
  <2>8. Semantics!EndsRegion(plan, i) <=> i = top
      BY <1>1, <1>6, EndsRegionIs
  <2>9. noise[i] = [kind |-> "idle", step |-> i, from |-> boundary, bit |-> 0,
                    on |-> IF runner.background /\ i = top THEN Subsystems ELSE {}]
    <3>. HIDE DEF region, boundary
    <3>. QED BY <1>2, <2>1 DEF Indices, Idle
  <2>10. noise[i] = elapse[i]
    <3>. HIDE DEF noise, boundary
    <3>. QED BY <2>1, <2>2, <2>8, <2>9 DEF Noise
  <2>. HIDE DEF pulses, noise, operations, elapse
  <2>. QED BY <2>7, <2>10 DEF SameAt
<1>. HIDE DEF n, start, pulses, noise, operations, elapse
<1>7. D(base) = start /\ D(n) = D(top)
  <2>1. D(0) = start
      BY <1>1, <1>3, AfterStart
  <2>2. D(base) = D(0)
    <3>1. \A i \in (0 + 1)..base : Silent(pulses, noise, i)
        BY <1>1, <1>5
    <3>2. 0 \in 0..n /\ base \in 0..n
        BY <1>1
    <3>. QED BY <1>1, <1>3, <1>4, <3>1, <3>2, AfterSilence
  <2>3. D(n) = D(top)
    <3>1. \A i \in (top + 1)..n : Silent(pulses, noise, i)
        BY <1>1, <1>5
    <3>2. top \in 0..n /\ n \in top..n
        BY <1>1
    <3>. QED BY <1>1, <1>3, <1>4, <3>1, <3>2, AfterSilence
  <2>. QED BY <2>1, <2>2, <2>3
<1>8. D(top) = H(top)
  <2>. DEFINE good == {i \in 0..top : i >= base => D(i) = H(i)}
  <2>1. D(base) = H(base)
      BY <1>7 DEF start, History, operations, elapse
  <2>. HIDE DEF D, H
  <2>2. 0 \in good
      BY <1>1, <2>1
  <2>3. ASSUME NEW i \in 0..top, i < top, i \in good PROVE i + 1 \in good
    <3>1. CASE i >= base
      <4>1. i \in 0..n /\ i < n /\ i + 1 \in region /\ i + 1 \in 0..top
          BY <1>1, <2>3, <3>1
      <4>2. D(i + 1) = Step(D(i), pulses, noise, i + 1)
          BY <1>1, <1>3, <4>1, AfterNext DEF D
      <4>3. H(i + 1) = Step(H(i), operations, elapse, i + 1)
          BY <1>1, <1>3, <4>1, AfterNext DEF H
      <4>4. Step(D(i), pulses, noise, i + 1) = Step(D(i), operations, elapse, i + 1)
          BY <1>6, <4>1, StepSame
      <4>. QED BY <2>3, <3>1, <4>1, <4>2, <4>3, <4>4
    <3>2. CASE i < base
      <4>1. i + 1 \in 0..top /\ (i + 1 >= base => i + 1 = base)
          BY <1>1, <2>3, <3>2
      <4>. QED BY <2>1, <4>1
    <3>. QED BY <1>1, <2>3, <3>1, <3>2
  <2>4. \A i \in 0..top : i \in good
    <3>. HIDE DEF good
    <3>. QED BY <1>1, <2>2, <2>3, UpTo
  <2>. QED BY <1>1, <2>4
<1>9. Evolve(start, region, boundary, enabled) = D(n)
    BY DEF Evolve, After, pulses, noise, n
<1>. QED BY <1>7, <1>8, <1>9 DEF History, operations, elapse, start

\* The virtual frames of a source-order run.
Frames(r, q, bits, i) ==
    IF r.frames THEN {j \in 1..i : q[j].kind = "pulse" /\ Semantics!Happens(q, bits, j)} ELSE {}

\* The context of a shot, and its state, after the first i steps of a plan.
Progress(r, q, without, bits, i, state, c) ==
    /\ state = History(r, q, bits, without, i)
    /\ c.memory = Memory(q, bits, i + 1)
    /\ c.frame = Frames(r, q, bits, i)
    /\ c.time = Clock(q, i)

LEMMA FramesOfRegion ==
    ASSUME plan \in Plans, NEW bits, NEW base, NEW top, RegionOf(plan, base, top)
    PROVE  Frames(runner, plan, bits, top) =
              IF runner.frames
                THEN Frames(runner, plan, bits, base)
                       \cup Enabled((base + 1)..top, Memory(plan, bits, base + 1))
                ELSE Frames(runner, plan, bits, base)
<1>. DEFINE enabled == Enabled((base + 1)..top, Memory(plan, bits, base + 1))
<1>1. /\ base \in Nat /\ top \in Nat /\ base <= top
      /\ \A j \in (base + 1)..top : plan[j].kind = "pulse"
    BY PlanLength DEF RegionOf
<1>2. \A j \in (base + 1)..top : Semantics!Happens(plan, bits, j) <=> j \in enabled
    BY RegionEnabled
<1>3. \A j \in enabled : j \in (base + 1)..top
    BY DEF Enabled
<1>4. \A j : j \in 1..top <=> j \in 1..base \/ j \in (base + 1)..top
    BY <1>1
<1>. HIDE DEF enabled
<1>5. {j \in 1..top : plan[j].kind = "pulse" /\ Semantics!Happens(plan, bits, j)}
        = {j \in 1..base : plan[j].kind = "pulse" /\ Semantics!Happens(plan, bits, j)} \cup enabled
    BY <1>1, <1>2, <1>3, <1>4
<1>. QED BY <1>5 DEF Frames, enabled

\* flush brings a shot to the end of the open region.
LEMMA FlushProgress ==
    ASSUME plan \in Plans, NEW h, IsSequence(h), NEW c \in Contexts(Len(h)), NEW bits,
           NEW without, "pulse" \notin without,
           NEW base, NEW top, RegionOf(plan, base, top), pending = (base + 1)..top,
           top = Len(plan) \/ plan[top + 1].kind # "pulse",
           Progress(runner, plan, without, bits, base, h[c.state], c)
    PROVE  Progress(runner, plan, without, bits, top,
                    Flush(h, c).heap[Flush(h, c).context.state], Flush(h, c).context)
<1>1. /\ base \in Nat /\ top \in Nat /\ base <= top /\ top <= Len(plan) /\ Len(plan) \in Nat
      /\ c.state \in 1..Len(h)
    BY PlanLength DEF RegionOf, Contexts
<1>2. CASE base = top
  <2>1. pending = {}
      BY <1>1, <1>2
  <2>. QED BY <1>2, <2>1 DEF Flush
<1>3. CASE base < top
  <2>. DEFINE enabled == Enabled(pending, c.memory)
              state == Evolve(h[c.state], pending, c.time, enabled)
              new == Update(h, c.state, state)
              d == [c EXCEPT !.state = new.ref,
                             !.frame = IF runner.frames THEN @ \cup enabled ELSE @,
                             !.time = Semantics!Latest(pending)]
  <2>1. pending # {}
    <3>1. base + 1 \in (base + 1)..top
        BY <1>1, <1>3
    <3>. HIDE DEF enabled, state, new, d
    <3>. QED BY <3>1
  <2>2. Flush(h, c) = [heap |-> new.heap, context |-> d]
      BY <2>1 DEF Flush
  <2>3. new.heap[new.ref] = state
      BY <1>1, UpdateKeeps
  <2>4. /\ h[c.state] = History(runner, plan, bits, without, base)
        /\ c.memory = Memory(plan, bits, base + 1)
        /\ c.frame = Frames(runner, plan, bits, base) /\ c.time = Clock(plan, base)
      BY DEF Progress
  <2>5. state = History(runner, plan, bits, without, top)
      BY <1>3, <2>4, RegionEvolves
  <2>6. Semantics!Latest(pending) = Clock(plan, top)
      BY <1>1, <1>3, ClockAfterRegion
  <2>7. Frames(runner, plan, bits, top) = IF runner.frames THEN c.frame \cup enabled ELSE c.frame
      BY <2>4, FramesOfRegion
  <2>8. Memory(plan, bits, top + 1) = c.memory
    <3>1. /\ base + 1 \in Nat /\ top + 1 \in Nat /\ base + 1 <= top + 1
          /\ \A k \in 1..Len(plan) : base + 1 <= k /\ k < top + 1 => plan[k].kind # "measure"
        BY <1>1 DEF RegionOf
    <3>. QED BY <1>1, <2>4, <3>1, MemoryStays
  <2>. HIDE DEF new, enabled, state
  <2>9. /\ d.state = new.ref /\ d.memory = c.memory
        /\ d.frame = IF runner.frames THEN c.frame \cup enabled ELSE c.frame
        /\ d.time = Semantics!Latest(pending)
      BY DEF Contexts
  <2>. HIDE DEF d
  <2>. QED BY <2>2, <2>3, <2>5, <2>6, <2>7, <2>8, <2>9 DEF Progress
<1>. QED BY <1>1, <1>2, <1>3

\* Only the measurements before a step matter to it.
LEMMA AgreeEarlier ==
    ASSUME NEW q, NEW bits, NEW other, Len(q) \in Nat, NEW i \in Nat, NEW j \in Nat, j <= i,
           AgreeBefore(q, bits, other, i)
    PROVE  AgreeBefore(q, bits, other, j)
<1>1. \A m \in Semantics!Measurements(q) : m \in Nat
    BY DEF Semantics!Measurements
<1>. QED BY <1>1 DEF AgreeBefore

LEMMA HappensSame ==
    ASSUME NEW q, NEW bits, NEW other, Len(q) \in Nat, NEW i \in Nat, AgreeBefore(q, bits, other, i)
    PROVE  Semantics!Happens(q, bits, i) <=> Semantics!Happens(q, other, i)
<1>1. Memory(q, bits, i) = Memory(q, other, i)
    BY MemorySame
<1>. QED BY <1>1, HappensIs

LEMMA OperationsSame ==
    ASSUME NEW q, NEW bits, NEW other, NEW without, Len(q) \in Nat, NEW i \in 1..Len(q),
           AgreeBefore(q, bits, other, i + 1)
    PROVE  Operations(q, bits, without)[i] = Operations(q, other, without)[i]
<1>1. AgreeBefore(q, bits, other, i)
    BY AgreeEarlier
<1>2. q[i].kind = "measure" => bits[i] = other[i]
    BY DEF AgreeBefore, Semantics!Measurements, Semantics!IsMeasurement
<1>3. Semantics!Operation(q, bits, i) = Semantics!Operation(q, other, i)
    BY <1>1, <1>2, OperationSame
<1>. QED BY <1>3 DEF Operations

LEMMA HistorySame ==
    ASSUME NEW r, NEW q, NEW bits, NEW other, NEW without, Len(q) \in Nat, NEW i \in 0..Len(q),
           AgreeBefore(q, bits, other, i + 1)
    PROVE  History(r, q, bits, without, i) = History(r, q, other, without, i)
<1>. DEFINE all == Operations(q, bits, without)
            others == Operations(q, other, without)
            noise == Noise(r, q)
<1>1. ASSUME NEW j \in 1..i PROVE SameAt(all, noise, others, noise, j)
  <2>1. j \in 1..Len(q) /\ j + 1 \in Nat /\ i + 1 \in Nat /\ j + 1 <= i + 1
      BY <1>1
  <2>2. AgreeBefore(q, bits, other, j + 1)
      BY <2>1, AgreeEarlier
  <2>3. all[j] = others[j]
      BY <2>1, <2>2, OperationsSame
  <2>. HIDE DEF all, others, noise
  <2>. QED BY <2>3 DEF SameAt
<1>2. Len(all) = Len(q) /\ Len(others) = Len(q) /\ i \in Nat /\ i <= Len(q)
    BY OperationCount
<1>. HIDE DEF all, others, noise
<1>3. After(Blank, all, noise, i) = After(Blank, others, noise, i)
    BY <1>1, <1>2, AfterSame
<1>. QED BY <1>3 DEF History, all, others, noise

LEMMA FramesSame ==
    ASSUME NEW r, NEW q, NEW bits, NEW other, Len(q) \in Nat, NEW i \in Nat,
           AgreeBefore(q, bits, other, i + 1)
    PROVE  Frames(r, q, bits, i) = Frames(r, q, other, i)
<1>1. ASSUME NEW j \in 1..i
      PROVE  Semantics!Happens(q, bits, j) <=> Semantics!Happens(q, other, j)
  <2>1. j \in Nat /\ i + 1 \in Nat /\ j <= i + 1
      BY <1>1
  <2>2. AgreeBefore(q, bits, other, j)
      BY <2>1, AgreeEarlier
  <2>. QED BY <2>1, <2>2, HappensSame
<1>. QED BY <1>1 DEF Frames

\* A step that is no pulse adds its operation to a history, and no noise.
LEMMA HistoryAtBoundary ==
    ASSUME NEW r, NEW q, NEW bits, NEW without, Len(q) \in Nat, NEW i \in 1..Len(q),
           q[i].kind # "pulse"
    PROVE  History(r, q, bits, without, i)
             = Touch(History(r, q, bits, without, i - 1), Operations(q, bits, without)[i])
<1>. DEFINE all == Operations(q, bits, without)
            noise == Noise(r, q)
            past == After(Blank, all, noise, i - 1)
<1>1. After(Blank, all, noise, i) = Step(past, all, noise, i)
  <2>1. Len(all) = Len(q) /\ i \in 1..Len(all) /\ Len(all) \in Nat
      BY OperationCount
  <2>. HIDE DEF all, noise
  <2>. QED BY <2>1, AfterUnfolds
<1>2. noise[i].on = {}
    BY NoiseAt
<1>. HIDE DEF all, noise, past
<1>3. Step(past, all, noise, i) = Touch(past, all[i])
    BY <1>2, TouchIsState, TouchNothing DEF Step
<1>. QED BY <1>1, <1>3 DEF History, all, noise, past

LEMMA FramesAtBoundary ==
    ASSUME NEW r, NEW q, NEW bits, NEW i \in Nat \ {0}, q[i].kind # "pulse"
    PROVE  Frames(r, q, bits, i) = Frames(r, q, bits, i - 1)
<1>1. {j \in 1..i : q[j].kind = "pulse" /\ Semantics!Happens(q, bits, j)}
        = {j \in 1..(i - 1) : q[j].kind = "pulse" /\ Semantics!Happens(q, bits, j)}
    OBVIOUS
<1>. QED BY <1>1 DEF Frames

\* The event of a boundary.
Crossing(step, i, memory, bit) ==
    [kind |-> step.kind, step |-> i, from |-> 0, bit |-> bit,
     on |-> IF step.kind = "measure" \/ Matches(step.condition, memory) THEN step.targets ELSE {}]

LEMMA CrossingIs ==
    ASSUME NEW q, NEW bits, NEW i, NEW bit, q[i].kind # "pulse",
           q[i].kind = "measure" => q[i].condition = {} /\ bits[i] = bit,
           q[i].kind # "measure" => bit = 0
    PROVE  Crossing(q[i], i, Memory(q, bits, i), bit) = Semantics!Operation(q, bits, i)
    BY OperationIs DEF Crossing, Matches

\* What execute_boundary does to the state and the classical memory of a context.
Crossed(done, state, c, step, i, bit) ==
    /\ done.heap[done.context.state] = Touch(state, Crossing(step, i, c.memory, bit))
    /\ done.context.memory = IF step.kind = "measure" THEN Written(c.memory, step.clbit, bit)
                                                     ELSE c.memory
    /\ done.context.frame = c.frame /\ done.context.time = c.time

LEMMA BoundaryCrosses ==
    ASSUME NEW h, IsSequence(h), NEW c \in Contexts(Len(h)), NEW i, NEW bit
    PROVE  Crossed(Boundary(h, c, i, bit), h[c.state], c, StepAt(i), i, bit)
<1>. DEFINE step == StepAt(i)
            on == IF IsMeasurement(step) \/ Matches(step.condition, c.memory)
                    THEN step.targets ELSE {}
            event == [kind |-> step.kind, step |-> i, from |-> 0, bit |-> bit, on |-> on]
            state == Touch(h[c.state], event)
            new == Update(h, c.state, state)
            d == [c EXCEPT !.state = new.ref,
                           !.memory = IF IsMeasurement(step) THEN [@ EXCEPT ![step.clbit] = bit]
                                                             ELSE @]
<1>1. Boundary(h, c, i, bit) = [heap |-> new.heap, context |-> d]
    BY DEF Boundary
<1>2. new.heap[new.ref] = state
    BY UpdateKeeps DEF Contexts
<1>3. event = Crossing(step, i, c.memory, bit)
    BY DEF Crossing, IsMeasurement, Semantics!IsMeasurement
<1>4. IsMeasurement(step) <=> step.kind = "measure"
    BY DEF IsMeasurement, Semantics!IsMeasurement
<1>. HIDE DEF event, new, step
<1>5. /\ d.state = new.ref /\ d.frame = c.frame /\ d.time = c.time
      /\ d.memory = IF step.kind = "measure" THEN Written(c.memory, step.clbit, bit) ELSE c.memory
    BY <1>4 DEF Contexts, Written
<1>. HIDE DEF d
<1>6. Crossed([heap |-> new.heap, context |-> d], h[c.state], c, step, i, bit)
    BY <1>2, <1>3, <1>5 DEF Crossed
<1>. QED BY <1>1, <1>6 DEF step

\* Executing a boundary brings a shot past it.
LEMMA BoundaryProgress ==
    ASSUME plan \in Plans, NEW h, IsSequence(h), NEW c \in Contexts(Len(h)),
           NEW bits, NEW other, NEW without, NEW bit, NEW i \in 1..Len(plan),
           plan[i].kind # "pulse", AgreeBefore(plan, bits, other, i),
           plan[i].kind \notin without, plan[i].kind = "measure" => other[i] = bit,
           plan[i].kind # "measure" => bit = 0,
           Progress(runner, plan, without, bits, i - 1, h[c.state], c)
    PROVE  Progress(runner, plan, without, other, i,
                    Boundary(h, c, i, bit).heap[Boundary(h, c, i, bit).context.state],
                    Boundary(h, c, i, bit).context)
<1>. DEFINE done == Boundary(h, c, i, bit)
<1>1. /\ Len(plan) \in Nat /\ i \in Nat /\ i - 1 \in 0..Len(plan) /\ i - 1 + 1 = i /\ i <= Len(plan)
      /\ i - 1 \in Nat /\ i \in Nat \ {0} /\ StepAt(i) = plan[i]
    BY PlanLength DEF StepAt
<1>2. /\ h[c.state] = History(runner, plan, bits, without, i - 1)
      /\ c.memory = Memory(plan, bits, i)
      /\ c.frame = Frames(runner, plan, bits, i - 1) /\ c.time = Clock(plan, i - 1)
    BY <1>1 DEF Progress
<1>3. /\ h[c.state] = History(runner, plan, other, without, i - 1)
      /\ c.memory = Memory(plan, other, i)
      /\ c.frame = Frames(runner, plan, other, i - 1)
  <2>1. AgreeBefore(plan, bits, other, i - 1 + 1)
      BY <1>1
  <2>2. h[c.state] = History(runner, plan, other, without, i - 1)
      BY <1>1, <1>2, <2>1, HistorySame
  <2>3. c.memory = Memory(plan, other, i)
      BY <1>1, <1>2, MemorySame
  <2>4. c.frame = Frames(runner, plan, other, i - 1)
      BY <1>1, <1>2, <2>1, FramesSame
  <2>. QED BY <2>2, <2>3, <2>4
<1>4. plan[i].kind = "measure" => plan[i].condition = {}
    BY PlansAreLowered
<1>5. Crossing(plan[i], i, c.memory, bit) = Operations(plan, other, without)[i]
  <2>1. Crossing(plan[i], i, c.memory, bit) = Semantics!Operation(plan, other, i)
      BY <1>3, <1>4, CrossingIs
  <2>. QED BY <2>1, OperationsAt
<1>. HIDE DEF done
<1>6. Crossed(done, h[c.state], c, plan[i], i, bit)
    BY <1>1, BoundaryCrosses DEF done
<1>7. done.heap[done.context.state] = History(runner, plan, other, without, i)
  <2>1. done.heap[done.context.state] = Touch(h[c.state], Crossing(plan[i], i, c.memory, bit))
      BY <1>6 DEF Crossed
  <2>2. History(runner, plan, other, without, i)
          = Touch(History(runner, plan, other, without, i - 1), Operations(plan, other, without)[i])
      BY <1>1, HistoryAtBoundary
  <2>. QED BY <1>3, <1>5, <2>1, <2>2
<1>8. done.context.memory = Memory(plan, other, i + 1)
  <2>1. done.context.memory =
           IF plan[i].kind = "measure" THEN Written(c.memory, plan[i].clbit, bit) ELSE c.memory
      BY <1>6 DEF Crossed
  <2>2. CASE plan[i].kind = "measure"
    <3>1. Memory(plan, other, i + 1) = Written(Memory(plan, other, i), plan[i].clbit, other[i])
        BY <1>1, <2>2, MemoryWritten
    <3>. QED BY <1>3, <2>1, <2>2, <3>1
  <2>3. CASE plan[i].kind # "measure"
    <3>1. i + 1 \in Nat /\ i <= i + 1
          /\ \A k \in 1..Len(plan) : i <= k /\ k < i + 1 => plan[k].kind # "measure"
        BY <1>1, <2>3
    <3>2. Memory(plan, other, i) = Memory(plan, other, i + 1)
        BY <1>1, <3>1, MemoryStays
    <3>. QED BY <1>3, <2>1, <2>3, <3>2
  <2>. QED BY <2>2, <2>3
<1>9. done.context.frame = Frames(runner, plan, other, i)
  <2>1. done.context.frame = c.frame
      BY <1>6 DEF Crossed
  <2>. QED BY <1>1, <1>3, <2>1, FramesAtBoundary
<1>10. done.context.time = Clock(plan, i)
  <2>1. Clock(plan, i - 1 + 1) = Clock(plan, i - 1)
      BY <1>1, ClockAtBoundary
  <2>2. done.context.time = c.time
      BY <1>6 DEF Crossed
  <2>. QED BY <1>1, <1>2, <2>1, <2>2
<1>. QED BY <1>7, <1>8, <1>9, <1>10 DEF Progress, done

\* A measurement left out leaves a shot as it is.
LEMMA DeferProgress ==
    ASSUME NEW r, NEW q, Len(q) \in Nat, NEW i \in 1..Len(q), q[i].kind = "measure", NEW state, NEW c,
           Progress(r, q, Deferred, Zero(q), i - 1, state, c)
    PROVE  Progress(r, q, Deferred, Zero(q), i, state, c)
<1>1. i \in Nat /\ i - 1 \in 0..Len(q) /\ i - 1 + 1 = i /\ i \in Nat \ {0} /\ i - 1 \in Nat /\ i + 1 \in Nat
    OBVIOUS
<1>2. /\ state = History(r, q, Zero(q), Deferred, i - 1)
      /\ c.memory = Memory(q, Zero(q), i)
      /\ c.frame = Frames(r, q, Zero(q), i - 1) /\ c.time = Clock(q, i - 1)
    BY <1>1 DEF Progress
<1>3. state = History(r, q, Zero(q), Deferred, i)
  <2>1. Operations(q, Zero(q), Deferred)[i].on = {}
      BY OperationsAt DEF Deferred
  <2>2. IsState(state)
      BY <1>1, <1>2, HistoryIsState
  <2>3. Touch(state, Operations(q, Zero(q), Deferred)[i]) = state
      BY <2>1, <2>2, TouchNothing
  <2>4. History(r, q, Zero(q), Deferred, i)
          = Touch(History(r, q, Zero(q), Deferred, i - 1), Operations(q, Zero(q), Deferred)[i])
      BY HistoryAtBoundary
  <2>. QED BY <1>2, <2>3, <2>4
<1>4. Memory(q, Zero(q), i) = Memory(q, Zero(q), i + 1)
  <2>1. \A m \in Semantics!Measurements(q) : Zero(q)[m] = 0
      BY DEF Zero
  <2>2. Memory(q, Zero(q), i) = [k \in Clbits |-> 0] /\ Memory(q, Zero(q), i + 1) = [k \in Clbits |-> 0]
      BY <1>1, <2>1, MemoryBlank
  <2>. QED BY <2>2
<1>5. Frames(r, q, Zero(q), i) = Frames(r, q, Zero(q), i - 1)
    BY <1>1, FramesAtBoundary
<1>6. Clock(q, i - 1 + 1) = Clock(q, i - 1)
    BY <1>1, ClockAtBoundary
<1>. QED BY <1>1, <1>2, <1>3, <1>4, <1>5, <1>6 DEF Progress
----------------------------------------------------------------------------
(* What a sampled request has in common with the plan that was evolved.    *)

ZeroMemory == [c \in Clbits |-> 0]

Ready(r, p, q, terminals) ==
    /\ Len(q) \in Nat /\ Semantics!Measurements(q) = terminals
    /\ \A i \in terminals : q[i].condition = {}
    /\ Deferrable(r, q)
    /\ History(r, q, Zero(q), Deferred, Len(q)) = History(r, p, Zero(p), Deferred, Len(p))
    /\ \A bits : Frames(r, q, bits, Len(q)) = Frames(r, p, Zero(p), Len(p))

LEMMA MeasurementsAre ==
    ASSUME NEW q
    PROVE  \A i : i \in Semantics!Measurements(q) <=> i \in 1..Len(q) /\ q[i].kind = "measure"
    BY DEF Semantics!Measurements, Semantics!IsMeasurement

LEMMA ZeroIs ==
    ASSUME NEW q
    PROVE  /\ Zero(q) \in [Semantics!Measurements(q) -> Bits]
           /\ \A m \in Semantics!Measurements(q) : Zero(q)[m] = 0
    BY DEF Zero, Bits, Semantics!Bits

LEMMA ZeroMemoryIs ==
    ASSUME NEW q, Len(q) \in Nat, NEW i \in Nat
    PROVE  Memory(q, Zero(q), i) = ZeroMemory
    BY ZeroIs, MemoryBlank DEF ZeroMemory

\* Frames that depend on no measurement.
LEMMA FramesFixed ==
    ASSUME NEW r, NEW q, NEW bits, NEW other, Len(q) \in Nat,
           r.frames => \A i \in 1..Len(q) : Unconditional(q, i)
    PROVE  Frames(r, q, bits, Len(q)) = Frames(r, q, other, Len(q))
<1>1. CASE ~ r.frames
    BY <1>1 DEF Frames
<1>2. CASE r.frames
  <2>1. ASSUME NEW j \in 1..Len(q)
        PROVE  Semantics!Happens(q, bits, j) <=> Semantics!Happens(q, other, j)
    <3>1. CASE q[j].condition = {}
        BY <3>1 DEF Semantics!Happens
    <3>2. CASE \A m \in Semantics!Measurements(q) : ~(m < j)
      <4>1. AgreeBefore(q, bits, other, j)
          BY <3>2 DEF AgreeBefore
      <4>. QED BY <4>1, HappensSame
    <3>. QED BY <1>2, <3>1, <3>2 DEF Unconditional
  <2>. QED BY <2>1 DEF Frames
<1>. QED BY <1>1, <1>2

\* No pulse follows a measurement.
PulsesFirst == \A m \in Semantics!Measurements(plan) : \A i \in Indices :
                  m < i => plan[i].kind # "pulse"

\* A plan whose measurements are deferred by the fast path.
LEMMA FastReady ==
    ASSUME plan \in Plans, runner.background => PulsesFirst, ~ IsDynamic
    PROVE  Ready(runner, plan, plan, AllMeasurements)
<1>1. Len(plan) \in Nat
    BY PlanLength
<1>2. AllMeasurements = Semantics!Measurements(plan)
    BY DEF AllMeasurements, Semantics!Measurements, IsMeasurement, Indices
<1>3. \A i \in 1..Len(plan) : plan[i].kind = "measure" => plan[i].condition = {}
    BY PlansAreLowered
<1>4. ASSUME NEW i \in 1..Len(plan), plan[i].kind # "measure"
      PROVE  /\ plan[i].condition = {}
             /\ \A m \in Semantics!Measurements(plan) :
                   m < i => plan[i].targets \cap plan[m].targets = {}
  <2>1. ~(plan[i].condition # {} \/ TouchesMeasured(i))
      BY <1>4 DEF IsDynamic, IsMeasurement, Semantics!IsMeasurement, Indices
  <2>2. ASSUME NEW m \in Semantics!Measurements(plan), m < i
        PROVE  plan[i].targets \cap plan[m].targets = {}
    <3>1. m \in 1..(i - 1) /\ IsMeasurement(plan[m])
        BY <1>1, <2>2 DEF Semantics!Measurements, IsMeasurement
    <3>. QED BY <2>1, <3>1 DEF TouchesMeasured
  <2>. QED BY <2>1, <2>2
<1>5. \A i \in 1..Len(plan) : Unconditional(plan, i)
    BY <1>3, <1>4 DEF Unconditional
<1>6. Deferrable(runner, plan)
    BY <1>4, <1>5 DEF Deferrable, PulsesFirst, Indices
<1>7. \A bits : Frames(runner, plan, bits, Len(plan)) = Frames(runner, plan, Zero(plan), Len(plan))
    BY <1>1, <1>5, FramesFixed
<1>8. \A i \in AllMeasurements : plan[i].condition = {}
    BY <1>2, <1>3, MeasurementsAre
<1>. QED BY <1>1, <1>2, <1>6, <1>7, <1>8 DEF Ready

\* A plan whose final states come from one batch of trajectories.
LEMMA BatchReady ==
    ASSUME plan \in Plans, runner \in Runners, runner.batch, IsTerminalBatch
    PROVE  Ready(runner, plan, plan, AllMeasurements)
<1>1. Len(plan) \in Nat /\ ~ runner.frames
    BY PlanLength, EngineAssumption
<1>2. AllMeasurements = Semantics!Measurements(plan)
    BY DEF AllMeasurements, Semantics!Measurements, IsMeasurement, Indices
<1>3. ASSUME NEW i \in 1..Len(plan)
      PROVE  /\ plan[i].kind \in {"pulse", "measure", "reset"}
             /\ plan[i].kind = "measure" => plan[i].condition = {}
    BY PlansAreLowered
<1>4. ASSUME NEW i \in 1..Len(plan), plan[i].kind # "measure"
      PROVE  /\ plan[i].condition = {}
             /\ \A m \in Semantics!Measurements(plan) : ~(m < i)
  <2>1. IsPulse(plan[i])
      BY <1>3, <1>4 DEF IsTerminalBatch, IsPulse, Semantics!IsPulse, Indices
  <2>2. plan[i].condition = {} /\ \A m \in 1..(i - 1) : ~IsMeasurement(plan[m])
      BY <2>1 DEF IsTerminalBatch, Indices
  <2>3. ASSUME NEW m \in Semantics!Measurements(plan), m < i PROVE FALSE
    <3>1. m \in 1..(i - 1) /\ IsMeasurement(plan[m])
        BY <1>1, <2>3 DEF Semantics!Measurements, IsMeasurement
    <3>. QED BY <2>2, <3>1
  <2>. QED BY <2>2, <2>3
<1>5. \A i \in 1..Len(plan) : Unconditional(plan, i)
    BY <1>3, <1>4 DEF Unconditional
<1>6. Deferrable(runner, plan)
    BY <1>4, <1>5 DEF Deferrable
<1>7. \A bits : Frames(runner, plan, bits, Len(plan)) = Frames(runner, plan, Zero(plan), Len(plan))
    BY <1>1, FramesFixed
<1>8. \A i \in AllMeasurements : plan[i].condition = {}
    BY <1>2, <1>3, MeasurementsAre
<1>. QED BY <1>1, <1>2, <1>6, <1>7, <1>8 DEF Ready

\* A terminal group's request: the plan, pulses only, and then a measurement.
GroupRequest(p, g) == Append(p, g)

LEMMA GroupIs ==
    ASSUME NEW p, NEW g, IsSequence(p)
    PROVE  /\ Len(GroupRequest(p, g)) = Len(p) + 1 /\ Len(p) \in Nat
           /\ \A k \in 1..Len(p) : GroupRequest(p, g)[k] = p[k]
           /\ GroupRequest(p, g)[Len(p) + 1] = g
    BY AppendIsSequence DEF GroupRequest, IsSequence

LEMMA GroupReady ==
    ASSUME NEW r, NEW p, NEW g, IsSequence(p), \A i \in 1..Len(p) : p[i].kind = "pulse",
           g.kind = "measure", g.condition = {}
    PROVE  Ready(r, p, GroupRequest(p, g), {Len(p) + 1})
<1>. DEFINE n == Len(p)
            q == GroupRequest(p, g)
<1>1. /\ Len(q) = n + 1 /\ n \in Nat /\ n + 1 \in Nat /\ Len(q) \in Nat
      /\ q[n + 1] = g /\ \A k \in 1..n : q[k] = p[k]
    BY GroupIs
<1>. HIDE DEF q
<1>. USE <1>1
<1>2. Semantics!Measurements(q) = {n + 1} /\ Semantics!Measurements(p) = {}
  <2>1. \A i \in 1..(n + 1) : i \in 1..n \/ i = n + 1
      OBVIOUS
  <2>2. \A i : i \in Semantics!Measurements(q) <=> i = n + 1
      BY <2>1, MeasurementsAre
  <2>3. \A i : i \notin Semantics!Measurements(p)
      BY MeasurementsAre
  <2>. QED BY <2>2, <2>3
<1>3. \A i \in 1..Len(q) : Unconditional(q, i)
  <2>. SUFFICES ASSUME NEW i \in 1..Len(q) PROVE Unconditional(q, i)
      OBVIOUS
  <2>1. CASE i = n + 1
      BY <2>1 DEF Unconditional
  <2>2. CASE i # n + 1
    <3>1. ~(n + 1 < i)
        BY <2>2
    <3>. QED BY <1>2, <3>1 DEF Unconditional
  <2>. QED BY <2>1, <2>2
<1>4. Deferrable(r, q)
  <2>1. \A m \in Semantics!Measurements(q) : \A i \in 1..Len(q) : ~(m < i)
      BY <1>2
  <2>. QED BY <1>3, <2>1 DEF Deferrable
<1>5. \A i \in {n + 1} : q[i].condition = {}
    OBVIOUS
<1>6. ASSUME NEW i \in 1..n, NEW bits, NEW other
      PROVE  Memory(q, bits, i) = ZeroMemory /\ Memory(p, other, i) = ZeroMemory
  <2>1. \A m \in Semantics!Measurements(q) : m < i => bits[m] = 0
      BY <1>2
  <2>2. \A m \in Semantics!Measurements(p) : m < i => other[m] = 0
      BY <1>2
  <2>. QED BY <1>6, <2>1, <2>2, MemoryBlank DEF ZeroMemory
<1>7. ASSUME NEW i \in 1..n
      PROVE  /\ Semantics!RegionStart(q, i) = Semantics!RegionStart(p, i)
             /\ Semantics!EndsRegion(q, i) <=> Semantics!EndsRegion(p, i)
  <2>1. \A k \in 1..i : q[k] = p[k] /\ p[k].kind = "pulse"
      BY <1>7
  <2>2. /\ {j \in 1..(i - 1) : Semantics!IsPulse(q[j]) /\ \E k \in j..i : ~Semantics!IsPulse(q[k])} = {}
        /\ {j \in 1..(i - 1) : Semantics!IsPulse(p[j]) /\ \E k \in j..i : ~Semantics!IsPulse(p[k])} = {}
    <3>1. ASSUME NEW j \in 1..(i - 1), NEW k \in j..i
          PROVE  q[k].kind = "pulse" /\ p[k].kind = "pulse"
      <4>1. k \in 1..i
          BY <1>7, <3>1
      <4>. QED BY <2>1, <4>1
    <3>. QED BY <3>1 DEF Semantics!IsPulse
  <2>3. Semantics!RegionStart(q, i) = Semantics!RegionStart(p, i)
      BY <2>2 DEF Semantics!RegionStart
  <2>4. CASE i = n
    <3>1. Semantics!EndsRegion(p, i)
        BY <1>7, <2>4 DEF Semantics!EndsRegion, Semantics!IsPulse
    <3>2. Semantics!EndsRegion(q, i)
        BY <1>7, <2>4 DEF Semantics!EndsRegion, Semantics!IsPulse
    <3>. QED BY <2>3, <3>1, <3>2
  <2>5. CASE i # n
    <3>1. i + 1 \in 1..n /\ i # n + 1
        BY <1>7, <2>5
    <3>2. p[i + 1].kind = "pulse" /\ q[i + 1].kind = "pulse"
        BY <3>1
    <3>3. ~ Semantics!EndsRegion(p, i) /\ ~ Semantics!EndsRegion(q, i)
        BY <1>7, <2>5, <3>1, <3>2 DEF Semantics!EndsRegion, Semantics!IsPulse
    <3>. QED BY <2>3, <3>3
  <2>. QED BY <2>4, <2>5
<1>8. History(r, q, Zero(q), Deferred, n) = History(r, p, Zero(p), Deferred, n)
  <2>. DEFINE all == Operations(q, Zero(q), Deferred)
              others == Operations(p, Zero(p), Deferred)
              noise == Noise(r, q)
              quiet == Noise(r, p)
  <2>1. Len(all) = n + 1 /\ Len(others) = n
      BY OperationCount
  <2>2. ASSUME NEW i \in 1..n PROVE SameAt(all, noise, others, quiet, i)
    <3>1. i \in 1..Len(q) /\ i \in 1..Len(p) /\ q[i] = p[i] /\ p[i].kind = "pulse"
        BY <2>2
    <3>2. all[i] = Semantics!Operation(q, Zero(q), i) /\ others[i] = Semantics!Operation(p, Zero(p), i)
        BY <3>1, OperationsAt DEF Deferred
    <3>3. Memory(q, Zero(q), i) = Memory(p, Zero(p), i)
        BY <1>6, <2>2
    <3>4. all[i] = others[i]
        BY <1>7, <2>2, <3>1, <3>2, <3>3, OperationIs
    <3>5. noise[i] = quiet[i]
        BY <1>7, <2>2, <3>1 DEF Noise
    <3>. HIDE DEF all, others, noise, quiet
    <3>. QED BY <3>4, <3>5 DEF SameAt
  <2>. HIDE DEF all, others, noise, quiet, n
  <2>3. n <= n + 1 /\ n <= n
      OBVIOUS
  <2>4. After(Blank, all, noise, n) = After(Blank, others, quiet, n)
      BY <2>1, <2>2, <2>3, AfterSame
  <2>. QED BY <2>4 DEF History, all, others, noise, quiet
<1>9. History(r, q, Zero(q), Deferred, Len(q)) = History(r, q, Zero(q), Deferred, n)
  <2>1. n + 1 \in 1..Len(q) /\ n + 1 - 1 = n /\ q[n + 1].kind # "pulse" /\ n \in 0..Len(q)
      OBVIOUS
  <2>2. Operations(q, Zero(q), Deferred)[n + 1].on = {}
      BY <2>1, OperationsAt DEF Deferred
  <2>3. History(r, q, Zero(q), Deferred, n + 1)
          = Touch(History(r, q, Zero(q), Deferred, n), Operations(q, Zero(q), Deferred)[n + 1])
    <3>. DEFINE k == n + 1
    <3>1. k \in 1..Len(q) /\ q[k].kind # "pulse" /\ k - 1 = n
        BY <2>1
    <3>. HIDE DEF k
    <3>2. History(r, q, Zero(q), Deferred, k)
            = Touch(History(r, q, Zero(q), Deferred, k - 1), Operations(q, Zero(q), Deferred)[k])
        BY <3>1, HistoryAtBoundary
    <3>. QED BY <3>1, <3>2 DEF k
  <2>4. IsState(History(r, q, Zero(q), Deferred, n))
      BY <2>1, HistoryIsState
  <2>. QED BY <2>2, <2>3, <2>4, TouchNothing
<1>10. ASSUME NEW bits
       PROVE  Frames(r, q, bits, Len(q)) = Frames(r, p, Zero(p), n)
  <2>1. ASSUME NEW j \in 1..n
        PROVE  /\ q[j] = p[j]
               /\ Semantics!Happens(q, bits, j) <=> Semantics!Happens(p, Zero(p), j)
    <3>1. Memory(q, bits, j) = Memory(p, Zero(p), j)
        BY <1>6, <2>1
    <3>. QED BY <2>1, <3>1, HappensIs
  <2>2. {j \in 1..(n + 1) : q[j].kind = "pulse" /\ Semantics!Happens(q, bits, j)}
          = {j \in 1..n : p[j].kind = "pulse" /\ Semantics!Happens(p, Zero(p), j)}
    <3>1. q[n + 1].kind # "pulse" /\ \A j \in 1..(n + 1) : j \in 1..n \/ j = n + 1
        OBVIOUS
    <3>. QED BY <2>1, <3>1
  <2>. QED BY <2>2 DEF Frames
<1>. QED BY <1>2, <1>4, <1>5, <1>8, <1>9, <1>10 DEF Ready, q
----------------------------------------------------------------------------
(* The invariant of the refinement.                                        *)

\* What a strategy leaves out of the shared evolution.
Without(chosen) == IF chosen = "per_shot" THEN {} ELSE Deferred

\* A traversal at a position: up to the boundary at base the context is that of a
\* source-order run, and the steps since then are the pulses of the open region.
Traversed(r, q, without, base, bits, position, region, state, c) ==
    /\ without # {} => bits = Zero(q)
    /\ RegionOf(q, base, position - 1) /\ region = (base + 1)..(position - 1)
    /\ Progress(r, q, without, bits, base, state, c)

Traversing(r, q, without, position, region, state, c) ==
    \E base \in 0..Len(q), bits \in [Semantics!Measurements(q) -> Bits] :
       Traversed(r, q, without, base, bits, position, region, state, c)

TraverseInv ==
    pc = "traverse" =>
       Traversing(runner, plan, Without(strategy), at, pending, heap[context.state], context)

\* The state and the frames that samples start from.
Evolved     == History(runner, plan, Zero(plan), Deferred, Len(plan))
SharedFrame == Frames(runner, plan, Zero(plan), Len(plan))

SampleInv ==
    pc \in {"sample", "measure"} =>
       /\ source.frame = SharedFrame
       /\ strategy = "groups" \/ (strategy = "fast" /\ Shots > 1) => heap[source.state] = Evolved
       /\ strategy = "batch" => \A n \in 1..Shots : heap[n] = Evolved
       /\ strategy = "fast" /\ pc = "sample" /\ Drawn = 0 =>
             /\ heap[context.state] = Evolved
             /\ context.frame = SharedFrame /\ context.memory = ZeroMemory

\* A sample of a request, measured up to step i.
Measuring(r, p, q, i, state, c) ==
    \E bits \in [Semantics!Measurements(q) -> Bits] :
       /\ state = Sampled(r, q, bits, i)
       /\ c.memory = Memory(q, bits, i + 1)
       /\ c.frame = Frames(r, p, Zero(p), Len(p))

MeasureInv ==
    pc = "measure" =>
       Measuring(runner, plan, Requests[group], cursor, heap[context.state], context)

\* What the choice of a strategy was based on.
StrategyInv ==
    /\ pc = "choose" => at = 1 /\ pending = {}
    /\ strategy = "fast" => api = "run" /\ ~ IsDynamic /\ terminal = AllMeasurements
    /\ strategy = "batch" => runner.batch /\ IsTerminalBatch /\ terminal = AllMeasurements
    /\ strategy = "groups" => terminal = {Len(plan) + 1}

\* The groups before the running one are full.
OrderInv == \A g \in 1..Len(Requests) : g < group => Len(delivered[g]) = Shots

ValueInv == StrategyInv /\ OrderInv /\ TraverseInv /\ SampleInv /\ MeasureInv

\* Not the calls whose deferred measurements background noise overtakes: with it, run
\* takes no plan on the fast path in which a pulse follows a measurement.
QuietCall == api = "run" /\ runner.background => IsDynamic \/ PulsesFirst

LEMMA RequestIs ==
    ASSUME CallInv, NEW g \in 1..Len(Requests)
    PROVE  /\ api = "groups" => g \in 1..Len(groups) /\ Requests[g] = GroupRequest(plan, groups[g])
           /\ api # "groups" => g = 1 /\ Requests[g] = plan
<1>1. CASE api = "groups"
  <2>. DEFINE n == Len(groups)
              r == [k \in 1..n |-> GroupRequest(plan, groups[k])]
  <2>1. n \in Nat
      BY <1>1, EngineAssumption DEF CallInv
  <2>2. Requests = r
      BY <1>1 DEF Requests, GroupRequest
  <2>3. r = [k \in 1..n |-> r[k]] /\ \A k \in 1..n : r[k] = GroupRequest(plan, groups[k])
      OBVIOUS
  <2>. HIDE DEF r, n
  <2>4. Len(r) = n
      BY <2>1, <2>3, FunctionIsSequence
  <2>5. g \in 1..n
      BY <2>2, <2>4
  <2>. QED BY <1>1, <2>2, <2>3, <2>5 DEF n
<1>2. CASE api # "groups"
  <2>1. Requests = <<plan>> /\ Len(Requests) = 1
      BY <1>2, RequestCount DEF Requests
  <2>2. g = 1
      BY <2>1
  <2>3. <<plan>>[1] = plan
      OBVIOUS
  <2>. QED BY <1>2, <2>1, <2>2, <2>3
<1>. QED BY <1>1, <1>2

\* Every request that is sampled can be.
LEMMA RequestReady ==
    ASSUME QuietCall, CallInv, StrategyInv, strategy \in {"fast", "groups", "batch"},
           NEW g \in 1..Len(Requests)
    PROVE  /\ Ready(runner, plan, Requests[g], terminal)
           /\ g = group => \A i \in terminal : StepAt(i) = Requests[g][i]
<1>1. plan \in Plans /\ runner \in Runners /\ Len(plan) \in Nat /\ IsSequence(plan)
    BY PlanLength DEF CallInv
<1>2. CASE strategy = "fast"
  <2>1. api = "run" /\ ~ IsDynamic /\ terminal = AllMeasurements
      BY <1>2 DEF StrategyInv
  <2>2. runner.background => PulsesFirst
      BY <2>1 DEF QuietCall
  <2>3. Requests[g] = plan
      BY <2>1, RequestIs
  <2>4. Ready(runner, plan, plan, AllMeasurements)
      BY <1>1, <2>1, <2>2, FastReady
  <2>5. \A i \in AllMeasurements : StepAt(i) = plan[i]
      BY <1>1 DEF AllMeasurements, StepAt, Indices
  <2>. QED BY <2>1, <2>3, <2>4, <2>5
<1>3. CASE strategy = "batch"
  <2>1. api # "groups" /\ runner.batch /\ IsTerminalBatch /\ terminal = AllMeasurements
      BY <1>3 DEF StrategyInv, CallInv
  <2>2. Requests[g] = plan
      BY <2>1, RequestIs
  <2>3. Ready(runner, plan, plan, AllMeasurements)
      BY <1>1, <2>1, BatchReady
  <2>4. \A i \in AllMeasurements : StepAt(i) = plan[i]
      BY <1>1 DEF AllMeasurements, StepAt, Indices
  <2>. QED BY <2>1, <2>2, <2>3, <2>4
<1>4. CASE strategy = "groups"
  <2>1. api = "groups" /\ terminal = {Len(plan) + 1} /\ groups \in Groups
      BY <1>4 DEF StrategyInv, CallInv
  <2>2. g \in 1..Len(groups) /\ Requests[g] = GroupRequest(plan, groups[g])
      BY <2>1, RequestIs
  <2>3. groups[g].kind = "measure" /\ groups[g].condition = {}
      BY <2>1, <2>2, PlansAreLowered
  <2>4. \A i \in 1..Len(plan) : plan[i].kind = "pulse"
      BY <2>1 DEF CallInv, IsPulse, Semantics!IsPulse, Indices
  <2>5. Ready(runner, plan, GroupRequest(plan, groups[g]), {Len(plan) + 1})
      BY <1>1, <2>3, <2>4, GroupReady
  <2>6. GroupRequest(plan, groups[g])[Len(plan) + 1] = groups[g]
      BY <1>1, GroupIs
  <2>7. g = group => StepAt(Len(plan) + 1) = groups[g]
      BY <1>1 DEF StepAt
  <2>. QED BY <2>1, <2>2, <2>5, <2>6, <2>7
<1>. QED BY <1>2, <1>3, <1>4

\* A shot begins.
LEMMA ShotBegins ==
    ASSUME plan \in Plans, NEW without
    PROVE  Traversing(runner, plan, without, 1, {}, Blank, Fresh(1))
<1>. DEFINE b == Zero(plan)
            c == Fresh(1)
<1>1. Len(plan) \in Nat
    BY PlanLength
<1>2. /\ c.memory = ZeroMemory /\ c.frame = {} /\ c.time = 0
    BY DEF Fresh, ZeroMemory
<1>3. History(runner, plan, b, without, 0) = Blank
    BY <1>1, OperationCount, AfterStart DEF History
<1>4. Memory(plan, b, 0 + 1) = ZeroMemory
    BY <1>1, ZeroMemoryIs
<1>5. Frames(runner, plan, b, 0) = {}
    BY DEF Frames
<1>6. Clock(plan, 0) = 0
  <2>1. {i \in 1..0 : plan[i].kind = "pulse"} = {}
      OBVIOUS
  <2>2. Semantics!Latest({}) = 0
      BY LatestIs
  <2>. QED BY <2>1, <2>2 DEF Clock
<1>7. RegionOf(plan, 0, 1 - 1) /\ {} = (0 + 1)..(1 - 1)
    BY <1>1 DEF RegionOf
<1>. HIDE DEF b, c
<1>8. Progress(runner, plan, without, b, 0, Blank, c)
    BY <1>2, <1>3, <1>4, <1>5, <1>6 DEF Progress
<1>9. Traversed(runner, plan, without, 0, b, 1, {}, Blank, c)
    BY <1>7, <1>8 DEF Traversed, b
<1>10. 0 \in 0..Len(plan) /\ b \in [Semantics!Measurements(plan) -> Bits]
    BY <1>1, ZeroIs DEF b
<1>. QED BY <1>9, <1>10 DEF Traversing, c

LEMMA ChooseTraverse ==
    CallInv /\ HeapInv /\ StrategyInv /\ ChooseStrategy => TraverseInv'
<1>. SUFFICES ASSUME CallInv, HeapInv, StrategyInv, ChooseStrategy PROVE TraverseInv'
    OBVIOUS
<1>1. /\ heap' = <<Blank>> /\ context' = Fresh(1) /\ at' = 1 /\ pending' = {}
      /\ plan' = plan /\ runner' = runner /\ plan \in Plans
    BY DEF ChooseStrategy, StrategyInv, HeapInv, CallInv, call
<1>2. heap'[context'.state] = Blank
    BY <1>1, OneObject DEF Fresh
<1>. QED BY <1>1, <1>2, ShotBegins DEF TraverseInv

LEMMA EndShotTraverse == CallInv /\ EndShot => TraverseInv'
<1>. SUFFICES ASSUME CallInv, EndShot PROVE TraverseInv'
    OBVIOUS
<1>1. /\ heap' = <<Blank>> /\ context' = Fresh(1) /\ at' = 1 /\ pending' = {}
      /\ plan' = plan /\ runner' = runner /\ plan \in Plans
    BY DEF EndShot, CallInv, call
<1>2. heap'[context'.state] = Blank
    BY <1>1, OneObject DEF Fresh
<1>. QED BY <1>1, <1>2, ShotBegins DEF TraverseInv

LEMMA TakeTraverse == CallInv /\ CursorInv /\ TraverseInv /\ TakePulse => TraverseInv'
<1>. SUFFICES ASSUME CallInv, CursorInv, TraverseInv, TakePulse PROVE TraverseInv'
    OBVIOUS
<1>1. /\ at \in 1..Len(plan) /\ at \in Nat /\ plan[at].kind = "pulse" /\ Len(plan) \in Nat
    BY PlanLength DEF TakePulse, CursorInv, CallInv, IsPulse, Semantics!IsPulse
<1>2. /\ pc' = pc /\ strategy' = strategy /\ heap' = heap /\ context' = context
      /\ at' = at + 1 /\ pending' = pending \cup {at} /\ plan' = plan /\ runner' = runner
      /\ pc = "traverse"
    BY DEF TakePulse, call
<1>. DEFINE w == Without(strategy)
            state == heap[context.state]
<1>3. PICK base \in 0..Len(plan), bits \in [Semantics!Measurements(plan) -> Bits] :
          Traversed(runner, plan, w, base, bits, at, pending, state, context)
    BY <1>2 DEF TraverseInv, Traversing
<1>4. RegionOf(plan, base, at - 1) /\ pending = (base + 1)..(at - 1)
    BY <1>3 DEF Traversed
<1>5. RegionOf(plan, base, at + 1 - 1) /\ pending \cup {at} = (base + 1)..(at + 1 - 1)
  <2>1. base \in Nat /\ base <= at - 1 /\ base \in 0..Len(plan)
      BY <1>1, <1>4 DEF RegionOf
  <2>2. \A k : k \in (base + 1)..at <=> k \in (base + 1)..(at - 1) \/ k = at
      BY <1>1, <2>1
  <2>3. at + 1 - 1 = at /\ at \in base..Len(plan)
      BY <1>1, <2>1
  <2>4. pending \cup {at} = (base + 1)..at
      BY <1>4, <2>2
  <2>5. \A k \in (base + 1)..at : plan[k].kind = "pulse"
      BY <1>1, <1>4, <2>2 DEF RegionOf
  <2>. QED BY <1>4, <2>1, <2>3, <2>4, <2>5 DEF RegionOf
<1>. HIDE DEF w, state
<1>6. Traversed(runner, plan, w, base, bits, at + 1, pending \cup {at}, state, context)
    BY <1>3, <1>5 DEF Traversed
<1>7. Traversing(runner, plan, w, at + 1, pending \cup {at}, state, context)
    BY <1>6 DEF Traversing
<1>. QED BY <1>2, <1>7 DEF TraverseInv, w, state

\* A flush at a boundary or at the end of the plan.
LEMMA FlushTraverse ==
    ASSUME CallInv, CursorInv, HeapInv, TraverseInv, pc = "traverse",
           at = Len(plan) + 1 \/ plan[at].kind # "pulse"
    PROVE  \E bits \in [Semantics!Measurements(plan) -> Bits] :
              /\ Without(strategy) # {} => bits = Zero(plan)
              /\ Progress(runner, plan, Without(strategy), bits, at - 1,
                          Flush(heap, context).heap[Flush(heap, context).context.state],
                          Flush(heap, context).context)
<1>. DEFINE w == Without(strategy)
            top == at - 1
<1>1. plan \in Plans /\ Len(plan) \in Nat /\ at \in Nat /\ top + 1 = at
    BY PlanLength DEF CallInv, CursorInv
<1>2. IsSequence(heap) /\ context \in Contexts(Len(heap))
    BY DEF HeapInv
<1>3. PICK base \in 0..Len(plan), bits \in [Semantics!Measurements(plan) -> Bits] :
          Traversed(runner, plan, w, base, bits, at, pending, heap[context.state], context)
    BY DEF TraverseInv, Traversing
<1>4. /\ w # {} => bits = Zero(plan)
      /\ RegionOf(plan, base, top) /\ pending = (base + 1)..top
      /\ Progress(runner, plan, w, bits, base, heap[context.state], context)
    BY <1>3 DEF Traversed
<1>5. "pulse" \notin w
    BY DEF Without, Deferred
<1>6. top = Len(plan) \/ plan[top + 1].kind # "pulse"
    BY <1>1
<1>. HIDE DEF w, top
<1>7. Progress(runner, plan, w, bits, top,
               Flush(heap, context).heap[Flush(heap, context).context.state],
               Flush(heap, context).context)
    BY <1>1, <1>2, <1>4, <1>5, <1>6, FlushProgress
<1>. QED BY <1>4, <1>7 DEF w, top

LEMMA CrossTraverse ==
    CallInv /\ CursorInv /\ HeapInv /\ TraverseInv /\ CrossBoundary => TraverseInv'
<1>. SUFFICES ASSUME CallInv, CursorInv, HeapInv, TraverseInv, CrossBoundary PROVE TraverseInv'
    OBVIOUS
<1>. DEFINE w == Without(strategy)
            flushed == Flush(heap, context)
            deferred == Deferring /\ IsMeasurement(plan[at])
            crossed(bit) == IF deferred THEN flushed
                            ELSE Boundary(flushed.heap, flushed.context, at, bit)
<1>1. /\ plan \in Plans /\ Len(plan) \in Nat /\ at \in 1..Len(plan) /\ at \in Nat
      /\ plan[at].kind # "pulse" /\ StepAt(at) = plan[at] /\ pending \in SUBSET Indices
    BY PlanLength DEF CrossBoundary, CursorInv, CallInv, IsPulse, Semantics!IsPulse, StepAt
<1>2. /\ pc' = pc /\ strategy' = strategy /\ at' = at + 1 /\ pending' = {}
      /\ plan' = plan /\ runner' = runner /\ pc = "traverse"
    BY DEF CrossBoundary, call
<1>3. IsMeasurement(plan[at]) <=> plan[at].kind = "measure"
    BY DEF IsMeasurement, Semantics!IsMeasurement
<1>4. PICK bit \in IF Deferring THEN {0} ELSE Results(at) :
          heap' = crossed(bit).heap /\ context' = crossed(bit).context
    BY DEF CrossBoundary
<1>5. bit \in Bits /\ (plan[at].kind # "measure" => bit = 0)
    BY <1>1, <1>3, <1>4 DEF Results, Bits, Semantics!Bits
<1>6. IsSequence(heap) /\ context \in Contexts(Len(heap))
    BY DEF HeapInv
<1>7. IsSequence(flushed.heap) /\ flushed.context \in Contexts(Len(flushed.heap))
  <2>1. Follows(heap, context, flushed)
      BY <1>1, <1>6, FlushFollows
  <2>. QED BY <2>1 DEF Follows, Keeps
<1>8. PICK bits \in [Semantics!Measurements(plan) -> Bits] :
          /\ w # {} => bits = Zero(plan)
          /\ Progress(runner, plan, w, bits, at - 1, flushed.heap[flushed.context.state],
                      flushed.context)
    BY <1>1, <1>2, FlushTraverse
<1>9. \E other \in [Semantics!Measurements(plan) -> Bits] :
          /\ w # {} => other = Zero(plan)
          /\ Progress(runner, plan, w, other, at, heap'[context'.state], context')
  <2>1. CASE deferred
    <3>1. w = Deferred /\ plan[at].kind = "measure" /\ Deferred # {} /\ bits = Zero(plan)
        BY <1>3, <1>8, <2>1 DEF Deferring, Without, Deferred
    <3>2. heap' = flushed.heap /\ context' = flushed.context
        BY <1>4, <2>1
    <3>. DEFINE state == flushed.heap[flushed.context.state]
                c == flushed.context
    <3>3. Progress(runner, plan, Deferred, Zero(plan), at - 1, state, c)
        BY <1>8, <3>1
    <3>. HIDE DEF state, c, flushed
    <3>4. Progress(runner, plan, Deferred, Zero(plan), at, state, c)
        BY <1>1, <3>1, <3>3, DeferProgress
    <3>. QED BY <3>1, <3>2, <3>4 DEF state, c
  <2>2. CASE ~ deferred
    <3>. DEFINE other == IF plan[at].kind = "measure" THEN [bits EXCEPT ![at] = bit] ELSE bits
                done == Boundary(flushed.heap, flushed.context, at, bit)
    <3>1. plan[at].kind \notin w
      <4>1. CASE strategy = "per_shot"
          BY <4>1 DEF Without
      <4>2. CASE strategy = "fast"
          BY <1>3, <2>2, <4>2 DEF Without, Deferred, Deferring
      <4>3. CASE strategy = "groups"
        <5>1. api = "groups"
            BY <4>3 DEF CallInv
        <5>2. IsPulse(plan[at])
            BY <1>1, <5>1 DEF CallInv, Indices
        <5>. QED BY <1>1, <5>2 DEF IsPulse, Semantics!IsPulse
      <4>. QED BY <1>2, <4>1, <4>2, <4>3 DEF CallInv
    <3>2. /\ other \in [Semantics!Measurements(plan) -> Bits]
          /\ plan[at].kind = "measure" => other[at] = bit
          /\ \A m \in Semantics!Measurements(plan) : m < at => bits[m] = other[m]
      <4>1. plan[at].kind = "measure" => at \in Semantics!Measurements(plan)
          BY <1>1, MeasurementsAre
      <4>. QED BY <1>1, <1>5, <4>1
    <3>3. AgreeBefore(plan, bits, other, at)
        BY <3>2 DEF AgreeBefore
    <3>4. w # {} => other = Zero(plan)
      <4>1. w # {} => plan[at].kind # "measure"
          BY <3>1 DEF Without, Deferred
      <4>. QED BY <1>8, <4>1
    <3>5. heap' = done.heap /\ context' = done.context
        BY <1>4, <2>2
    <3>. HIDE DEF other, flushed, w
    <3>6. Progress(runner, plan, w, other, at, done.heap[done.context.state], done.context)
        BY <1>1, <1>5, <1>7, <1>8, <3>1, <3>2, <3>3, BoundaryProgress
    <3>. QED BY <3>2, <3>4, <3>5, <3>6
  <2>. QED BY <2>1, <2>2
<1>10. RegionOf(plan, at, at + 1 - 1) /\ {} = (at + 1)..(at + 1 - 1) /\ at \in 0..Len(plan)
    BY <1>1 DEF RegionOf
<1>. DEFINE state == heap'[context'.state]
            c == context'
<1>. HIDE DEF w, flushed, state, c
<1>11. PICK other \in [Semantics!Measurements(plan) -> Bits] :
          /\ w # {} => other = Zero(plan)
          /\ Progress(runner, plan, w, other, at, state, c)
    BY <1>9 DEF state, c
<1>12. Traversed(runner, plan, w, at, other, at + 1, {}, state, c)
    BY <1>10, <1>11 DEF Traversed
<1>13. Traversing(runner, plan, w, at + 1, {}, state, c)
    BY <1>10, <1>12 DEF Traversing
<1>. QED BY <1>2, <1>13 DEF TraverseInv, w, state, c
----------------------------------------------------------------------------
(* Samples of an evolved state are source-order runs.                      *)

\* The outcome of a source-order run.
LEMMA OutcomeIs ==
    ASSUME NEW q, NEW bits
    PROVE  Semantics!Outcome(q, bits) =
              [state  |-> History(runner, q, bits, {}, Len(q)),
               memory |-> Memory(q, bits, Len(q) + 1),
               frame  |-> Frames(runner, q, bits, Len(q))]
<1>1. Semantics!Outcome(q, bits).state = History(runner, q, bits, {}, Len(q))
    BY OutcomeHistory
<1>2. Semantics!Outcome(q, bits).memory = Memory(q, bits, Len(q) + 1)
    BY DEF Semantics!Outcome, Memory
<1>3. Semantics!Outcome(q, bits).frame = Frames(runner, q, bits, Len(q))
    BY DEF Semantics!Outcome, Frames, Semantics!IsPulse
<1>4. Semantics!Outcome(q, bits) = [state  |-> Semantics!Outcome(q, bits).state,
                                    memory |-> Semantics!Outcome(q, bits).memory,
                                    frame  |-> Semantics!Outcome(q, bits).frame]
    BY DEF Semantics!Outcome
<1>. QED BY <1>1, <1>2, <1>3, <1>4

LEMMA SampleStarts ==
    ASSUME NEW r, NEW p, NEW q, NEW terminals, Ready(r, p, q, terminals)
    PROVE  /\ Sampled(r, q, Zero(q), 0) = History(r, p, Zero(p), Deferred, Len(p))
           /\ Memory(q, Zero(q), 0 + 1) = ZeroMemory
<1>1. /\ Len(q) \in Nat /\ Len(Alone(q, Zero(q))) = Len(q)
      /\ History(r, q, Zero(q), Deferred, Len(q)) = History(r, p, Zero(p), Deferred, Len(p))
    BY AloneCount DEF Ready
<1>2. Sampled(r, q, Zero(q), 0) = History(r, q, Zero(q), Deferred, Len(q))
    BY <1>1, AfterStart DEF Sampled
<1>3. Memory(q, Zero(q), 0 + 1) = ZeroMemory
    BY <1>1, ZeroMemoryIs
<1>. QED BY <1>1, <1>2, <1>3

\* Between two measurements a sample stays as it is.
NoneBetween(q, k, i) == \A m \in Semantics!Measurements(q) : ~(k < m /\ m < i)

LEMMA SampleStays ==
    ASSUME NEW r, NEW q, NEW bits, Len(q) \in Nat, NEW k \in 0..Len(q), NEW i \in k..Len(q),
           NoneBetween(q, k, i + 1)
    PROVE  /\ Sampled(r, q, bits, i) = Sampled(r, q, bits, k)
           /\ Memory(q, bits, i + 1) = Memory(q, bits, k + 1)
<1>. DEFINE n == Len(q)
            start == History(r, q, Zero(q), Deferred, Len(q))
            alone == Alone(q, bits)
            quiet == Silence(q)
<1>1. n \in Nat /\ k \in Nat /\ i \in Nat /\ k <= i /\ i <= n
    OBVIOUS
<1>2. ASSUME NEW j \in 1..n, k < j, j <= i PROVE q[j].kind # "measure"
  <2>1. j < i + 1
      BY <1>1, <1>2
  <2>. QED BY <1>2, <2>1, MeasurementsAre DEF NoneBetween
<1>3. \A j \in (k + 1)..i : Silent(alone, quiet, j)
  <2>. SUFFICES ASSUME NEW j \in (k + 1)..i PROVE Silent(alone, quiet, j)
      OBVIOUS
  <2>1. j \in 1..n /\ k < j /\ j <= i
      BY <1>1
  <2>2. alone[j].on = {} /\ quiet[j].on = {}
      BY <1>2, <2>1, AloneAt
  <2>. HIDE DEF alone, quiet
  <2>. QED BY <2>2 DEF Silent
<1>4. Len(alone) = n /\ IsState(start)
  <2>1. n \in 0..n
      BY <1>1
  <2>. QED BY <2>1, AloneCount, HistoryIsState
<1>5. Memory(q, bits, i + 1) = Memory(q, bits, k + 1)
  <2>1. k + 1 \in Nat /\ i + 1 \in Nat /\ k + 1 <= i + 1
      BY <1>1
  <2>2. \A j \in 1..Len(q) : k + 1 <= j /\ j < i + 1 => q[j].kind # "measure"
      BY <1>1, <1>2
  <2>. QED BY <1>1, <2>1, <2>2, MemoryStays
<1>. HIDE DEF alone, quiet, start
<1>6. After(start, alone, quiet, i) = After(start, alone, quiet, k)
    BY <1>1, <1>3, <1>4, AfterSilence
<1>. QED BY <1>5, <1>6 DEF Sampled, alone, quiet, start

\* The results so far make a sample.
LEMMA SampleSame ==
    ASSUME NEW r, NEW q, NEW bits, NEW other, Len(q) \in Nat, NEW i \in 0..Len(q),
           AgreeBefore(q, bits, other, i + 1)
    PROVE  Sampled(r, q, bits, i) = Sampled(r, q, other, i)
<1>. DEFINE start == History(r, q, Zero(q), Deferred, Len(q))
            alone == Alone(q, bits)
            others == Alone(q, other)
            quiet == Silence(q)
<1>1. ASSUME NEW j \in 1..i PROVE SameAt(alone, quiet, others, quiet, j)
  <2>1. j \in 1..Len(q) /\ j \in Nat /\ i + 1 \in Nat /\ j <= i + 1 /\ j < i + 1
      BY <1>1
  <2>2. AgreeBefore(q, bits, other, j)
      BY <2>1, AgreeEarlier
  <2>3. q[j].kind = "measure" => bits[j] = other[j]
      BY <2>1, MeasurementsAre DEF AgreeBefore
  <2>4. Semantics!Operation(q, bits, j) = Semantics!Operation(q, other, j)
      BY <2>1, <2>2, <2>3, OperationSame
  <2>5. alone[j] = others[j]
      BY <2>1, <2>4 DEF Alone
  <2>. HIDE DEF alone, others, quiet
  <2>. QED BY <2>5 DEF SameAt
<1>2. Len(alone) = Len(q) /\ Len(others) = Len(q) /\ i \in Nat /\ i <= Len(q)
    BY AloneCount
<1>. HIDE DEF start, alone, others, quiet
<1>3. After(start, alone, quiet, i) = After(start, others, quiet, i)
    BY <1>1, <1>2, AfterSame
<1>. QED BY <1>3 DEF Sampled, start, alone, others, quiet

\* One measurement of a sample.
LEMMA SampleMeasures ==
    ASSUME NEW r, NEW p, NEW q, NEW terminals, Ready(r, p, q, terminals),
           NEW k \in terminals \cup {0}, NEW i \in terminals, k < i, NoneBetween(q, k, i),
           NEW bits, NEW other, NEW bit, AgreeBefore(q, bits, other, i), other[i] = bit
    PROVE  /\ Touch(Sampled(r, q, bits, k), Crossing(q[i], i, Memory(q, bits, k + 1), bit))
                = Sampled(r, q, other, i)
           /\ Written(Memory(q, bits, k + 1), q[i].clbit, bit) = Memory(q, other, i + 1)
<1>. DEFINE n == Len(q)
<1>1. n \in Nat /\ Semantics!Measurements(q) = terminals /\ q[i].condition = {}
    BY DEF Ready
<1>2. i \in 1..n /\ i \in Nat /\ q[i].kind = "measure" /\ k \in 0..n /\ k \in Nat
    BY <1>1, MeasurementsAre
<1>3. /\ i - 1 \in k..n /\ i - 1 \in 0..n /\ i - 1 + 1 = i /\ k + 1 \in Nat /\ k + 1 <= i
    BY <1>1, <1>2
<1>4. Sampled(r, q, bits, i - 1) = Sampled(r, q, bits, k) /\ Memory(q, bits, i) = Memory(q, bits, k + 1)
  <2>1. NoneBetween(q, k, i - 1 + 1)
      BY <1>3
  <2>2. Memory(q, bits, i - 1 + 1) = Memory(q, bits, k + 1)
      BY <1>1, <1>2, <1>3, <2>1, SampleStays
  <2>3. Sampled(r, q, bits, i - 1) = Sampled(r, q, bits, k)
      BY <1>1, <1>2, <1>3, <2>1, SampleStays
  <2>. QED BY <1>3, <2>2, <2>3
<1>5. Sampled(r, q, bits, i - 1) = Sampled(r, q, other, i - 1)
  <2>1. AgreeBefore(q, bits, other, i - 1 + 1)
      BY <1>3
  <2>. QED BY <1>1, <1>3, <2>1, SampleSame
<1>6. Memory(q, bits, i) = Memory(q, other, i)
    BY <1>1, <1>2, MemorySame
<1>7. Memory(q, other, i + 1) = Written(Memory(q, other, i), q[i].clbit, bit)
    BY <1>1, <1>2, MemoryWritten
<1>8. Crossing(q[i], i, Memory(q, other, i), bit) = Semantics!Operation(q, other, i)
    BY <1>1, <1>2, CrossingIs
<1>9. Sampled(r, q, other, i) = Touch(Sampled(r, q, other, i - 1), Semantics!Operation(q, other, i))
  <2>. DEFINE start == History(r, q, Zero(q), Deferred, n)
              alone == Alone(q, other)
              quiet == Silence(q)
              past == After(start, alone, quiet, i - 1)
  <2>1. alone[i] = Semantics!Operation(q, other, i) /\ quiet[i].on = {}
      BY <1>2, AloneAt
  <2>2. i \in 1..Len(alone) /\ Len(alone) \in Nat
      BY <1>1, <1>2, AloneCount
  <2>. HIDE DEF start, alone, quiet
  <2>3. After(start, alone, quiet, i) = Step(past, alone, quiet, i)
      BY <2>2, AfterUnfolds
  <2>. HIDE DEF past
  <2>4. Step(past, alone, quiet, i) = Touch(past, alone[i])
      BY <2>1, TouchIsState, TouchNothing DEF Step
  <2>. QED BY <2>1, <2>3, <2>4 DEF Sampled, start, alone, quiet, past
<1>. QED BY <1>4, <1>5, <1>6, <1>7, <1>8, <1>9

\* A sample with all its measurements is an outcome of the request.
LEMMA SampleIsOutcome ==
    ASSUME NEW p, NEW q, NEW terminals, Ready(runner, p, q, terminals),
           NEW k \in terminals \cup {0}, \A i \in terminals : ~(i > k), NEW bits
    PROVE  Semantics!Outcome(q, bits) =
              [state |-> Sampled(runner, q, bits, k), memory |-> Memory(q, bits, k + 1),
               frame |-> Frames(runner, p, Zero(p), Len(p))]
<1>. DEFINE n == Len(q)
<1>1. /\ n \in Nat /\ Semantics!Measurements(q) = terminals /\ Deferrable(runner, q)
      /\ Frames(runner, q, bits, n) = Frames(runner, p, Zero(p), Len(p))
    BY DEF Ready
<1>2. k \in 0..n /\ n \in k..n
    BY <1>1, MeasurementsAre
<1>3. NoneBetween(q, k, n + 1)
  <2>1. \A m \in terminals : m \in 1..n
      BY <1>1, MeasurementsAre
  <2>. QED BY <1>1, <1>2, <2>1 DEF NoneBetween
<1>4. Sampled(runner, q, bits, n) = Sampled(runner, q, bits, k)
      /\ Memory(q, bits, n + 1) = Memory(q, bits, k + 1)
    BY <1>1, <1>2, <1>3, SampleStays
<1>5. Sampled(runner, q, bits, n) = History(runner, q, bits, {}, n)
    BY <1>1, SampleIsHistory
<1>. QED BY <1>1, <1>4, <1>5, OutcomeIs
----------------------------------------------------------------------------
(* Samples start from the evolved state.                                   *)

LEMMA EndEvolutionSample ==
    CallInv /\ CursorInv /\ HeapInv /\ TraverseInv /\ EndEvolution => SampleInv'
<1>. SUFFICES ASSUME CallInv, CursorInv, HeapInv, TraverseInv, EndEvolution PROVE SampleInv'
    OBVIOUS
<1>1. /\ plan \in Plans /\ Len(plan) \in Nat /\ pending \in SUBSET Indices
      /\ at = Len(plan) + 1 /\ at - 1 = Len(plan)
    BY PlanLength DEF CallInv, CursorInv, EndEvolution
<1>2. IsSequence(heap) /\ context \in Contexts(Len(heap))
    BY DEF HeapInv
<1>. DEFINE flushed == Flush(heap, context)
            state == flushed.heap[flushed.context.state]
            needs == ~PreserveSource /\ terminal # {} /\ Shots > 1
            copy  == Copy(flushed.heap, flushed.context.state)
            kept  == IF needs THEN copy
                     ELSE [heap |-> flushed.heap, ref |-> flushed.context.state]
<1>3. /\ heap' = kept.heap /\ context' = flushed.context
      /\ source' = [flushed.context EXCEPT !.state = kept.ref]
      /\ pc = "traverse" /\ strategy' = strategy /\ strategy # "per_shot"
      /\ plan' = plan /\ runner' = runner
    BY DEF EndEvolution, call
<1>4. strategy # "batch" /\ Without(strategy) = Deferred /\ Deferred # {}
    BY <1>3 DEF CallInv, Without, Deferred
<1>5. /\ IsSequence(flushed.heap)
      /\ flushed.context \in Contexts(Len(flushed.heap))
      /\ flushed.context.state \in 1..Len(flushed.heap)
  <2>1. Follows(heap, context, flushed)
      BY <1>1, <1>2, FlushFollows
  <2>. QED BY <2>1 DEF Follows, Keeps, Contexts
<1>6. PICK bits \in [Semantics!Measurements(plan) -> Bits] :
          /\ Without(strategy) # {} => bits = Zero(plan)
          /\ Progress(runner, plan, Without(strategy), bits, at - 1, state, flushed.context)
    BY <1>1, <1>3, FlushTraverse
<1>7. Progress(runner, plan, Deferred, Zero(plan), Len(plan), state, flushed.context)
    BY <1>1, <1>4, <1>6
<1>8. /\ Keeps(flushed.heap, copy.heap, 0) /\ copy.heap[copy.ref] = state
    BY <1>5, CopyKeeps
<1>9. IF needs THEN kept = copy ELSE kept.heap = flushed.heap /\ kept.ref = flushed.context.state
    OBVIOUS
<1>. HIDE DEF flushed, copy, kept
<1>10. kept.heap[kept.ref] = state /\ kept.heap[flushed.context.state] = state
  <2>1. flushed.context.state # 0
      BY <1>5 DEF IsSequence
  <2>. QED BY <1>5, <1>8, <1>9, <2>1 DEF Keeps
<1>11. /\ heap'[source'.state] = state /\ heap'[context'.state] = state
       /\ source'.frame = flushed.context.frame
    BY <1>3, <1>5, <1>10 DEF Contexts
<1>. HIDE DEF state
<1>12. Memory(plan, Zero(plan), Len(plan) + 1) = ZeroMemory
  <2>1. Len(plan) + 1 \in Nat
      BY <1>1
  <2>. QED BY <1>1, <2>1, ZeroMemoryIs
<1>13. /\ state = Evolved /\ flushed.context.memory = ZeroMemory
       /\ flushed.context.frame = SharedFrame
    BY <1>7, <1>12 DEF Progress, Evolved, SharedFrame
<1>14. Evolved' = Evolved /\ SharedFrame' = SharedFrame
    BY <1>3 DEF Evolved, SharedFrame
<1>. QED BY <1>3, <1>4, <1>11, <1>13, <1>14 DEF SampleInv

\* The single region of a batch is the whole of what evolves.
LEMMA BatchEvolves ==
    ASSUME plan \in Plans, runner \in Runners, runner.batch, IsTerminalBatch
    PROVE  LET blocks == {i \in Indices : IsPulse(plan[i])} IN
           Evolve(Blank, blocks, 0, blocks) = Evolved /\ SharedFrame = {}
<1>. DEFINE blocks == {i \in Indices : IsPulse(plan[i])}
            n == Len(plan)
            top == Semantics!Latest(blocks)
            b == Zero(plan)
<1>1. n \in Nat /\ ~ runner.frames
    BY PlanLength, EngineAssumption
<1>2. SharedFrame = {}
    BY <1>1 DEF SharedFrame, Frames
<1>3. /\ blocks \in SUBSET (1..n) /\ blocks # {}
      /\ \A i \in 1..n : i \in blocks <=> plan[i].kind = "pulse"
      /\ \A i \in blocks : plan[i].condition = {}
      /\ \A i \in blocks : \A m \in 1..(i - 1) : plan[m].kind # "measure"
    BY DEF IsTerminalBatch, Indices, IsPulse, Semantics!IsPulse, IsMeasurement, Semantics!IsMeasurement
<1>4. \A i \in 1..n : i \notin blocks => plan[i].kind = "measure"
  <2>1. \A i \in 1..n : plan[i].kind \in {"pulse", "measure", "reset"} /\ plan[i].kind # "reset"
      BY PlansAreLowered DEF IsTerminalBatch, Indices
  <2>. QED BY <1>3, <2>1
<1>5. top \in blocks /\ top \in 1..n /\ \A i \in blocks : i <= top
  <2>1. top \in blocks \cup {0} /\ \A i \in blocks : i <= top
      BY <1>1, <1>3, LatestFacts
  <2>2. PICK i \in blocks : i \in 1..n
      BY <1>3
  <2>3. top # 0
      BY <2>1, <2>2
  <2>. QED BY <1>3, <2>1, <2>3
<1>. HIDE DEF top, blocks
<1>6. \A i \in 1..top : i \in blocks
  <2>. SUFFICES ASSUME NEW i \in 1..top, i \notin blocks PROVE FALSE
      OBVIOUS
  <2>1. i \in 1..n /\ i \in 1..(top - 1)
      BY <1>1, <1>5
  <2>. QED BY <1>3, <1>4, <1>5, <2>1
<1>7. blocks = 1..top /\ (0 + 1)..top = 1..top
  <2>1. \A i \in blocks : i \in 1..top
      BY <1>1, <1>3, <1>5
  <2>2. 0 + 1 = 1
      OBVIOUS
  <2>3. blocks = 1..top
      BY <1>6, <2>1
  <2>. QED BY <2>2, <2>3
<1>8. RegionOf(plan, 0, top) /\ 0 < top /\ (top = n \/ plan[top + 1].kind # "pulse")
  <2>1. top = n \/ (top + 1 \in 1..n /\ top + 1 \notin blocks)
      BY <1>1, <1>5
  <2>. QED BY <1>1, <1>3, <1>4, <1>5, <1>6, <2>1 DEF RegionOf
<1>9. Clock(plan, 0) = 0
  <2>1. {i \in 1..0 : plan[i].kind = "pulse"} = {}
      OBVIOUS
  <2>2. Semantics!Latest({}) = 0
      BY LatestIs
  <2>. QED BY <2>1, <2>2 DEF Clock
<1>10. Enabled(blocks, Memory(plan, b, 0 + 1)) = blocks
    BY <1>3 DEF Enabled, Matches
<1>11. History(runner, plan, b, Deferred, 0) = Blank
    BY <1>1, OperationCount, AfterStart DEF History
<1>12. "pulse" \notin Deferred
    BY DEF Deferred
<1>13. Evolve(Blank, blocks, 0, blocks) = History(runner, plan, b, Deferred, top)
  <2>1. Evolve(History(runner, plan, b, Deferred, 0), (0 + 1)..top, Clock(plan, 0),
               Enabled((0 + 1)..top, Memory(plan, b, 0 + 1)))
          = History(runner, plan, b, Deferred, top)
      BY <1>8, <1>12, RegionEvolves
  <2>. QED BY <1>7, <1>9, <1>10, <1>11, <2>1
<1>14. History(runner, plan, b, Deferred, n) = History(runner, plan, b, Deferred, top)
  <2>. DEFINE operations == Operations(plan, b, Deferred)
              noise == Noise(runner, plan)
  <2>1. \A i \in (top + 1)..n : Silent(operations, noise, i)
    <3>. SUFFICES ASSUME NEW i \in (top + 1)..n PROVE Silent(operations, noise, i)
        OBVIOUS
    <3>1. i \in 1..n /\ i \notin blocks
        BY <1>1, <1>5
    <3>2. plan[i].kind = "measure" /\ plan[i].kind \in Deferred
        BY <1>4, <3>1 DEF Deferred
    <3>3. operations[i].on = {} /\ noise[i].on = {}
        BY <3>1, <3>2, OperationsAt, NoiseAt
    <3>. HIDE DEF operations, noise
    <3>. QED BY <3>3 DEF Silent
  <2>2. Len(operations) = n /\ top \in 0..n /\ n \in top..n
      BY <1>1, <1>5, OperationCount
  <2>. HIDE DEF operations, noise
  <2>3. After(Blank, operations, noise, n) = After(Blank, operations, noise, top)
      BY <1>1, <2>1, <2>2, BlankIsState, AfterSilence
  <2>. QED BY <2>3 DEF History, operations, noise
<1>. QED BY <1>2, <1>13, <1>14 DEF Evolved, blocks, b

LEMMA BatchSample == CallInv /\ StrategyInv /\ RunTrajectoryBatch => SampleInv'
<1>. SUFFICES ASSUME CallInv, StrategyInv, RunTrajectoryBatch PROVE SampleInv'
    OBVIOUS
<1>. DEFINE blocks == {i \in Indices : IsPulse(plan[i])}
            evolved == Evolve(Blank, blocks, 0, blocks)
            time == Semantics!Latest(blocks)
<1>1. /\ heap' = [n \in 1..Shots |-> evolved] /\ source' = [Fresh(1) EXCEPT !.time = time]
      /\ pc = "batch" /\ strategy' = strategy /\ plan' = plan /\ runner' = runner
    BY DEF RunTrajectoryBatch, call
<1>2. strategy = "batch" /\ plan \in Plans /\ runner \in Runners /\ runner.batch /\ IsTerminalBatch
    BY <1>1 DEF CallInv, StrategyInv
<1>3. evolved = Evolved /\ SharedFrame = {}
    BY <1>2, BatchEvolves
<1>4. Evolved' = Evolved /\ SharedFrame' = SharedFrame
    BY <1>1 DEF Evolved, SharedFrame
<1>5. source'.frame = {}
    BY <1>1 DEF Fresh
<1>. HIDE DEF evolved, time
<1>6. \A n \in 1..Shots : heap'[n] = Evolved
    BY <1>1, <1>3
<1>. QED BY <1>1, <1>2, <1>3, <1>4, <1>5, <1>6 DEF SampleInv

LEMMA StartSampleValues ==
    QuietCall /\ CallInv /\ CountInv /\ HeapInv /\ SourceInv /\ StrategyInv /\ SampleInv /\ StartSample
      => SampleInv' /\ MeasureInv'
<1>. SUFFICES ASSUME QuietCall, CallInv, CountInv, HeapInv, SourceInv, StrategyInv, SampleInv, StartSample
              PROVE  SampleInv' /\ MeasureInv'
    OBVIOUS
<1>. DEFINE reuses == strategy = "fast" /\ Drawn = 0
            from == IF strategy = "batch" THEN Drawn + 1 ELSE source.state
            copy == Copy(heap, from)
            q == Requests[group]
<1>1. /\ pc = "sample" /\ pc' = "measure" /\ cursor' = 0
      /\ strategy' = strategy /\ source' = source /\ group' = group
      /\ plan' = plan /\ runner' = runner /\ Requests' = Requests
    BY DEF StartSample, call, Requests
<1>2. IF reuses THEN heap' = heap /\ context' = context
      ELSE /\ heap' = copy.heap
           /\ context' = [Fresh(copy.ref) EXCEPT !.frame = source.frame, !.time = source.time]
    BY DEF StartSample
<1>3. Evolved' = Evolved /\ SharedFrame' = SharedFrame
    BY <1>1 DEF Evolved, SharedFrame
<1>4. strategy \in {"fast", "groups", "batch"}
    BY <1>1 DEF CallInv
<1>5. IsSequence(heap) /\ Len(heap) \in Nat /\ source.state \in 1..Len(heap)
    BY DEF HeapInv, IsSequence, Contexts
<1>6. Drawn \in Nat /\ Drawn < Shots /\ Shots \in Nat /\ group \in 1..Len(Requests)
    BY <1>1, EngineAssumption DEF CountInv, Drawn, IsSequence
<1>7. strategy = "batch" => Len(heap) >= Shots
    BY <1>1 DEF SourceInv
<1>8. from \in 1..Len(heap)
    BY <1>5, <1>6, <1>7
<1>9. Keeps(heap, copy.heap, 0) /\ copy.heap[copy.ref] = heap[from]
    BY <1>5, <1>8, CopyKeeps
<1>10. ~ reuses => heap[from] = Evolved
  <2>1. CASE strategy = "batch"
    <3>1. Drawn + 1 \in 1..Shots /\ from = Drawn + 1
        BY <1>6, <2>1
    <3>. QED BY <1>1, <2>1, <3>1 DEF SampleInv
  <2>2. CASE strategy = "groups"
      BY <1>1, <2>2 DEF SampleInv
  <2>3. CASE strategy = "fast" /\ ~ reuses
    <3>1. Shots > 1 /\ from = source.state
        BY <1>6, <2>3
    <3>. QED BY <1>1, <2>3, <3>1 DEF SampleInv
  <2>. QED BY <1>4, <2>1, <2>2, <2>3
<1>. HIDE DEF copy, from
<1>11. \A n \in 1..Len(heap) : heap'[n] = heap[n]
  <2>1. \A n \in 1..Len(heap) : n # 0
      OBVIOUS
  <2>. QED BY <1>2, <1>9, <2>1 DEF Keeps
<1>12. SampleInv'
  <2>1. strategy = "batch" => \A n \in 1..Shots : n \in 1..Len(heap)
      BY <1>5, <1>6, <1>7
  <2>2. strategy = "batch" => \A n \in 1..Shots : heap'[n] = heap[n]
      BY <1>11, <2>1
  <2>3. heap'[source'.state] = heap[source.state]
      BY <1>1, <1>5, <1>11
  <2>. QED BY <1>1, <1>3, <2>2, <2>3 DEF SampleInv
<1>13. /\ heap'[context'.state] = Evolved
       /\ context'.memory = ZeroMemory /\ context'.frame = SharedFrame
  <2>1. CASE reuses
      BY <1>1, <1>2, <2>1 DEF SampleInv
  <2>2. CASE ~ reuses
    <3>1. context'.state = copy.ref /\ context'.frame = source.frame /\ context'.memory = ZeroMemory
        BY <1>2, <2>2 DEF Fresh, ZeroMemory
    <3>2. source.frame = SharedFrame
        BY <1>1 DEF SampleInv
    <3>. QED BY <1>2, <1>9, <1>10, <2>2, <3>1, <3>2
  <2>. QED BY <2>1, <2>2
<1>14. Ready(runner, plan, q, terminal)
    BY <1>4, <1>6, RequestReady
<1>. DEFINE state == heap'[context'.state]
            c == context'
<1>. HIDE DEF state, c, q
<1>15. /\ Sampled(runner, q, Zero(q), 0) = Evolved /\ Memory(q, Zero(q), 0 + 1) = ZeroMemory
    BY <1>14, SampleStarts DEF Evolved
<1>16. /\ state = Sampled(runner, q, Zero(q), 0) /\ c.memory = Memory(q, Zero(q), 0 + 1)
       /\ c.frame = Frames(runner, plan, Zero(plan), Len(plan))
    BY <1>13, <1>15 DEF state, c, SharedFrame
<1>17. Measuring(runner, plan, q, 0, state, c)
    BY <1>16, ZeroIs DEF Measuring
<1>. QED BY <1>1, <1>12, <1>17 DEF MeasureInv, state, c, q

LEMMA MeasureValues ==
    QuietCall /\ CallInv /\ CursorInv /\ CountInv /\ HeapInv /\ SourceInv /\ StrategyInv
      /\ SampleInv /\ MeasureInv /\ MeasureTerminal => SampleInv' /\ MeasureInv'
<1>. SUFFICES ASSUME QuietCall, CallInv, CursorInv, CountInv, HeapInv, SourceInv, StrategyInv,
                     SampleInv, MeasureInv, MeasureTerminal
              PROVE  SampleInv' /\ MeasureInv'
    OBVIOUS
<1>. DEFINE q == Requests[group]
<1>1. PICK i \in Ahead, bit \in Bits :
          /\ \A j \in Ahead : i <= j
          /\ heap' = Boundary(heap, context, i, bit).heap
          /\ context' = Boundary(heap, context, i, bit).context
          /\ cursor' = i
    BY DEF MeasureTerminal
<1>2. /\ pc = "measure" /\ pc' = "measure"
      /\ strategy' = strategy /\ source' = source /\ group' = group
      /\ plan' = plan /\ runner' = runner /\ Requests' = Requests
    BY DEF MeasureTerminal, call, Requests
<1>3. Evolved' = Evolved /\ SharedFrame' = SharedFrame
    BY <1>2 DEF Evolved, SharedFrame
<1>4. strategy \in {"fast", "groups", "batch"}
    BY <1>2 DEF CallInv
<1>5. /\ IsSequence(heap) /\ Len(heap) \in Nat /\ context \in Contexts(Len(heap))
      /\ source.state \in 1..Len(heap)
    BY DEF HeapInv, IsSequence, Contexts
<1>6. Shots \in Nat /\ group \in 1..Len(Requests)
    BY EngineAssumption DEF CountInv
<1>7. i \in terminal /\ i > cursor /\ \A j \in terminal : j > cursor => i <= j
    BY <1>1 DEF Ahead
<1>. DEFINE done == Boundary(heap, context, i, bit)
<1>8. Keeps(heap, done.heap, context.state)
  <2>1. Follows(heap, context, done)
      BY <1>5, BoundaryFollows
  <2>. QED BY <2>1 DEF Follows
<1>9. Crossed(done, heap[context.state], context, StepAt(i), i, bit)
    BY <1>5, BoundaryCrosses
<1>10. heap' = done.heap /\ context' = done.context
    BY <1>1
<1>. HIDE DEF done
<1>11. \A n \in 1..Len(heap) : n # context.state => heap'[n] = heap[n]
    BY <1>8, <1>10 DEF Keeps
<1>12. SampleInv'
  <2>1. strategy = "batch" => \A n \in 1..Shots : heap'[n] = heap[n]
    <3>1. strategy = "batch" => Len(heap) >= Shots /\ context.state > Shots
        BY <1>2 DEF SourceInv
    <3>2. strategy = "batch" => \A n \in 1..Shots : n \in 1..Len(heap) /\ n # context.state
        BY <1>5, <1>6, <3>1 DEF Contexts
    <3>. QED BY <1>11, <3>2
  <2>2. strategy = "groups" \/ (strategy = "fast" /\ Shots > 1) =>
            heap'[source'.state] = heap[source.state]
    <3>1. strategy = "groups" \/ (strategy = "fast" /\ Shots > 1) => context.state # source.state
        BY <1>2, <1>7 DEF SourceInv
    <3>. QED BY <1>2, <1>5, <1>11, <3>1
  <2>. QED BY <1>2, <1>3, <2>1, <2>2 DEF SampleInv
<1>13. PICK bits \in [Semantics!Measurements(q) -> Bits] :
          /\ heap[context.state] = Sampled(runner, q, bits, cursor)
          /\ context.memory = Memory(q, bits, cursor + 1)
          /\ context.frame = Frames(runner, plan, Zero(plan), Len(plan))
    BY <1>2 DEF MeasureInv, Measuring
<1>14. Ready(runner, plan, q, terminal) /\ StepAt(i) = q[i]
    BY <1>4, <1>6, <1>7, RequestReady
<1>. HIDE DEF q
<1>15. /\ Semantics!Measurements(q) = terminal /\ Len(q) \in Nat
       /\ i \in 1..Len(q) /\ q[i].kind = "measure"
  <2>1. Semantics!Measurements(q) = terminal /\ Len(q) \in Nat
      BY <1>14 DEF Ready
  <2>. QED BY <1>7, <2>1, MeasurementsAre
<1>16. cursor \in terminal \cup {0} /\ cursor < i /\ NoneBetween(q, cursor, i)
  <2>1. cursor \in terminal \cup {0} /\ \A m \in terminal : m \in Nat
      BY <1>15, MeasurementsAre DEF CursorInv
  <2>2. i \in Nat /\ cursor \in Nat
      BY <1>7, <2>1
  <2>. QED BY <1>7, <1>15, <2>1, <2>2 DEF NoneBetween
<1>. DEFINE other == [bits EXCEPT ![i] = bit]
<1>17. other \in [Semantics!Measurements(q) -> Bits] /\ other[i] = bit
    BY <1>7, <1>15
<1>18. AgreeBefore(q, bits, other, i)
  <2>1. \A m \in Semantics!Measurements(q) : m < i => bits[m] = other[m]
      BY <1>15
  <2>. HIDE DEF other
  <2>. QED BY <2>1 DEF AgreeBefore
<1>. HIDE DEF other
<1>19. /\ Touch(Sampled(runner, q, bits, cursor), Crossing(q[i], i, Memory(q, bits, cursor + 1), bit))
            = Sampled(runner, q, other, i)
       /\ Written(Memory(q, bits, cursor + 1), q[i].clbit, bit) = Memory(q, other, i + 1)
    BY <1>7, <1>14, <1>16, <1>17, <1>18, SampleMeasures
<1>20. /\ heap'[context'.state] = Sampled(runner, q, other, i)
       /\ context'.memory = Memory(q, other, i + 1)
       /\ context'.frame = Frames(runner, plan, Zero(plan), Len(plan))
    BY <1>9, <1>10, <1>13, <1>14, <1>15, <1>19 DEF Crossed
<1>. DEFINE state == heap'[context'.state]
            c == context'
<1>. HIDE DEF state, c
<1>21. Measuring(runner, plan, q, i, state, c)
    BY <1>17, <1>20 DEF Measuring, state, c
<1>. QED BY <1>1, <1>2, <1>12, <1>21 DEF MeasureInv, state, c, q
----------------------------------------------------------------------------
(* What is handed out.                                                     *)

Handed(q, outcome) == \E bits \in [Semantics!Measurements(q) -> Bits] :
                         outcome = Semantics!Outcome(q, bits)

\* A sample that is measured to the end.
LEMMA FinishOutcome ==
    ASSUME QuietCall, CallInv, CursorInv, CountInv, StrategyInv, MeasureInv, FinishSample
    PROVE  Handed(Requests[group], Payload(heap, context))
<1>. DEFINE q == Requests[group]
            payload == Payload(heap, context)
<1>1. pc = "measure" /\ Ahead = {} /\ strategy \in {"fast", "groups", "batch"}
      /\ group \in 1..Len(Requests)
    BY DEF FinishSample, CallInv, CountInv
<1>2. PICK bits \in [Semantics!Measurements(q) -> Bits] :
          /\ heap[context.state] = Sampled(runner, q, bits, cursor)
          /\ context.memory = Memory(q, bits, cursor + 1)
          /\ context.frame = Frames(runner, plan, Zero(plan), Len(plan))
    BY <1>1 DEF MeasureInv, Measuring
<1>3. Ready(runner, plan, q, terminal)
    BY <1>1, RequestReady
<1>4. cursor \in terminal \cup {0} /\ \A i \in terminal : ~(i > cursor)
    BY <1>1 DEF CursorInv, Ahead
<1>. HIDE DEF q
<1>5. Semantics!Outcome(q, bits) =
         [state |-> Sampled(runner, q, bits, cursor), memory |-> Memory(q, bits, cursor + 1),
          frame |-> Frames(runner, plan, Zero(plan), Len(plan))]
    BY <1>3, <1>4, SampleIsOutcome
<1>6. payload = Semantics!Outcome(q, bits)
    BY <1>2, <1>5 DEF Payload
<1>. HIDE DEF payload
<1>7. Handed(q, payload)
    BY <1>6 DEF Handed
<1>. QED BY <1>7 DEF q, payload

\* A shot that is replayed to the end.
LEMMA EndShotOutcome ==
    ASSUME CallInv, CursorInv, CountInv, HeapInv, TraverseInv, EndShot
    PROVE  Handed(Requests[group], Payload(Flush(heap, context).heap, Flush(heap, context).context))
<1>. DEFINE flushed == Flush(heap, context)
            state == flushed.heap[flushed.context.state]
            c == flushed.context
            payload == Payload(flushed.heap, flushed.context)
<1>1. /\ plan \in Plans /\ Len(plan) \in Nat /\ at = Len(plan) + 1 /\ at - 1 = Len(plan)
      /\ pc = "traverse" /\ strategy = "per_shot" /\ Without(strategy) = {}
    BY PlanLength DEF CallInv, CursorInv, EndShot, Without
<1>2. Requests[group] = plan
  <2>1. api # "groups" /\ group \in 1..Len(Requests)
      BY <1>1 DEF CallInv, CountInv
  <2>. QED BY <2>1, RequestIs
<1>3. PICK bits \in [Semantics!Measurements(plan) -> Bits] :
          Progress(runner, plan, Without(strategy), bits, at - 1, state, c)
    BY <1>1, FlushTraverse
<1>4. payload = [state |-> state, memory |-> c.memory, frame |-> c.frame]
    BY DEF Payload
<1>. HIDE DEF state, c, payload, flushed
<1>5. Progress(runner, plan, {}, bits, Len(plan), state, c)
    BY <1>1, <1>3
<1>6. payload = Semantics!Outcome(plan, bits)
    BY <1>4, <1>5, OutcomeIs DEF Progress
<1>7. Handed(plan, payload)
    BY <1>6 DEF Handed
<1>. QED BY <1>2, <1>7 DEF payload, flushed

LEMMA FinishValues ==
    CallInv /\ CountInv /\ SampleInv /\ FinishSample => SampleInv'
<1>. SUFFICES ASSUME CallInv, CountInv, SampleInv, FinishSample PROVE SampleInv'
    OBVIOUS
<1>1. /\ pc = "measure" /\ strategy' = strategy /\ source' = source /\ heap' = heap
      /\ plan' = plan /\ runner' = runner /\ Answer(Payload(heap, context))
    BY DEF FinishSample, call
<1>2. Evolved' = Evolved /\ SharedFrame' = SharedFrame
    BY <1>1 DEF Evolved, SharedFrame
<1>3. CASE strategy = "fast"
  <2>1. api # "groups"
      BY <1>3 DEF CallInv
  <2>2. group = 1 /\ Len(delivered) = 1
      BY <2>1, RequestCount DEF CountInv
  <2>3. group' = group
      BY <2>2 DEF FinishSample
  <2>4. Len(delivered'[group]) = Len(delivered[group]) + 1 /\ Len(delivered[group]) \in Nat
      BY <1>1, AnswerCounts DEF CountInv, IsSequence
  <2>5. Drawn' # 0
      BY <2>3, <2>4 DEF Drawn
  <2>. QED BY <1>1, <1>2, <1>3, <2>5 DEF SampleInv
<1>4. CASE strategy # "fast"
    BY <1>1, <1>2, <1>4 DEF SampleInv
<1>. QED BY <1>3, <1>4

LEMMA NextStrategy == CallInv /\ StrategyInv /\ [Next]_vars => StrategyInv'
<1>. SUFFICES ASSUME CallInv, StrategyInv, [Next]_vars PROVE StrategyInv'
    OBVIOUS
<1>1. /\ runner' = runner /\ api' = api /\ plan' = plan
      /\ (IsDynamic <=> IsDynamic') /\ (IsTerminalBatch <=> IsTerminalBatch')
      /\ AllMeasurements' = AllMeasurements
    BY CallStays DEF call, IsDynamic, IsTerminalBatch, AllMeasurements, TouchesMeasured, Indices
<1>2. CASE ChooseStrategy
    BY <1>1, <1>2 DEF ChooseStrategy, StrategyInv, CallInv
<1>3. CASE TakePulse \/ CrossBoundary
    BY <1>1, <1>3 DEF TakePulse, CrossBoundary, StrategyInv
<1>4. CASE EndShot
    BY <1>1, <1>4 DEF EndShot, StrategyInv
<1>5. CASE EndEvolution \/ RunTrajectoryBatch
    BY <1>1, <1>5 DEF EndEvolution, RunTrajectoryBatch, StrategyInv
<1>6. CASE StartSample \/ MeasureTerminal \/ FinishSample
    BY <1>1, <1>6 DEF StartSample, MeasureTerminal, FinishSample, StrategyInv
<1>7. CASE UNCHANGED vars
    BY <1>1, <1>7 DEF vars, StrategyInv
<1>. QED BY <1>2, <1>3, <1>4, <1>5, <1>6, <1>7 DEF Next

LEMMA NextOrder == CallInv /\ CountInv /\ OrderInv /\ [Next]_vars => OrderInv'
<1>. SUFFICES ASSUME CallInv, CountInv, OrderInv, [Next]_vars PROVE OrderInv'
    OBVIOUS
<1>1. Requests' = Requests /\ group \in 1..Len(Requests) /\ Len(Requests) \in Nat
    BY CallStays, RequestCount DEF CountInv
<1>2. CASE EndShot
  <2>1. pc # "returned" /\ Answer(Payload(Flush(heap, context).heap, Flush(heap, context).context))
        /\ group' = group
      BY <1>2 DEF EndShot
  <2>2. \A g \in 1..Len(Requests) : g # group => delivered'[g] = delivered[g]
      BY <2>1, AnswerCounts
  <2>. QED BY <1>1, <2>1, <2>2 DEF OrderInv
<1>3. CASE FinishSample
  <2>1. pc # "returned" /\ Answer(Payload(heap, context))
      BY <1>3 DEF FinishSample
  <2>2. /\ \A g \in 1..Len(Requests) : g # group => delivered'[g] = delivered[g]
        /\ Len(delivered'[group]) = Drawn + 1
      BY <2>1, AnswerCounts DEF Drawn
  <2>3. Drawn \in Nat /\ Drawn < Shots /\ Shots \in Nat
      BY <1>1, <2>1, EngineAssumption DEF CountInv, Drawn, IsSequence
  <2>4. group' = group \/ (group' = group + 1 /\ Drawn + 1 = Shots)
      BY <1>3, <2>3 DEF FinishSample
  <2>. QED BY <1>1, <2>2, <2>4 DEF OrderInv
<1>4. CASE ~ EndShot /\ ~ FinishSample
  <2>1. delivered' = delivered /\ group' = group
      BY <1>4 DEF Next, ChooseStrategy, TakePulse, CrossBoundary, EndEvolution,
             RunTrajectoryBatch, StartSample, MeasureTerminal, vars
  <2>. QED BY <1>1, <2>1 DEF OrderInv
<1>. QED BY <1>2, <1>3, <1>4

LEMMA InitValue == Init => ValueInv
<1>. SUFFICES ASSUME Init PROVE ValueInv
    OBVIOUS
<1>1. StrategyInv /\ TraverseInv /\ SampleInv /\ MeasureInv
    BY DEF Init, StrategyInv, TraverseInv, SampleInv, MeasureInv
<1>2. OrderInv
  <2>1. \A g \in 1..Len(Requests) : ~(g < 1)
      OBVIOUS
  <2>. QED BY <2>1 DEF Init, OrderInv
<1>. QED BY <1>1, <1>2 DEF ValueInv

LEMMA NextValue ==
    ASSUME QuietCall, Inv, ValueInv, [Next]_vars
    PROVE  ValueInv'
<1>. USE DEF Inv, ValueInv
<1>1. StrategyInv'
    BY NextStrategy
<1>2. OrderInv'
    BY NextOrder
<1>3. TraverseInv' /\ SampleInv' /\ MeasureInv'
  <2>1. CASE ChooseStrategy
    <3>1. pc' \in {"batch", "traverse"}
        BY <2>1 DEF ChooseStrategy
    <3>. QED BY <2>1, <3>1, ChooseTraverse DEF SampleInv, MeasureInv
  <2>2. CASE TakePulse
    <3>1. pc' = "traverse"
        BY <2>2 DEF TakePulse
    <3>. QED BY <2>2, <3>1, TakeTraverse DEF SampleInv, MeasureInv
  <2>3. CASE CrossBoundary
    <3>1. pc' = "traverse"
        BY <2>3 DEF CrossBoundary
    <3>. QED BY <2>3, <3>1, CrossTraverse DEF SampleInv, MeasureInv
  <2>4. CASE EndShot
    <3>1. pc' \in {"returned", "traverse"}
        BY <2>4 DEF EndShot
    <3>. QED BY <2>4, <3>1, EndShotTraverse DEF SampleInv, MeasureInv
  <2>5. CASE EndEvolution
    <3>1. pc' = "sample"
        BY <2>5 DEF EndEvolution
    <3>. QED BY <2>5, <3>1, EndEvolutionSample DEF TraverseInv, MeasureInv
  <2>6. CASE RunTrajectoryBatch
    <3>1. pc' = "sample"
        BY <2>6 DEF RunTrajectoryBatch
    <3>. QED BY <2>6, <3>1, BatchSample DEF TraverseInv, MeasureInv
  <2>7. CASE StartSample
    <3>1. pc' = "measure"
        BY <2>7 DEF StartSample
    <3>. QED BY <2>7, <3>1, StartSampleValues DEF TraverseInv
  <2>8. CASE MeasureTerminal
    <3>1. pc' = "measure"
        BY <2>8 DEF MeasureTerminal
    <3>. QED BY <2>8, <3>1, MeasureValues DEF TraverseInv
  <2>9. CASE FinishSample
    <3>1. pc' \in {"sample", "returned"}
        BY <2>9 DEF FinishSample
    <3>. QED BY <2>9, <3>1, FinishValues DEF TraverseInv, MeasureInv
  <2>10. CASE UNCHANGED vars
    <3>1. Requests' = Requests
        BY CallStays
    <3>. QED BY <2>10, <3>1 DEF vars, call, TraverseInv, SampleInv, MeasureInv,
                                 Evolved, SharedFrame, Drawn
  <2>. QED BY <2>1, <2>2, <2>3, <2>4, <2>5, <2>6, <2>7, <2>8, <2>9, <2>10 DEF Next
<1>. QED BY <1>1, <1>2, <1>3
----------------------------------------------------------------------------
(* Every step of the engine is one of the contract, or none.               *)

LEMMA InitSemantics == CallInv /\ Init => Semantics!Init
<1>. SUFFICES ASSUME CallInv, Init PROVE Semantics!Init
    OBVIOUS
<1>1. DOMAIN Requests = 1..Len(Requests)
    BY RequestCount
<1>. QED BY <1>1 DEF Init, Semantics!Init

LEMMA AnswerDelivers ==
    ASSUME CallInv, CountInv, OrderInv, pc # "returned",
           runner' = runner, Requests' = Requests,
           NEW outcome, Handed(Requests[group], outcome), Answer(outcome),
           pc' = "returned" <=> Len(delivered[group]) + 1 = Shots /\ group = Len(Requests)
    PROVE  Semantics!Next
<1>. DEFINE n == Len(Requests)
            k == Len(delivered[group])
<1>1. n \in Nat /\ group \in 1..n /\ Shots \in Nat \ {0}
    BY RequestCount, EngineAssumption DEF CountInv
<1>2. k \in Nat /\ k < Shots
    BY <1>1 DEF CountInv, IsSequence
<1>3. DOMAIN Requests = 1..n
    BY RequestCount
<1>4. /\ \A g \in 1..n : g # group => delivered'[g] = delivered[g]
      /\ Len(delivered'[group]) = k + 1
    BY AnswerCounts
<1>5. \A g \in 1..n : g < group => Len(delivered[g]) = Shots
    BY DEF OrderInv
<1>6. \A g \in 1..n : g > group => delivered[g] = <<>>
    BY DEF CountInv
<1>7. pc' = "returned" <=> k + 1 = Shots /\ group = n
    OBVIOUS
<1>8. \E bits \in [Semantics!Measurements(Requests[group]) -> Semantics!Bits] :
         delivered' = [delivered EXCEPT ![group] = Append(@, Semantics!Outcome(Requests[group], bits))]
    BY DEF Handed, Answer, Bits
<1>. HIDE DEF n
<1>9. \A g \in 1..(group - 1) : g \in 1..n /\ g < group
    BY <1>1
<1>10. pc' = "returned" <=> \A g \in 1..n : Len(delivered'[g]) = Shots
  <2>1. CASE group = n
    <3>1. \A g \in 1..n : g # group => g < group
        BY <1>1, <2>1
    <3>2. \A g \in 1..n : g # group => Len(delivered'[g]) = Shots
        BY <1>4, <1>5, <3>1
    <3>. QED BY <1>1, <1>4, <1>7, <2>1, <3>2
  <2>2. CASE group # n
    <3>1. group + 1 \in 1..n /\ group + 1 > group /\ group + 1 # group
        BY <1>1, <2>2
    <3>2. delivered'[group + 1] = <<>>
        BY <1>4, <1>6, <3>1
    <3>3. Len(delivered'[group + 1]) # Shots
        BY <1>1, <3>2
    <3>. QED BY <1>7, <2>2, <3>1, <3>3
  <2>. QED BY <2>1, <2>2
<1>11. ~ Semantics!Full(group)
    BY <1>1, <1>2 DEF Semantics!Full
<1>12. \A earlier \in 1..(group - 1) : Semantics!Full(earlier)
    BY <1>5, <1>9 DEF Semantics!Full
<1>13. (pc = "returned")' = \A h \in DOMAIN Requests : Len(delivered'[h]) = Shots
    BY <1>3, <1>10
<1>. HIDE DEF k
<1>14. Semantics!Deliver(group)
    BY <1>8, <1>11, <1>12, <1>13 DEF Semantics!Deliver
<1>. QED BY <1>1, <1>3, <1>14 DEF Semantics!Next

LEMMA NextSemantics ==
    ASSUME QuietCall, Inv, ValueInv, [Next]_vars
    PROVE  [Semantics!Next]_<<runner, Requests, delivered, pc = "returned">>
<1>. USE DEF Inv, ValueInv
<1>1. runner' = runner /\ Requests' = Requests
    BY CallStays DEF call
<1>2. Len(delivered) = Len(Requests) /\ Len(Requests) \in Nat /\ group \in 1..Len(Requests)
    BY RequestCount DEF CountInv
<1>3. CASE EndShot
  <2>1. /\ pc = "traverse" /\ strategy = "per_shot"
        /\ Answer(Payload(Flush(heap, context).heap, Flush(heap, context).context))
        /\ pc' = "returned" <=> Len(delivered[group]) + 1 = Shots
      BY <1>3 DEF EndShot
  <2>2. group = Len(Requests)
    <3>1. Len(Requests) = 1
        BY <2>1, RequestCount DEF CallInv
    <3>. QED BY <1>2, <3>1
  <2>3. Handed(Requests[group], Payload(Flush(heap, context).heap, Flush(heap, context).context))
      BY <1>3, EndShotOutcome
  <2>. DEFINE outcome == Payload(Flush(heap, context).heap, Flush(heap, context).context)
  <2>. HIDE DEF outcome
  <2>. QED BY <1>1, <2>1, <2>2, <2>3, AnswerDelivers DEF outcome
<1>4. CASE FinishSample
  <2>1. pc = "measure" /\ Answer(Payload(heap, context))
      BY <1>4 DEF FinishSample
  <2>2. Handed(Requests[group], Payload(heap, context))
      BY <1>4, FinishOutcome
  <2>3. Drawn \in Nat /\ Drawn < Shots /\ Shots \in Nat
      BY <1>2, <2>1, EngineAssumption DEF CountInv, Drawn, IsSequence
  <2>4. pc' = "returned" <=> Drawn + 1 = Shots /\ group = Len(Requests)
      BY <1>2, <1>4, <2>3 DEF FinishSample
  <2>. QED BY <1>1, <2>1, <2>2, <2>4, AnswerDelivers DEF Drawn
<1>5. CASE ~ EndShot /\ ~ FinishSample
  <2>1. delivered' = delivered /\ (pc' = "returned" <=> pc = "returned")
      BY <1>5 DEF Next, ChooseStrategy, TakePulse, CrossBoundary, EndEvolution,
             RunTrajectoryBatch, StartSample, MeasureTerminal, vars
  <2>. QED BY <1>1, <2>1
<1>. QED BY <1>3, <1>4, <1>5

LEMMA NextQuiet == QuietCall /\ [Next]_vars => QuietCall'
    BY CallStays DEF call, QuietCall, PulsesFirst, IsDynamic, TouchesMeasured, Indices

\* For every call of the engine, whatever the plan, the terminal groups, the number
\* of shots and the runner, other than those whose deferred measurements background
\* noise overtakes: what the engine hands out, strategy by strategy and state object
\* by state object, are outcomes of independent runs of the plan in source order,
\* Shots of them per request and the requests in turn, and the call returns with the
\* last one.  Deferred measurements, shared evolution, copies, batches and in-place
\* updates cannot be told from executing every shot from the start
\* (engine.py:137-451, _execution_analysis.py:31-37).
THEOREM ImplementsSemanticsForAll == Spec /\ QuietCall => ImplementsSemantics
<1>1. Init => Inv /\ ValueInv /\ Semantics!Init
    BY InitInv, InitValue, InitSemantics DEF Inv
<1>2. QuietCall /\ Inv /\ ValueInv /\ [Next]_vars => QuietCall' /\ Inv' /\ ValueInv'
    BY NextQuiet, NextInv, NextValue
<1>3. QuietCall /\ Inv /\ ValueInv /\ [Next]_vars
         => [Semantics!Next]_<<runner, Requests, delivered, pc = "returned">>
    BY NextSemantics
<1>. QED BY <1>1, <1>2, <1>3, PTL DEF Spec, ImplementsSemantics, Semantics!Spec
=============================================================================
