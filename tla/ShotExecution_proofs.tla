------------------------ MODULE ShotExecution_proofs ------------------------
(***************************************************************************)
(* The seed decides the rows of a call, and every answer is one that the   *)
(* contract allows, for every plan, number of shots, number of workers and *)
(* scheduling of the batches.                                              *)
(*                                                                         *)
(* A shot's row is the end of a recursion over the plan, and the proof     *)
(* compares every runner, at every moment, with that recursion: whatever   *)
(* the other runners did, runner b is where the shot it is in would be if  *)
(* it ran alone on its own stream.  What makes this hold is that a shot    *)
(* reads no draw but its own, and never more of them than were provided.   *)
(*                                                                         *)
(* The contract states a run in another form, by what chance decides in    *)
(* it, and by which writer of a clbit is the last.  A shot on a stream,    *)
(* and a sampled index of a single pass, are each given the chance they    *)
(* stand for, and shown step by step to reach the contract's histories     *)
(* and cells.                                                              *)
(***************************************************************************)
EXTENDS ShotExecution, WellFoundedInduction, SequenceTheorems, TLAPS

-----------------------------------------------------------------------------
(* Recursion over the naturals.                                            *)

LEMMA LeastNatural ==
    ASSUME NEW S \in SUBSET Nat, S # {}
    PROVE  \E x \in S : \A y \in S : x <= y
<1>1. PICK R : IsWellFoundedOn(R, Nat) /\ \A a, b \in Nat : a < b => <<a, b>> \in R
  <2>1. \A a, b \in Nat : a < b => <<a, b>> \in OpToRel(<, Nat)
      BY DEF OpToRel
  <2>. QED BY <2>1, NatLessThanWellFounded
<1>2. S \subseteq Nat
    OBVIOUS
<1>3. IsWellFoundedOn(R, Nat)
    BY <1>1
<1>4. \E x \in S : \A y \in S : ~ (<<y, x>> \in R)
    BY <1>2, <1>3, WFMin
<1>5. PICK x \in S : \A y \in S : ~ (<<y, x>> \in R)
    BY <1>4
<1>6. \A y \in S : y \in Nat /\ ~(y < x) /\ x \in Nat
    BY <1>1, <1>5
<1>. QED BY <1>5, <1>6

\* What holds of 0, and of k + 1 if of k, holds up to n.
LEMMA UpTo ==
    ASSUME NEW n \in Nat, NEW Good \in SUBSET (0..n),
           0 \in Good,
           \A k \in 0..n : k + 1 \in 0..n /\ k \in Good => k + 1 \in Good
    PROVE  \A k \in 0..n : k \in Good
<1>. SUFFICES ASSUME (0..n) \ Good # {} PROVE FALSE
    OBVIOUS
<1>. DEFINE Bad == (0..n) \ Good
<1>1. Bad \in SUBSET Nat /\ Bad # {}
    OBVIOUS
<1>2. PICK k \in Bad : \A m \in Bad : k <= m
  <2>. HIDE DEF Bad
  <2>. QED BY <1>1, LeastNatural
<1>3. k \in 0..n /\ k \notin Good /\ k # 0
    OBVIOUS
<1>4. k - 1 \in 0..n /\ ~(k <= k - 1)
    BY <1>3
<1>5. k - 1 \in Good
    BY <1>2, <1>4
<1>6. (k - 1) + 1 = k
    BY <1>3
<1>. QED BY <1>3, <1>4, <1>5, <1>6

\* The draws of the first steps add up.
LEMMA SpentUnfolds ==
    ASSUME NEW p, Len(p) \in Nat, NEW kinds
    PROVE  /\ Spent(p, kinds)[0] = 0
           /\ \A k \in 1..Len(p) :
                 Spent(p, kinds)[k] = Spent(p, kinds)[k - 1] + Cost(p[k], kinds)
<1>. DEFINE Solves(f, n) ==
        f = [k \in 0..n |-> IF k = 0 THEN 0 ELSE f[k - 1] + Cost(p[k], kinds)]
<1>1. ASSUME NEW n \in Nat, NEW f, Solves(f, n)
      PROVE  \E g : Solves(g, n + 1)
  <2>. DEFINE g == [k \in 0..(n + 1) |-> IF k = n + 1 THEN f[n] + Cost(p[n + 1], kinds) ELSE f[k]]
              h == [k \in 0..(n + 1) |-> IF k = 0 THEN 0 ELSE g[k - 1] + Cost(p[k], kinds)]
  <2>1. ASSUME NEW k \in 0..(n + 1) PROVE g[k] = h[k]
    <3>1. CASE k = n + 1
        BY <3>1
    <3>2. CASE k # n + 1
      <4>1. k \in 0..n /\ (k # 0 => k - 1 \in 0..n /\ k - 1 # n + 1)
          BY <3>2
      <4>2. f[k] = IF k = 0 THEN 0 ELSE f[k - 1] + Cost(p[k], kinds)
          BY <1>1, <4>1
      <4>. QED BY <3>2, <4>1, <4>2
    <3>. QED BY <3>1, <3>2
  <2>2. g = [k \in 0..(n + 1) |-> g[k]] /\ h = [k \in 0..(n + 1) |-> h[k]]
      OBVIOUS
  <2>3. g = h
    <3>. HIDE DEF g, h
    <3>. QED BY <2>1, <2>2
  <2>. HIDE DEF g
  <2>. QED BY <2>3
<1>2. \E f : Solves(f, 0)
  <2>. DEFINE f == [k \in 0..0 |-> 0]
  <2>1. Solves(f, 0)
      OBVIOUS
  <2>. HIDE DEF f
  <2>. QED BY <2>1
<1>. DEFINE Good == {n \in 0..Len(p) : \E f : Solves(f, n)}
<1>3. \A n \in 0..Len(p) : n \in Good
  <2>1. 0 \in Good
      BY <1>2
  <2>2. \A k \in 0..Len(p) : k + 1 \in 0..Len(p) /\ k \in Good => k + 1 \in Good
    <3>. HIDE DEF Solves
    <3>. QED BY <1>1
  <2>3. Good \in SUBSET (0..Len(p))
      OBVIOUS
  <2>. HIDE DEF Good
  <2>. QED BY <2>1, <2>2, <2>3, UpTo
<1>4. \E f : Solves(f, Len(p))
    BY <1>3
<1>5. Solves(Spent(p, kinds), Len(p))
    BY <1>4 DEF Spent
<1>. QED BY <1>5

\* A shot alone takes the plan's steps one after the other.
LEMMA ReplayedSolves ==
    ASSUME NEW p, Len(p) \in Nat, NEW register, NEW kinds, NEW stream, NEW i \in 0..Len(p)
    PROVE  Replayed(p, register, kinds, stream)[i]
             = IF i = 0 THEN Begun(register)
               ELSE AloneStep(Replayed(p, register, kinds, stream)[i - 1], p, i, kinds, stream)
<1>. DEFINE base == Begun(register)
            Solves(f, n) ==
              f = [k \in 0..n |-> IF k = 0 THEN base ELSE AloneStep(f[k - 1], p, k, kinds, stream)]
<1>6. Replayed(p, register, kinds, stream)
        = CHOOSE f : f = [k \in 0..Len(p) |->
                            IF k = 0 THEN base ELSE AloneStep(f[k - 1], p, k, kinds, stream)]
    BY DEF Replayed
<1>. HIDE DEF base
<1>1. ASSUME NEW n \in Nat, NEW f, Solves(f, n)
      PROVE  \E g : Solves(g, n + 1)
  <2>. DEFINE g == [k \in 0..(n + 1) |->
                       IF k = n + 1 THEN AloneStep(f[n], p, n + 1, kinds, stream) ELSE f[k]]
              h == [k \in 0..(n + 1) |->
                       IF k = 0 THEN base ELSE AloneStep(g[k - 1], p, k, kinds, stream)]
  <2>1. ASSUME NEW k \in 0..(n + 1) PROVE g[k] = h[k]
    <3>1. CASE k = n + 1
        BY <3>1
    <3>2. CASE k # n + 1
      <4>1. k \in 0..n /\ (k # 0 => k - 1 \in 0..n /\ k - 1 # n + 1)
          BY <3>2
      <4>2. f[k] = IF k = 0 THEN base ELSE AloneStep(f[k - 1], p, k, kinds, stream)
          BY <1>1, <4>1
      <4>. QED BY <3>2, <4>1, <4>2
    <3>. QED BY <3>1, <3>2
  <2>2. g = [k \in 0..(n + 1) |-> g[k]] /\ h = [k \in 0..(n + 1) |-> h[k]]
      OBVIOUS
  <2>3. g = h
    <3>. HIDE DEF g, h
    <3>. QED BY <2>1, <2>2
  <2>. HIDE DEF g
  <2>. QED BY <2>3
<1>2. \E f : Solves(f, 0)
  <2>. DEFINE f == [k \in 0..0 |-> base]
  <2>1. Solves(f, 0)
      OBVIOUS
  <2>. HIDE DEF f
  <2>. QED BY <2>1
<1>. DEFINE Good == {n \in 0..Len(p) : \E f : Solves(f, n)}
<1>3. \A n \in 0..Len(p) : n \in Good
  <2>1. 0 \in Good
      BY <1>2
  <2>2. \A k \in 0..Len(p) : k + 1 \in 0..Len(p) /\ k \in Good => k + 1 \in Good
    <3>. HIDE DEF Solves
    <3>. QED BY <1>1
  <2>3. Good \in SUBSET (0..Len(p))
      OBVIOUS
  <2>. HIDE DEF Good
  <2>. QED BY <2>1, <2>2, <2>3, UpTo
<1>4. \E f : Solves(f, Len(p))
    BY <1>3
<1>5. Solves(Replayed(p, register, kinds, stream), Len(p))
    BY <1>4, <1>6
<1>7. Replayed(p, register, kinds, stream)[i]
        = IF i = 0 THEN base
          ELSE AloneStep(Replayed(p, register, kinds, stream)[i - 1], p, i, kinds, stream)
  <2>. DEFINE f == Replayed(p, register, kinds, stream)
  <2>. HIDE DEF f
  <2>1. Solves(f, Len(p))
      BY <1>5 DEF f
  <2>2. f[i] = IF i = 0 THEN base ELSE AloneStep(f[i - 1], p, i, kinds, stream)
      BY <2>1
  <2>. QED BY <2>2 DEF f
<1>. QED BY <1>7 DEF base

LEMMA ReplayedStarts ==
    ASSUME NEW p, Len(p) \in Nat, NEW register, NEW kinds, NEW stream
    PROVE  Replayed(p, register, kinds, stream)[0]
             = Begun(register)
<1>1. 0 \in 0..Len(p)
    OBVIOUS
<1>. QED BY <1>1, ReplayedSolves

LEMMA ReplayedUnfolds ==
    ASSUME NEW p, Len(p) \in Nat, NEW register, NEW kinds, NEW stream, NEW k \in 1..Len(p)
    PROVE  Replayed(p, register, kinds, stream)[k]
             = AloneStep(Replayed(p, register, kinds, stream)[k - 1], p, k, kinds, stream)
<1>1. k \in 0..Len(p) /\ k # 0
    OBVIOUS
<1>2. Replayed(p, register, kinds, stream)[k]
        = IF k = 0 THEN Begun(register)
          ELSE AloneStep(Replayed(p, register, kinds, stream)[k - 1], p, k, kinds, stream)
    BY <1>1, ReplayedSolves
<1>. QED BY <1>1, <1>2

-----------------------------------------------------------------------------
(* The budget of draws.                                                    *)

\* What a plan of lowered steps is made of.
LEMMA StepFacts ==
    ASSUME NEW p \in Plans, NEW k \in 1..Len(p)
    PROVE  /\ p[k].kind \in {"gate", "channel", "reset", "measure"}
           /\ p[k].targets \in Seq(Subsystems) /\ p[k].clbits \in Seq(Clbits)
           /\ Len(p[k].targets) \in Nat /\ Len(p[k].clbits) \in Nat
           /\ p[k].condition \subseteq Clbits \X {0, 1}
           /\ p[k].confused \in BOOLEAN /\ p[k].flips \in BOOLEAN
           /\ p[k].kind = "measure" =>
                p[k].condition = {} /\ Len(p[k].clbits) = Len(p[k].targets)
           /\ p[k].kind # "measure" => ~p[k].confused /\ ~p[k].flips
<1>1. p \in Seq(LoweredSteps)
    BY PlansAreLowered
<1>2. p[k] \in LoweredSteps
    BY <1>1, ElementOfSeq
<1>. QED BY <1>2 DEF LoweredSteps

LEMMA PlanFacts ==
    ASSUME NEW p \in Plans
    PROVE  Len(p) \in Nat /\ DOMAIN p = 1..Len(p)
BY PlansAreLowered

\* The draws of a step.
LEMMA CostFacts ==
    ASSUME NEW p \in Plans, NEW k \in 1..Len(p), NEW kinds
    PROVE  /\ Cost(p[k], kinds) \in Nat
           /\ \A more : kinds \subseteq more => Cost(p[k], kinds) <= Cost(p[k], more)
           /\ p[k].kind \in kinds => Cost(p[k], kinds) >= 1
           /\ p[k].kind \in kinds /\ p[k].confused =>
                Cost(p[k], kinds) = Len(p[k].targets) + 1
           /\ p[k].kind \in kinds /\ ~p[k].confused => Cost(p[k], kinds) = 1
           /\ p[k].kind # "measure" /\ p[k].kind \notin kinds => Cost(p[k], kinds) = 0
<1>1. Len(p[k].targets) \in Nat /\ p[k].confused \in BOOLEAN
    BY StepFacts
<1>2. p[k].kind # "measure" => ~p[k].confused
    BY StepFacts
<1>. DEFINE once(ks) == IF p[k].kind \in ks THEN 1 ELSE 0
            reports  == IF p[k].confused THEN Len(p[k].targets) ELSE 0
<1>3. \A ks : Cost(p[k], ks) = once(ks) + reports
    BY DEF Cost
<1>4. reports \in Nat /\ \A ks : once(ks) \in {0, 1}
    BY <1>1
<1>5. \A more : kinds \subseteq more => once(kinds) <= once(more)
    BY DEF once
<1>6. p[k].kind \in kinds => once(kinds) = 1
    OBVIOUS
<1>7. p[k].confused => reports = Len(p[k].targets)
    OBVIOUS
<1>8. ~p[k].confused => reports = 0
    OBVIOUS
<1>9. p[k].kind \notin kinds => once(kinds) = 0
    OBVIOUS
<1>. HIDE DEF once, reports
<1>10. \A more : kinds \subseteq more => once(kinds) + reports <= once(more) + reports
    BY <1>4, <1>5
<1>. QED BY <1>1, <1>2, <1>3, <1>4, <1>6, <1>7, <1>8, <1>9, <1>10

\* What is spent grows with the plan, and no prefix spends more than all.
LEMMA SpentGrows ==
    ASSUME NEW p \in Plans, NEW kinds
    PROVE  /\ \A k \in 0..Len(p) : Spent(p, kinds)[k] \in Nat
           /\ \A k \in 0..Len(p) : Spent(p, kinds)[k] <= Spent(p, kinds)[Len(p)]
<1>. DEFINE n == Len(p)
            S(k) == Spent(p, kinds)[k]
            C(k) == Cost(p[k], kinds)
<1>1. n \in Nat
    BY PlanFacts
<1>2. S(0) = 0 /\ \A k \in 1..n : S(k) = S(k - 1) + C(k)
    BY <1>1, SpentUnfolds
<1>3. \A k \in 1..n : C(k) \in Nat
    BY CostFacts
<1>. HIDE DEF S, C, n
<1>4. \A k \in 0..n : S(k) \in Nat
  <2>. DEFINE Good == {k \in 0..n : S(k) \in Nat}
  <2>1. 0 \in Good
      BY <1>1, <1>2
  <2>2. ASSUME NEW k \in 0..n, k + 1 \in 0..n, k \in Good PROVE k + 1 \in Good
    <3>1. k + 1 \in 1..n /\ (k + 1) - 1 = k
        BY <1>1, <2>2
    <3>2. S(k + 1) = S(k) + C(k + 1) /\ C(k + 1) \in Nat
        BY <1>2, <1>3, <3>1
    <3>. QED BY <2>2, <3>2
  <2>3. Good \in SUBSET (0..n)
      OBVIOUS
  <2>4. \A k \in 0..n : k \in Good
    <3>. HIDE DEF Good
    <3>. QED BY <1>1, <2>1, <2>2, <2>3, UpTo
  <2>. QED BY <2>4
<1>5. \A k \in 0..n : S(n - k) <= S(n)
  <2>. DEFINE Good == {k \in 0..n : S(n - k) <= S(n)}
  <2>1. 0 \in Good
    <3>1. n - 0 = n /\ S(n) \in Nat
        BY <1>1, <1>4
    <3>. QED BY <1>1, <3>1
  <2>2. ASSUME NEW k \in 0..n, k + 1 \in 0..n, k \in Good PROVE k + 1 \in Good
    <3>1. n - k \in 1..n /\ (n - k) - 1 = n - (k + 1) /\ n - (k + 1) \in 0..n
        BY <1>1, <2>2
    <3>2. S(n - k) = S(n - (k + 1)) + C(n - k) /\ C(n - k) \in Nat
        BY <1>2, <1>3, <3>1
    <3>3. S(n - (k + 1)) \in Nat /\ S(n - k) <= S(n) /\ S(n) \in Nat
        BY <1>1, <1>4, <2>2, <3>1
    <3>. QED BY <2>2, <3>2, <3>3
  <2>3. Good \in SUBSET (0..n)
      OBVIOUS
  <2>4. \A k \in 0..n : k \in Good
    <3>. HIDE DEF Good
    <3>. QED BY <1>1, <2>1, <2>2, <2>3, UpTo
  <2>. QED BY <2>4
<1>6. ASSUME NEW k \in 0..n PROVE S(k) <= S(n)
  <2>1. n - k \in 0..n /\ n - (n - k) = k
      BY <1>1
  <2>. QED BY <1>5, <2>1
<1>. QED BY <1>4, <1>6 DEF S, n
\* More kinds that draw, more draws.
LEMMA SpentMonotone ==
    ASSUME NEW p \in Plans, NEW kinds, NEW more, kinds \subseteq more
    PROVE  \A k \in 0..Len(p) : Spent(p, kinds)[k] <= Spent(p, more)[k]
<1>. DEFINE n == Len(p)
            S(k) == Spent(p, kinds)[k]
            T(k) == Spent(p, more)[k]
            C(k) == Cost(p[k], kinds)
            D(k) == Cost(p[k], more)
<1>1. n \in Nat
    BY PlanFacts
<1>2. S(0) = 0 /\ \A k \in 1..n : S(k) = S(k - 1) + C(k)
    BY <1>1, SpentUnfolds
<1>3. T(0) = 0 /\ \A k \in 1..n : T(k) = T(k - 1) + D(k)
    BY <1>1, SpentUnfolds
<1>4. \A k \in 1..n : C(k) \in Nat /\ D(k) \in Nat /\ C(k) <= D(k)
    BY CostFacts
<1>5. \A k \in 0..n : S(k) \in Nat
    BY SpentGrows
<1>6. \A k \in 0..n : T(k) \in Nat
    BY SpentGrows
<1>. HIDE DEF S, T, C, D, n
<1>. DEFINE Good == {k \in 0..n : S(k) <= T(k)}
<1>7. 0 \in Good
    BY <1>1, <1>2, <1>3
<1>8. ASSUME NEW k \in 0..n, k + 1 \in 0..n, k \in Good PROVE k + 1 \in Good
  <2>1. k + 1 \in 1..n /\ (k + 1) - 1 = k
      BY <1>1, <1>8
  <2>2. S(k + 1) = S(k) + C(k + 1) /\ T(k + 1) = T(k) + D(k + 1) /\ S(k) <= T(k)
      BY <1>2, <1>3, <1>8, <2>1
  <2>3. S(k) \in Nat /\ T(k) \in Nat /\ C(k + 1) \in Nat /\ D(k + 1) \in Nat /\ C(k + 1) <= D(k + 1)
      BY <1>4, <1>5, <1>6, <2>1
  <2>. QED BY <1>8, <2>2, <2>3
<1>9. Good \in SUBSET (0..n)
    OBVIOUS
<1>10. \A k \in 0..n : k \in Good
  <2>. HIDE DEF Good
  <2>. QED BY <1>1, <1>7, <1>8, <1>9, UpTo
<1>. QED BY <1>10 DEF n, S, T

-----------------------------------------------------------------------------
(* What the symbolic states and registers look like.                       *)

Histories(p) == [Subsystems -> Seq((1..Len(p)) \X {0, 1})]

Registers(p) == [Clbits -> [digit : {0, 1}, of : Seq((1..Len(p)) \X {0, 1})]]

LEMMA TouchTyped ==
    ASSUME NEW p \in Plans, NEW k \in 1..Len(p), NEW state \in Histories(p), NEW on,
           NEW decided \in [Subsystems -> {0, 1}]
    PROVE  Touch(state, k, on, decided) \in Histories(p)
<1>1. ASSUME NEW s \in Subsystems
      PROVE  (IF s \in on THEN Append(state[s], <<k, decided[s]>>) ELSE state[s])
                \in Seq((1..Len(p)) \X {0, 1})
  <2>1. state[s] \in Seq((1..Len(p)) \X {0, 1}) /\ <<k, decided[s]>> \in (1..Len(p)) \X {0, 1}
      BY DEF Histories
  <2>. QED BY <2>1
<1>. QED BY <1>1 DEF Touch, Histories

\* Some number among the first ones is the last.
LEMMA LastExists ==
    ASSUME NEW n \in Nat, NEW T \in SUBSET (1..n), T # {}
    PROVE  \E j \in T : \A i \in T : i <= j
<1>. DEFINE S == {n - j : j \in T}
<1>1. S \in SUBSET Nat /\ S # {}
  <2>1. \A j \in T : n - j \in Nat
      OBVIOUS
  <2>2. PICK j \in T : TRUE
      OBVIOUS
  <2>3. n - j \in S
      OBVIOUS
  <2>4. S \subseteq Nat
      BY <2>1
  <2>. QED BY <2>3, <2>4
<1>2. PICK x \in S : \A y \in S : x <= y
  <2>. HIDE DEF S
  <2>. QED BY <1>1, LeastNatural
<1>3. PICK j \in T : x = n - j
    OBVIOUS
<1>4. ASSUME NEW i \in T PROVE i <= j
  <2>1. n - j <= n - i
      BY <1>2, <1>3
  <2>. QED BY <2>1
<1>. QED BY <1>4

LEMMA WriteTyped ==
    ASSUME NEW p \in Plans, NEW k \in 1..Len(p), p[k].kind = "measure",
           NEW register \in Registers(p), NEW state \in Histories(p),
           NEW reports \in [Positions(p[k]) -> {0, 1}]
    PROVE  Write(register, p[k], reports, state) \in Registers(p)
<1>. DEFINE H == Seq((1..Len(p)) \X {0, 1})
            written(c) == {j \in Positions(p[k]) : p[k].clbits[j] = c}
            last(c) == CHOOSE j \in written(c) : \A i \in written(c) : i <= j
            cell(c) == IF written(c) = {} THEN register[c]
                       ELSE [digit |-> reports[last(c)], of |-> state[p[k].targets[last(c)]]]
<1>1. ASSUME NEW c \in Clbits, written(c) # {} PROVE last(c) \in Positions(p[k])
  <2>1. Len(p[k].targets) \in Nat /\ written(c) \in SUBSET (1..Len(p[k].targets))
      BY StepFacts DEF Positions
  <2>2. \E j \in written(c) : \A i \in written(c) : i <= j
    <3>. HIDE DEF written
    <3>. QED BY <1>1, <2>1, LastExists
  <2>3. last(c) \in written(c)
    <3>. HIDE DEF written
    <3>. QED BY <2>2
  <2>. QED BY <2>3
<1>2. ASSUME NEW c \in Clbits PROVE cell(c) \in [digit : {0, 1}, of : H]
  <2>1. CASE written(c) = {}
      BY <2>1 DEF Registers
  <2>2. CASE written(c) # {}
    <3>1. last(c) \in Positions(p[k])
        BY <1>1, <2>2
    <3>2. reports[last(c)] \in {0, 1}
      <4>. HIDE DEF last
      <4>. QED BY <3>1
    <3>3. p[k].targets[last(c)] \in Subsystems
      <4>. HIDE DEF last
      <4>. QED BY <3>1, StepFacts, ElementOfSeq DEF Positions
    <3>4. state[p[k].targets[last(c)]] \in H
      <4>. HIDE DEF last
      <4>. QED BY <3>3 DEF Histories
    <3>. HIDE DEF last, H
    <3>. QED BY <2>2, <3>2, <3>4
  <2>. QED BY <2>1, <2>2
<1>3. Write(register, p[k], reports, state) = [c \in Clbits |-> cell(c)]
    BY DEF Write
<1>. HIDE DEF cell
<1>. QED BY <1>2, <1>3 DEF Registers
\* One step of a shot alone keeps within the types, and draws what it costs.
LEMMA AloneStepFacts ==
    ASSUME NEW p \in Plans, NEW k \in 1..Len(p), NEW kinds, "measure" \in kinds,
           NEW r, r.state \in Histories(p), r.clbits \in Registers(p), r.drawn \in Nat,
           NEW limit \in Nat, NEW stream \in [1..limit -> Draws],
           r.drawn + Cost(p[k], kinds) <= limit
    PROVE  LET next == AloneStep(r, p, k, kinds, stream)
           IN  /\ next.state \in Histories(p) /\ next.clbits \in Registers(p)
               /\ next.drawn \in Nat
               /\ r.drawn <= next.drawn /\ next.drawn <= r.drawn + Cost(p[k], kinds)
<1>. DEFINE step == p[k]
            draws == step.kind \in kinds
            draw == stream[r.drawn + 1]
            decided == IF draws THEN draw ELSE Undrawn
            Report(j) == IF step.confused THEN stream[r.drawn + 1 + j][step.targets[j]]
                         ELSE IF step.flips THEN 1 - draw[step.targets[j]] ELSE draw[step.targets[j]]
            reports == [j \in Positions(step) |-> Report(j)]
            next == AloneStep(r, p, k, kinds, stream)
<1>1. Cost(step, kinds) \in Nat
    BY CostFacts
<1>2. CASE ~Matches(step.condition, r.clbits)
  <2>1. next = r
      BY <1>2 DEF AloneStep
  <2>. QED BY <1>1, <2>1
<1>3. CASE Matches(step.condition, r.clbits)
  <2>1. /\ next.state = Touch(r.state, k, Targets(step), decided)
        /\ next.clbits = IF IsMeasurement(step) THEN Write(r.clbits, step, reports, r.state)
                         ELSE r.clbits
        /\ next.drawn = r.drawn + Cost(step, kinds)
      BY <1>3 DEF AloneStep
  <2>2. draws => draw \in [Subsystems -> {0, 1}]
    <3>1. draws => Cost(step, kinds) >= 1
        BY CostFacts
    <3>2. draws => r.drawn + 1 \in 1..limit
        BY <1>1, <3>1
    <3>. QED BY <3>2, ExecutionAssumption
  <2>3. decided \in [Subsystems -> {0, 1}]
    <3>1. Undrawn \in [Subsystems -> {0, 1}]
        BY DEF Undrawn
    <3>. HIDE DEF draw, draws
    <3>. QED BY <2>2, <3>1
  <2>4. next.state \in Histories(p)
    <3>. HIDE DEF decided, next
    <3>. QED BY <2>1, <2>3, TouchTyped
  <2>5. next.clbits \in Registers(p)
    <3>1. CASE ~IsMeasurement(step)
      <4>. HIDE DEF next, reports
      <4>. QED BY <2>1, <3>1
    <3>2. CASE IsMeasurement(step)
      <4>1. step.kind = "measure" /\ draws
          BY <3>2 DEF IsMeasurement
      <4>2. ASSUME NEW j \in Positions(step) PROVE Report(j) \in {0, 1}
        <5>1. j \in 1..Len(step.targets) /\ Len(step.targets) \in Nat
            BY StepFacts DEF Positions
        <5>2. step.targets[j] \in Subsystems
            BY <5>1, StepFacts, ElementOfSeq
        <5>3. draw[step.targets[j]] \in {0, 1}
          <6>. HIDE DEF draw, draws
          <6>. QED BY <2>2, <4>1, <5>2
        <5>4. step.confused => stream[r.drawn + 1 + j][step.targets[j]] \in {0, 1}
          <6>1. step.confused => Cost(step, kinds) = Len(step.targets) + 1
              BY <4>1, CostFacts
          <6>2. step.confused => r.drawn + 1 + j \in 1..limit
              BY <5>1, <6>1
          <6>3. step.confused => stream[r.drawn + 1 + j] \in [Subsystems -> {0, 1}]
              BY <6>2, ExecutionAssumption
          <6>. QED BY <5>2, <6>3
        <5>5. 1 - draw[step.targets[j]] \in {0, 1}
          <6>. HIDE DEF draw
          <6>. QED BY <5>3
        <5>. HIDE DEF draw, step
        <5>. QED BY <5>3, <5>4, <5>5
      <4>3. reports \in [Positions(step) -> {0, 1}]
        <5>. HIDE DEF Report
        <5>. QED BY <4>2
      <4>4. Write(r.clbits, step, reports, r.state) \in Registers(p)
        <5>. HIDE DEF reports
        <5>. QED BY <4>1, <4>3, WriteTyped
      <4>. HIDE DEF reports, next
      <4>. QED BY <2>1, <3>2, <4>4
    <3>. QED BY <3>1, <3>2
  <2>6. next.drawn = r.drawn + Cost(step, kinds)
      BY <2>1
  <2>. HIDE DEF next
  <2>7. /\ next.state \in Histories(p) /\ next.clbits \in Registers(p)
        /\ next.drawn \in Nat /\ r.drawn <= next.drawn /\ next.drawn <= r.drawn + Cost(step, kinds)
    <3>. HIDE DEF step
    <3>. QED BY <1>1, <2>4, <2>5, <2>6
  <2>. QED BY <2>7 DEF next
<1>. QED BY <1>2, <1>3

\* A shot alone, after any number of steps.
LEMMA AloneTyped ==
    ASSUME NEW p \in Plans, NEW register \in Registers(p), NEW kinds, "measure" \in kinds,
           NEW stream \in [1..Spent(p, kinds)[Len(p)] -> Draws]
    PROVE  \A k \in 0..Len(p) :
              LET r == Replayed(p, register, kinds, stream)[k]
              IN  /\ r.state \in Histories(p) /\ r.clbits \in Registers(p)
                  /\ r.drawn \in Nat /\ r.drawn <= Spent(p, kinds)[k]
<1>. DEFINE n == Len(p)
            R(k) == Replayed(p, register, kinds, stream)[k]
            S(k) == Spent(p, kinds)[k]
            Fits(k) == /\ R(k).state \in Histories(p) /\ R(k).clbits \in Registers(p)
                       /\ R(k).drawn \in Nat /\ R(k).drawn <= S(k)
<1>1. n \in Nat
    BY PlanFacts
<1>2. R(0) = [state |-> Blank, clbits |-> register, drawn |-> 0]
    BY <1>1, ReplayedStarts DEF Begun
<1>3. ASSUME NEW k \in 1..n PROVE R(k) = AloneStep(R(k - 1), p, k, kinds, stream)
  <2>1. Len(p) \in Nat /\ k \in 1..Len(p)
      BY <1>1
  <2>. QED BY <2>1, ReplayedUnfolds
<1>4. S(0) = 0 /\ \A k \in 1..n : S(k) = S(k - 1) + Cost(p[k], kinds)
    BY <1>1, SpentUnfolds
<1>5. \A k \in 0..n : S(k) \in Nat /\ S(k) <= S(n)
    BY SpentGrows
<1>6. \A k \in 1..n : Cost(p[k], kinds) \in Nat
    BY CostFacts
<1>7. Fits(0)
  <2>1. Blank \in Histories(p)
      BY EmptySeq DEF Blank, Histories
  <2>. HIDE DEF R, S
  <2>. QED BY <1>2, <1>4, <2>1
<1>8. ASSUME NEW k \in 0..n, k + 1 \in 0..n, Fits(k) PROVE Fits(k + 1)
  <2>1. k + 1 \in 1..n /\ (k + 1) - 1 = k
      BY <1>1, <1>8
  <2>2. S(k + 1) = S(k) + Cost(p[k + 1], kinds) /\ S(k + 1) <= S(n) /\ S(n) \in Nat
    <3>. HIDE DEF S
    <3>. QED BY <1>1, <1>4, <1>5, <2>1
  <2>3. R(k + 1) = AloneStep(R(k), p, k + 1, kinds, stream)
    <3>. HIDE DEF R
    <3>. QED BY <1>3, <2>1
  <2>4. S(k) \in Nat /\ Cost(p[k + 1], kinds) \in Nat
    <3>. HIDE DEF S
    <3>. QED BY <1>5, <1>6, <2>1
  <2>5. R(k).drawn \in Nat /\ R(k).drawn <= S(k)
      BY <1>8
  <2>6. R(k).drawn + Cost(p[k + 1], kinds) <= S(n)
    <3>. HIDE DEF R, S
    <3>. QED BY <2>2, <2>4, <2>5
  <2>7. stream \in [1..S(n) -> Draws] /\ S(n) \in Nat
      BY <2>2
  <2>8. R(k).state \in Histories(p) /\ R(k).clbits \in Registers(p)
      BY <1>8
  <2>9. /\ AloneStep(R(k), p, k + 1, kinds, stream).state \in Histories(p)
        /\ AloneStep(R(k), p, k + 1, kinds, stream).clbits \in Registers(p)
        /\ AloneStep(R(k), p, k + 1, kinds, stream).drawn \in Nat
        /\ AloneStep(R(k), p, k + 1, kinds, stream).drawn <= R(k).drawn + Cost(p[k + 1], kinds)
    <3>1. k + 1 \in 1..Len(p)
        BY <2>1
    <3>. HIDE DEF R, S, n
    <3>. QED BY <2>5, <2>6, <2>7, <2>8, <3>1, AloneStepFacts
  <2>. HIDE DEF R, S, n
  <2>. QED BY <2>2, <2>3, <2>4, <2>5, <2>9
<1>. HIDE DEF Fits
<1>. DEFINE Good == {k \in 0..n : Fits(k)}
<1>9. 0 \in Good
    BY <1>1, <1>7
<1>10. \A k \in 0..n : k + 1 \in 0..n /\ k \in Good => k + 1 \in Good
    BY <1>8
<1>11. Good \in SUBSET (0..n)
    OBVIOUS
<1>12. \A k \in 0..n : k \in Good
  <2>. HIDE DEF Good, n
  <2>. QED BY <1>1, <1>9, <1>10, <1>11, UpTo
<1>13. \A k \in 0..n : Fits(k)
    BY <1>12
<1>. QED BY <1>13 DEF Fits
-----------------------------------------------------------------------------
(* The array of uniforms that compiled shots share.                        *)

\* A quotient is found between two multiples.
LEMMA Quotient ==
    ASSUME NEW m \in Nat, NEW q \in Nat, NEW r \in Nat, r < m
    PROVE  (q * m + r) \div m = q
<1>. DEFINE x == q * m + r
            e == x \div m
<1>1. q * m \in Nat /\ x \in Nat
    OBVIOUS
<1>2. e \in Int /\ (x % m) \in Int /\ 0 <= (x % m) /\ (x % m) < m /\ x = m * e + (x % m)
    BY <1>1
<1>. DEFINE y == x % m
            d == e - q
<1>3. x = q * m + r /\ x = m * e + y /\ e \in Int /\ y \in Int /\ 0 <= y /\ y < m
    BY <1>2
<1>. HIDE DEF y, e, x
<1>4. r - y = m * d
  <2>1. m * d = m * e - q * m
      BY <1>3
  <2>2. q * m \in Int /\ m * e \in Int
      BY <1>3
  <2>. HIDE DEF d
  <2>. QED BY <1>3, <2>1, <2>2
<1>5. d \in Int
    BY <1>3
<1>6. r - y < m /\ -m < r - y
    BY <1>3
<1>. HIDE DEF d
<1>7. d >= 1 => m * d >= m
    BY <1>5
<1>8. d <= -1 => m * d <= -m
    BY <1>5
<1>9. d = 0
    BY <1>3, <1>4, <1>5, <1>6, <1>7, <1>8
<1>10. e = q
    BY <1>3, <1>9 DEF d
<1>. QED BY <1>10 DEF e, x

\* A shot that draws no more than its budget reads its own stream.
LEMMA DrawIsOwn ==
    ASSUME shots \in Nat, MaxDraws \in Nat, compiled \in BOOLEAN,
           NEW shot \in 1..shots, NEW n \in 1..MaxDraws
    PROVE  DrawOf(shot, n) = {streams[shot][n]}
<1>. DEFINE m == MaxDraws
            place == (shot - 1) * m + n
            owner == (place - 1) \div m + 1
<1>1. owner = shot
  <2>1. m \in Nat /\ shot - 1 \in Nat /\ n - 1 \in Nat /\ n - 1 < m
      OBVIOUS
  <2>. HIDE DEF m
  <2>2. ((shot - 1) * m + (n - 1)) \div m = shot - 1
      BY <2>1, Quotient
  <2>3. (shot - 1) * m \in Int
      BY <2>1
  <2>4. place - 1 = (shot - 1) * m + (n - 1)
      BY <2>1, <2>3
  <2>5. owner = (shot - 1) + 1
      BY <2>2, <2>4
  <2>. QED BY <2>1, <2>5
<1>2. place - (shot - 1) * m = n
  <2>1. (shot - 1) * m \in Int
      OBVIOUS
  <2>. QED BY <2>1
<1>3. DrawOf(shot, n) = IF ~compiled THEN {streams[shot][n]}
                        ELSE IF owner <= shots THEN {streams[owner][place - (owner - 1) * m]}
                        ELSE Draws
    BY DEF DrawOf
<1>. HIDE DEF owner, place, m
<1>. QED BY <1>1, <1>2, <1>3

-----------------------------------------------------------------------------
(* The batches are the shots in order.                                     *)

\* bs[1], bs[2], ... together count from 1 to n, and none of them is empty.
Partitioned(bs, n) ==
    /\ Len(bs) \in Nat /\ Len(bs) # 0 /\ DOMAIN bs = 1..Len(bs)
    /\ \E before \in [1..(Len(bs) + 1) -> 0..n] :
        /\ before[1] = 0 /\ before[Len(bs) + 1] = n
        /\ \A b \in 1..Len(bs) :
              /\ before[b] < before[b + 1]
              /\ Len(bs[b]) = before[b + 1] - before[b]
              /\ \A i \in 1..Len(bs[b]) : bs[b][i] = before[b] + i

LEMMA FunctionIsSequence ==
    ASSUME NEW S, NEW n \in Nat, NEW f \in [1..n -> S]
    PROVE  f \in Seq(S) /\ Len(f) = n /\ DOMAIN f = 1..n
BY SeqDef

LEMMA ThreadsPartition ==
    ASSUME NEW n \in Nat \ {0}
    PROVE  Partitioned([b \in 1..n |-> <<b>>], n)
<1>. DEFINE bs == [b \in 1..n |-> <<b>>]
            before == [b \in 1..(n + 1) |-> b - 1]
<1>1. bs \in [1..n -> Seq(Nat)]
    OBVIOUS
<1>2. Len(bs) = n /\ DOMAIN bs = 1..n
  <2>. HIDE DEF bs
  <2>. QED BY <1>1, FunctionIsSequence
<1>3. before \in [1..(n + 1) -> 0..n] /\ before[1] = 0 /\ before[n + 1] = n
    OBVIOUS
<1>4. ASSUME NEW b \in 1..n
      PROVE  /\ before[b] < before[b + 1]
             /\ Len(bs[b]) = before[b + 1] - before[b]
             /\ \A i \in 1..Len(bs[b]) : bs[b][i] = before[b] + i
  <2>1. before[b] = b - 1 /\ before[b + 1] = b
      OBVIOUS
  <2>2. Len(bs[b]) = 1 /\ bs[b][1] = b
      OBVIOUS
  <2>. QED BY <2>1, <2>2
<1>. HIDE DEF bs, before
<1>5. Partitioned(bs, n)
    BY <1>2, <1>3, <1>4 DEF Partitioned
<1>. QED BY <1>5 DEF bs

LEMMA SerialPartition ==
    ASSUME NEW n \in Nat \ {0}
    PROVE  Partitioned(<<[i \in 1..n |-> i]>>, n)
<1>. DEFINE items == [i \in 1..n |-> i]
            bs == <<items>>
            before == [b \in 1..2 |-> IF b = 1 THEN 0 ELSE n]
<1>1. items \in [1..n -> Nat] /\ \A i \in 1..n : items[i] = i
    OBVIOUS
<1>. HIDE DEF items
<1>2. Len(items) = n
    BY <1>1, FunctionIsSequence
<1>3. Len(bs) = 1 /\ DOMAIN bs = 1..1 /\ bs[1] = items
    OBVIOUS
<1>4. before \in [1..2 -> 0..n] /\ before[1] = 0 /\ before[2] = n
    OBVIOUS
<1>. HIDE DEF bs, before
<1>5. \A b \in 1..1 : b = 1 /\ b + 1 = 2
    OBVIOUS
<1>6. Partitioned(bs, n)
    BY <1>1, <1>2, <1>3, <1>4, <1>5 DEF Partitioned
<1>. QED BY <1>6 DEF bs, items

\* The first of the sizes that differ by at most one are the greater ones.
LEMMA SplitPartition ==
    ASSUME NEW n \in Nat \ {0}, NEW w \in Nat \ {0}
    PROVE  Partitioned(SplitIntoBatches([i \in 1..n |-> i], w), n)
<1>. DEFINE items == [i \in 1..n |-> i]
            count == IF w < n THEN w ELSE n
            base  == n \div count
            extra == n % count
            Before(b) == (b - 1) * base + (IF b - 1 < extra THEN b - 1 ELSE extra)
            bs == [b \in 1..count |-> SubSeq(items, Before(b) + 1, Before(b + 1))]
            before == [b \in 1..(count + 1) |-> Before(b)]
<1>1. items \in [1..n -> Nat] /\ \A i \in 1..n : items[i] = i
    OBVIOUS
<1>2. Len(items) = n
  <2>. HIDE DEF items
  <2>. QED BY <1>1, FunctionIsSequence
<1>3. SplitIntoBatches(items, w) = bs
    BY <1>2 DEF SplitIntoBatches
<1>4. count \in Nat /\ count # 0 /\ count <= n
    OBVIOUS
<1>5. base \in Nat /\ extra \in Nat /\ extra < count /\ n = count * base + extra
  <2>. HIDE DEF count
  <2>. QED BY <1>4
<1>. HIDE DEF items, count, base, extra
<1>6. Before(1) = 0
    BY <1>4, <1>5
<1>7. Before(count + 1) = n
  <2>1. ((count + 1) - 1) * base = count * base /\ ~((count + 1) - 1 < extra)
      BY <1>4, <1>5
  <2>. QED BY <1>5, <2>1
<1>8. ASSUME NEW b \in 1..count
      PROVE  Before(b) \in Int /\ Before(b + 1) \in Int /\ Before(b) < Before(b + 1)
  <2>1. ((b + 1) - 1) * base = (b - 1) * base + base /\ (b - 1) * base \in Int
      BY <1>4, <1>5
  <2>2. base # 0
      BY <1>4, <1>5
  <2>. QED BY <1>4, <1>5, <2>1, <2>2
<1>9. ASSUME NEW b \in 1..(count + 1) PROVE Before(b) \in 0..n
  <2>1. (b - 1) * base \in Nat
      BY <1>4, <1>5
  <2>2. (count - (b - 1)) * base \in Nat
      BY <1>4, <1>5
  <2>3. (b - 1) * base + (count - (b - 1)) * base = count * base
      BY <1>4, <1>5
  <2>. QED BY <1>4, <1>5, <2>1, <2>2, <2>3
<1>. HIDE DEF Before
<1>10. ASSUME NEW b \in 1..count
       PROVE  /\ bs[b] \in Seq(Nat)
              /\ Len(bs[b]) = Before(b + 1) - Before(b)
              /\ \A i \in 1..Len(bs[b]) : bs[b][i] = Before(b) + i
  <2>. DEFINE lo == Before(b) + 1
              hi == Before(b + 1)
  <2>1. lo \in Int /\ hi \in Int /\ 1 <= lo /\ hi <= n /\ lo <= hi + 1
    <3>1. b \in 1..(count + 1) /\ b + 1 \in 1..(count + 1)
        BY <1>4
    <3>. QED BY <1>8, <1>9, <3>1
  <2>2. \A i \in lo..hi : items[i] \in Nat
      BY <1>1, <2>1
  <2>3. bs[b] = SubSeq(items, lo, hi)
      OBVIOUS
  <2>. HIDE DEF lo, hi
  <2>4. /\ SubSeq(items, lo, hi) \in Seq(Nat)
        /\ Len(SubSeq(items, lo, hi)) = IF lo <= hi THEN hi - lo + 1 ELSE 0
        /\ \A i \in 1..(hi - lo + 1) : SubSeq(items, lo, hi)[i] = items[lo + i - 1]
      BY <2>1, <2>2, SubSeqProperties
  <2>5. Len(SubSeq(items, lo, hi)) = hi - lo + 1
      BY <2>1, <2>4
  <2>6. \A i \in 1..(hi - lo + 1) : lo + i - 1 \in 1..n /\ items[lo + i - 1] = lo + i - 1
      BY <1>1, <2>1
  <2>. HIDE DEF bs
  <2>7. /\ bs[b] \in Seq(Nat) /\ Len(bs[b]) = hi - lo + 1
        /\ \A i \in 1..Len(bs[b]) : bs[b][i] = lo + i - 1
      BY <2>3, <2>4, <2>5, <2>6
  <2>8. hi - lo + 1 = Before(b + 1) - Before(b) /\ \A i \in Int : lo + i - 1 = Before(b) + i
      BY <1>8, <2>1 DEF lo, hi
  <2>9. \A i \in 1..Len(bs[b]) : i \in Int
      BY <2>7
  <2>. QED BY <2>7, <2>8, <2>9
<1>11. Len(bs) = count /\ DOMAIN bs = 1..count
  <2>1. bs = [b \in 1..count |-> bs[b]]
      OBVIOUS
  <2>. HIDE DEF bs
  <2>2. bs \in [1..count -> Seq(Nat)]
      BY <1>10, <2>1
  <2>. QED BY <1>4, <2>2, FunctionIsSequence
<1>12. before \in [1..(count + 1) -> 0..n] /\ before[1] = 0 /\ before[count + 1] = n
  <2>1. before \in [1..(count + 1) -> 0..n]
      BY <1>9
  <2>2. 1 \in 1..(count + 1) /\ count + 1 \in 1..(count + 1)
      BY <1>4
  <2>. QED BY <1>6, <1>7, <2>1, <2>2
<1>13. ASSUME NEW b \in 1..count PROVE before[b] = Before(b) /\ before[b + 1] = Before(b + 1)
  <2>1. b \in 1..(count + 1) /\ b + 1 \in 1..(count + 1)
      BY <1>4
  <2>. QED BY <2>1
<1>. HIDE DEF bs, before
<1>14. ASSUME NEW b \in 1..count
       PROVE  /\ before[b] < before[b + 1]
              /\ Len(bs[b]) = before[b + 1] - before[b]
              /\ \A i \in 1..Len(bs[b]) : bs[b][i] = before[b] + i
    BY <1>8, <1>10, <1>13
<1>15. Partitioned(bs, n)
    BY <1>4, <1>11, <1>12, <1>14 DEF Partitioned
<1>. QED BY <1>3, <1>15 DEF items
-----------------------------------------------------------------------------
(* The rows of the batches, gathered in order, are the rows of the shots.  *)

LEMMA GatheredUnfolds ==
    ASSUME NEW rs, NEW m \in Nat
    PROVE  /\ Gathered(rs, m)[0] = <<>>
           /\ \A k \in 1..m : Gathered(rs, m)[k] = Gathered(rs, m)[k - 1] \o rs[k].rows
<1>. DEFINE Joint(rows, k) == rows \o rs[k].rows
            Solves(f, n) == f = [k \in 0..n |-> IF k = 0 THEN <<>> ELSE Joint(f[k - 1], k)]
<1>6. Gathered(rs, m)
        = CHOOSE f : f = [k \in 0..m |-> IF k = 0 THEN <<>> ELSE Joint(f[k - 1], k)]
    BY DEF Gathered
<1>7. \A rows, k : Joint(rows, k) = rows \o rs[k].rows
    OBVIOUS
<1>. HIDE DEF Joint
<1>1. ASSUME NEW n \in Nat, NEW f, Solves(f, n)
      PROVE  \E g : Solves(g, n + 1)
  <2>. DEFINE g == [k \in 0..(n + 1) |-> IF k = n + 1 THEN Joint(f[n], n + 1) ELSE f[k]]
              h == [k \in 0..(n + 1) |-> IF k = 0 THEN <<>> ELSE Joint(g[k - 1], k)]
  <2>1. ASSUME NEW k \in 0..(n + 1) PROVE g[k] = h[k]
    <3>1. CASE k = n + 1
        BY <3>1
    <3>2. CASE k # n + 1
      <4>1. k \in 0..n /\ (k # 0 => k - 1 \in 0..n /\ k - 1 # n + 1)
          BY <3>2
      <4>2. f[k] = IF k = 0 THEN <<>> ELSE Joint(f[k - 1], k)
          BY <1>1, <4>1
      <4>. QED BY <3>2, <4>1, <4>2
    <3>. QED BY <3>1, <3>2
  <2>2. g = [k \in 0..(n + 1) |-> g[k]] /\ h = [k \in 0..(n + 1) |-> h[k]]
      OBVIOUS
  <2>3. g = h
    <3>. HIDE DEF g, h
    <3>. QED BY <2>1, <2>2
  <2>. HIDE DEF g
  <2>. QED BY <2>3
<1>2. \E f : Solves(f, 0)
  <2>. DEFINE f == [k \in 0..0 |-> <<>>]
  <2>1. Solves(f, 0)
      OBVIOUS
  <2>. HIDE DEF f
  <2>. QED BY <2>1
<1>. DEFINE Good == {n \in 0..m : \E f : Solves(f, n)}
<1>3. \A n \in 0..m : n \in Good
  <2>1. 0 \in Good
      BY <1>2
  <2>2. \A k \in 0..m : k + 1 \in 0..m /\ k \in Good => k + 1 \in Good
    <3>. HIDE DEF Solves
    <3>. QED BY <1>1
  <2>3. Good \in SUBSET (0..m)
      OBVIOUS
  <2>. HIDE DEF Good
  <2>. QED BY <2>1, <2>2, <2>3, UpTo
<1>4. \E f : Solves(f, m)
    BY <1>3
<1>5. Solves(Gathered(rs, m), m)
    BY <1>4, <1>6
<1>8. ASSUME NEW k \in 0..m
      PROVE  Gathered(rs, m)[k] = IF k = 0 THEN <<>> ELSE Joint(Gathered(rs, m)[k - 1], k)
  <2>. DEFINE g == Gathered(rs, m)
  <2>1. Solves(g, m)
      BY <1>5
  <2>. HIDE DEF g
  <2>2. g[k] = IF k = 0 THEN <<>> ELSE Joint(g[k - 1], k)
      BY <2>1
  <2>. QED BY <2>2 DEF g
<1>9. Gathered(rs, m)[0] = <<>>
  <2>1. 0 \in 0..m
      OBVIOUS
  <2>. QED BY <1>8, <2>1
<1>10. ASSUME NEW k \in 1..m
       PROVE  Gathered(rs, m)[k] = Gathered(rs, m)[k - 1] \o rs[k].rows
  <2>1. k \in 0..m /\ k # 0
      OBVIOUS
  <2>2. Gathered(rs, m)[k] = Joint(Gathered(rs, m)[k - 1], k)
      BY <1>8, <2>1
  <2>. QED BY <1>7, <2>2
<1>. QED BY <1>9, <1>10

\* The runners rs of the batches bs have all the rows f.
HaveRows(rs, bs, f, R) ==
    \A b \in 1..Len(bs) :
       /\ rs[b].rows \in Seq(R) /\ Len(rs[b].rows) = Len(bs[b])
       /\ \A i \in 1..Len(bs[b]) : rs[b].rows[i] = f[bs[b][i]]

Agreeing(rows, f, n) == \A i \in 1..n : rows[i] = f[i]

LEMMA GatheredRows ==
    ASSUME NEW R, NEW n \in Nat, NEW f \in [1..n -> R],
           NEW bs, Partitioned(bs, n), NEW rs, HaveRows(rs, bs, f, R)
    PROVE  /\ Gathered(rs, Len(bs))[Len(bs)] \in Seq(R)
           /\ Len(Gathered(rs, Len(bs))[Len(bs)]) = n
           /\ Agreeing(Gathered(rs, Len(bs))[Len(bs)], f, n)
<1>. DEFINE m == Len(bs)
            G(k) == Gathered(rs, m)[k]
<1>1. PICK before \in [1..(m + 1) -> 0..n] :
        /\ before[1] = 0 /\ before[m + 1] = n
        /\ \A b \in 1..m :
              /\ before[b] < before[b + 1]
              /\ Len(bs[b]) = before[b + 1] - before[b]
              /\ \A i \in 1..Len(bs[b]) : bs[b][i] = before[b] + i
    BY DEF Partitioned
<1>2. m \in Nat
    BY DEF Partitioned
<1>3. G(0) = <<>> /\ \A k \in 1..m : G(k) = G(k - 1) \o rs[k].rows
    BY <1>2, GatheredUnfolds
<1>. DEFINE Fits(k) == G(k) \in Seq(R) /\ Len(G(k)) = before[k + 1]
                       /\ \A i \in 1..before[k + 1] : G(k)[i] = f[i]
<1>4. Fits(0)
  <2>1. before[0 + 1] = 0
      BY <1>1
  <2>2. G(0) = <<>>
      BY <1>3
  <2>3. G(0) \in Seq(R) /\ Len(G(0)) = 0
    <3>. HIDE DEF G
    <3>. QED BY <2>2, EmptySeq
  <2>4. \A i \in 1..0 : FALSE
      OBVIOUS
  <2>. HIDE DEF G
  <2>. QED BY <2>1, <2>3, <2>4
<1>5. ASSUME NEW k \in 0..m, k + 1 \in 0..m, Fits(k) PROVE Fits(k + 1)
  <2>. DEFINE b == k + 1
              t == rs[b].rows
  <2>1. b \in 1..m /\ b - 1 = k /\ b \in 1..(m + 1) /\ b + 1 \in 1..(m + 1)
      BY <1>2, <1>5
  <2>2. /\ before[b] \in 0..n /\ before[b + 1] \in 0..n /\ before[b] < before[b + 1]
        /\ Len(bs[b]) = before[b + 1] - before[b]
        /\ \A i \in 1..Len(bs[b]) : bs[b][i] = before[b] + i
    <3>. HIDE DEF b, m
    <3>. QED BY <1>1, <2>1
  <2>3. t \in Seq(R) /\ Len(t) = Len(bs[b]) /\ \A i \in 1..Len(bs[b]) : t[i] = f[bs[b][i]]
    <3>1. b \in 1..Len(bs)
        BY <2>1
    <3>. HIDE DEF b
    <3>. QED BY <3>1 DEF HaveRows
  <2>4. \A i \in 1..Len(t) : t[i] = f[before[b] + i]
    <3>. HIDE DEF b, t
    <3>. QED BY <2>2, <2>3
  <2>5. G(b) = G(k) \o t
    <3>1. G(b) = G(b - 1) \o rs[b].rows
      <4>. HIDE DEF b, G, m
      <4>. QED BY <1>3, <2>1
    <3>. QED BY <2>1, <3>1
  <2>6. G(k) \in Seq(R) /\ Len(G(k)) = before[b] /\ \A i \in 1..before[b] : G(k)[i] = f[i]
      BY <1>5
  <2>. HIDE DEF b, t, G
  <2>. DEFINE lo == before[b]
              hi == before[b + 1]
              s == G(k)
  <2>7. /\ s \o t \in Seq(R) /\ Len(s \o t) = hi
        /\ \A i \in 1..hi : (s \o t)[i] = f[i]
    <3>1. /\ lo \in 0..n /\ hi \in 0..n /\ lo <= hi
          /\ s \in Seq(R) /\ Len(s) = lo /\ \A i \in 1..lo : s[i] = f[i]
          /\ t \in Seq(R) /\ Len(t) = hi - lo /\ \A i \in 1..Len(t) : t[i] = f[lo + i]
        BY <2>2, <2>3, <2>4, <2>6
    <3>. HIDE DEF lo, hi, s
    <3>2. s \o t \in Seq(R) /\ Len(s \o t) = Len(s) + Len(t)
        BY <3>1, ConcatProperties
    <3>3. Len(s \o t) = hi
        BY <3>1, <3>2
    <3>4. ASSUME NEW i \in 1..hi PROVE (s \o t)[i] = f[i]
      <4>1. i \in 1..(Len(s) + Len(t))
          BY <3>1
      <4>2. (s \o t)[i] = IF i <= Len(s) THEN s[i] ELSE t[i - Len(s)]
          BY <3>1, <4>1, ConcatProperties
      <4>3. CASE i <= lo
          BY <3>1, <4>2, <4>3
      <4>4. CASE i > lo
        <5>1. i - lo \in 1..Len(t) /\ lo + (i - lo) = i
            BY <3>1, <4>4
        <5>2. t[i - lo] = f[lo + (i - lo)]
            BY <3>1, <5>1
        <5>. QED BY <3>1, <4>2, <4>4, <5>1, <5>2
      <4>. QED BY <3>1, <4>3, <4>4
    <3>. QED BY <3>2, <3>3, <3>4
  <2>8. G(b) \in Seq(R) /\ Len(G(b)) = before[b + 1] /\ \A i \in 1..before[b + 1] : G(b)[i] = f[i]
      BY <2>5, <2>7
  <2>. QED BY <2>8 DEF b
<1>. HIDE DEF Fits
<1>. DEFINE Good == {k \in 0..m : Fits(k)}
<1>6. 0 \in Good /\ Good \in SUBSET (0..m)
    BY <1>2, <1>4
<1>7. \A k \in 0..m : k + 1 \in 0..m /\ k \in Good => k + 1 \in Good
    BY <1>5
<1>8. \A k \in 0..m : k \in Good
  <2>. HIDE DEF Good, m
  <2>. QED BY <1>2, <1>6, <1>7, UpTo
<1>9. Fits(m)
    BY <1>2, <1>8
<1>. QED BY <1>1, <1>9 DEF Fits, Agreeing
-----------------------------------------------------------------------------
(* The inductive invariant.                                                *)

\* What Init chose stays.
CallInv ==
    /\ plan \in Plans /\ start \in Starts /\ want \in Wants /\ shots \in ShotNumbers
    /\ engine \in Engines /\ ask \in Asks /\ workers \in WorkerCeilings

Iterations == IF want.counts THEN shots ELSE 1

Started == pc \in {"run", "returned", "failed"}

\* What the execution policy may have decided.
PolicyInv ==
    /\ Started \/ pc \in {"call", "rejected"}
    /\ ~Started => /\ path = "none" /\ strategy = "none" /\ compiled = FALSE
                   /\ batches = <<>> /\ runners = <<>> /\ result = None
    /\ Started => /\ path \in {"per_shot", "single_pass"}
                  /\ strategy \in {"none", "serial", "threads", "processes"}
                  /\ compiled \in BOOLEAN
                  /\ path = "per_shot" => streams \in Spawned /\ Partitioned(batches, Iterations)
                  /\ path = "single_pass" => batches = <<<<1>>>>

RunnerType(p, limit) ==
    [done : Nat, at : 1..(Len(p) + 1), drawn : 0..limit,
     state : Histories(p), clbits : Registers(p), rows : Seq(Registers(p))]

\* Runner r of a batch of shots has the rows of the shots it finished, and is
\* where the shot it is in would be if it ran alone.
Follows(p, register, kinds, sts, batch, r) ==
    /\ \A i \in 1..r.done :
          r.rows[i] = Replayed(p, register, kinds, sts[batch[i]])[Len(p)].clbits
    /\ r.done < Len(batch) =>
          LET alone == Replayed(p, register, kinds, sts[batch[r.done + 1]])[r.at - 1]
          IN  r.state = alone.state /\ r.clbits = alone.clbits /\ r.drawn = alone.drawn

RunnerInv ==
    Started =>
      /\ runners \in [DOMAIN batches -> RunnerType(plan, MaxDraws)]
      /\ \A b \in DOMAIN batches :
            /\ runners[b].done <= Len(batches[b]) /\ Len(runners[b].rows) = runners[b].done
            /\ path = "per_shot" =>
                  Follows(plan, Register, ChancyKinds, streams, batches[b], runners[b])

ResultInv ==
    (result # None /\ path = "per_shot" /\ want.counts) =>
        \A n \in 1..shots : result.rows[n] = Alone(streams[n])

IInv == CallInv /\ PolicyInv /\ RunnerInv /\ ResultInv

-----------------------------------------------------------------------------
(* What the invariant says of a shot and of a batch.                       *)

LEMMA CallFacts ==
    ASSUME CallInv
    PROVE  /\ plan \in Plans /\ Len(plan) \in Nat
           /\ shots \in Nat /\ shots # 0 /\ workers \in Nat /\ workers # 0
           /\ Register \in Registers(plan)
           /\ MaxDraws \in Nat /\ "measure" \in ChancyKinds
           /\ ChancyKinds \subseteq {"measure", "reset", "channel"}
           /\ Iterations \in Nat /\ Iterations # 0 /\ Iterations <= shots
           /\ want.counts => Iterations = shots
<1>1. plan \in Plans /\ Len(plan) \in Nat
    BY PlanFacts DEF CallInv
<1>2. shots \in Nat /\ shots # 0 /\ workers \in Nat /\ workers # 0
    BY ExecutionAssumption DEF CallInv
<1>3. Register \in Registers(plan)
  <2>1. start \in [Clbits -> {0, 1}]
      BY ExecutionAssumption DEF CallInv
  <2>2. <<>> \in Seq((1..Len(plan)) \X {0, 1})
      BY EmptySeq
  <2>. QED BY <2>1, <2>2 DEF Register, Registers
<1>4. MaxDraws \in Nat
  <2>1. Len(plan) \in 0..Len(plan)
      BY <1>1
  <2>. QED BY <1>1, <2>1, SpentGrows DEF MaxDraws
<1>5. "measure" \in ChancyKinds /\ ChancyKinds \subseteq {"measure", "reset", "channel"}
    BY DEF ChancyKinds
<1>6. Iterations \in Nat /\ Iterations # 0 /\ Iterations <= shots /\ (want.counts => Iterations = shots)
    BY <1>2 DEF Iterations
<1>. QED BY <1>1, <1>2, <1>3, <1>4, <1>5, <1>6

\* A shot alone, on the stream it was given.
After(n) == Replayed(plan, Register, ChancyKinds, streams[n])

LEMMA OwnRun ==
    ASSUME CallInv, streams \in Spawned, NEW n \in 1..shots
    PROVE  /\ After(n)[0] = Begun(Register)
           /\ \A k \in 0..Len(plan) :
                 /\ After(n)[k].state \in Histories(plan)
                 /\ After(n)[k].clbits \in Registers(plan)
                 /\ After(n)[k].drawn \in 0..MaxDraws
           /\ \A k \in 1..Len(plan) :
                 /\ After(n)[k] = AloneStep(After(n)[k - 1], plan, k, ChancyKinds, streams[n])
                 /\ After(n)[k - 1].drawn + Cost(plan[k], ChancyKinds) <= MaxDraws
<1>. DEFINE all == {"measure", "reset", "channel"}
            S(k) == Spent(plan, ChancyKinds)[k]
            T(k) == Spent(plan, all)[k]
            R(k) == After(n)[k]
<1>1. plan \in Plans /\ Len(plan) \in Nat /\ Register \in Registers(plan) /\ MaxDraws \in Nat
        /\ "measure" \in ChancyKinds /\ ChancyKinds \subseteq all
    BY CallFacts
<1>. DEFINE m == Len(plan)
<1>2. streams[n] \in [1..S(m) -> Draws]
    BY DEF Spawned, StreamLength
<1>3. R(0) = Begun(Register)
    BY <1>1, ReplayedStarts DEF After
<1>4. \A k \in 0..m : /\ R(k).state \in Histories(plan) /\ R(k).clbits \in Registers(plan)
                      /\ R(k).drawn \in Nat /\ R(k).drawn <= S(k)
    BY <1>1, <1>2, AloneTyped DEF After
<1>5. ASSUME NEW k \in 1..m
      PROVE  R(k) = AloneStep(R(k - 1), plan, k, ChancyKinds, streams[n])
    BY <1>1, ReplayedUnfolds DEF After
<1>6. \A k \in 0..m : S(k) \in Nat /\ S(k) <= S(m)
    BY <1>1, SpentGrows
<1>7. S(m) <= T(m)
  <2>1. m \in 0..m
      BY <1>1
  <2>2. \A k \in 0..m : S(k) <= T(k)
    <3>. HIDE DEF all
    <3>. QED BY <1>1, SpentMonotone
  <2>. HIDE DEF S, T
  <2>. QED BY <2>1, <2>2
<1>8. MaxDraws = T(m)
    BY DEF MaxDraws
<1>9. \A k \in 1..m : S(k) = S(k - 1) + Cost(plan[k], ChancyKinds)
    BY <1>1, SpentUnfolds
<1>10. \A k \in 1..m : Cost(plan[k], ChancyKinds) \in Nat
    BY <1>1, CostFacts
<1>. HIDE DEF S, T, R
<1>11. ASSUME NEW k \in 0..m PROVE R(k).drawn \in 0..MaxDraws
    BY <1>1, <1>4, <1>6, <1>7, <1>8
<1>12. ASSUME NEW k \in 1..m PROVE R(k - 1).drawn + Cost(plan[k], ChancyKinds) <= MaxDraws
  <2>1. k - 1 \in 0..m /\ k \in 0..m
      BY <1>1
  <2>2. R(k - 1).drawn \in Nat /\ R(k - 1).drawn <= S(k - 1) /\ S(k - 1) \in Nat
          /\ S(k) \in Nat /\ S(k) <= S(m) /\ S(m) \in Nat
      BY <1>1, <1>4, <1>6, <2>1
  <2>3. S(k) = S(k - 1) + Cost(plan[k], ChancyKinds) /\ Cost(plan[k], ChancyKinds) \in Nat
      BY <1>9, <1>10
  <2>. QED BY <1>1, <1>7, <1>8, <2>2, <2>3
<1>. QED BY <1>3, <1>4, <1>5, <1>11, <1>12 DEF R

LEMMA BatchFacts ==
    ASSUME CallInv, Partitioned(batches, Iterations)
    PROVE  /\ DOMAIN batches = 1..Len(batches) /\ Len(batches) \in Nat
           /\ \A b \in DOMAIN batches :
                 /\ Len(batches[b]) \in Nat
                 /\ \A i \in 1..Len(batches[b]) : batches[b][i] \in 1..shots
<1>1. DOMAIN batches = 1..Len(batches) /\ Len(batches) \in Nat
    BY DEF Partitioned
<1>2. Iterations \in Nat /\ shots \in Nat /\ Iterations <= shots
    BY CallFacts
<1>3. PICK before \in [1..(Len(batches) + 1) -> 0..Iterations] :
        \A b \in 1..Len(batches) :
           /\ before[b] < before[b + 1]
           /\ Len(batches[b]) = before[b + 1] - before[b]
           /\ \A i \in 1..Len(batches[b]) : batches[b][i] = before[b] + i
    BY DEF Partitioned
<1>4. ASSUME NEW b \in 1..Len(batches)
      PROVE  /\ Len(batches[b]) \in Nat
             /\ \A i \in 1..Len(batches[b]) : batches[b][i] \in 1..shots
  <2>1. b \in 1..(Len(batches) + 1) /\ b + 1 \in 1..(Len(batches) + 1)
      BY <1>1
  <2>2. before[b] \in 0..Iterations /\ before[b + 1] \in 0..Iterations
      BY <2>1
  <2>3. Len(batches[b]) = before[b + 1] - before[b] /\ before[b] < before[b + 1]
          /\ \A i \in 1..Len(batches[b]) : batches[b][i] = before[b] + i
      BY <1>3
  <2>. HIDE DEF Iterations
  <2>. QED BY <1>2, <2>2, <2>3
<1>. QED BY <1>1, <1>4
-----------------------------------------------------------------------------
(* One runner's step.                                                      *)

\* The runners move one at a time: what is shown of the one that moved is
\* shown of all.
LEMMA RunnerMoves ==
    ASSUME IInv, Started, UNCHANGED <<call, policy>>,
           NEW b \in DOMAIN batches, NEW r \in RunnerType(plan, MaxDraws),
           r.done <= Len(batches[b]), Len(r.rows) = r.done,
           path = "per_shot" => Follows(plan, Register, ChancyKinds, streams, batches[b], r),
           runners' = [runners EXCEPT ![b] = r]
    PROVE  RunnerInv'
<1>1. /\ plan' = plan /\ start' = start /\ engine' = engine /\ path' = path
      /\ batches' = batches /\ streams' = streams
    BY DEF call, policy
<1>2. Register' = Register /\ ChancyKinds' = ChancyKinds /\ MaxDraws' = MaxDraws
    BY <1>1 DEF Register, ChancyKinds, stochastic, MaxDraws
<1>3. /\ runners \in [DOMAIN batches -> RunnerType(plan, MaxDraws)]
      /\ \A c \in DOMAIN batches :
            /\ runners[c].done <= Len(batches[c]) /\ Len(runners[c].rows) = runners[c].done
            /\ path = "per_shot" =>
                  Follows(plan, Register, ChancyKinds, streams, batches[c], runners[c])
    BY DEF IInv, RunnerInv
<1>4. runners' \in [DOMAIN batches -> RunnerType(plan, MaxDraws)]
    BY <1>3
<1>5. ASSUME NEW c \in DOMAIN batches
      PROVE  /\ runners'[c].done <= Len(batches[c]) /\ Len(runners'[c].rows) = runners'[c].done
             /\ path = "per_shot" =>
                   Follows(plan, Register, ChancyKinds, streams, batches[c], runners'[c])
  <2>1. CASE c = b
    <3>1. runners'[c] = r
        BY <1>3, <2>1
    <3>. QED BY <2>1, <3>1
  <2>2. CASE c # b
    <3>1. runners'[c] = runners[c]
        BY <1>3, <2>2
    <3>. QED BY <1>3, <3>1
  <2>. QED BY <2>1, <2>2
<1>. QED BY <1>1, <1>2, <1>4, <1>5 DEF RunnerInv

\* A runner that is in a shot, and what it shares with the shot alone.
LEMMA InAShot ==
    ASSUME IInv, Started, path = "per_shot", NEW b \in DOMAIN batches, Busy(b)
    PROVE  /\ ShotOf(b) \in 1..shots /\ streams \in Spawned
           /\ runners[b] \in RunnerType(plan, MaxDraws)
           /\ runners[b].done \in Nat /\ runners[b].done + 1 <= Len(batches[b])
           /\ Len(batches[b]) \in Nat
           /\ runners[b].state = After(ShotOf(b))[runners[b].at - 1].state
           /\ runners[b].clbits = After(ShotOf(b))[runners[b].at - 1].clbits
           /\ runners[b].drawn = After(ShotOf(b))[runners[b].at - 1].drawn
<1>. DEFINE r == runners[b]
<1>1. CallInv /\ streams \in Spawned /\ Partitioned(batches, Iterations)
    BY DEF IInv, PolicyInv
<1>2. Len(batches[b]) \in Nat /\ \A i \in 1..Len(batches[b]) : batches[b][i] \in 1..shots
    BY <1>1, BatchFacts
<1>3. r \in RunnerType(plan, MaxDraws)
        /\ Follows(plan, Register, ChancyKinds, streams, batches[b], r)
    BY DEF IInv, RunnerInv
<1>4. r.done \in Nat
    BY <1>3 DEF RunnerType
<1>5. r.done < Len(batches[b])
    BY DEF Busy
<1>6. r.done + 1 \in 1..Len(batches[b])
    BY <1>2, <1>4, <1>5
<1>7. ShotOf(b) = batches[b][r.done + 1]
    BY DEF ShotOf
<1>8. ShotOf(b) \in 1..shots
    BY <1>2, <1>6, <1>7
<1>9. /\ r.state = After(ShotOf(b))[r.at - 1].state
      /\ r.clbits = After(ShotOf(b))[r.at - 1].clbits
      /\ r.drawn = After(ShotOf(b))[r.at - 1].drawn
    BY <1>3, <1>5, <1>7 DEF Follows, After
<1>. QED BY <1>1, <1>2, <1>3, <1>4, <1>6, <1>8, <1>9

\* A runner that takes a step as the shot alone does still follows it.
LEMMA StepFollows ==
    ASSUME IInv, Started, UNCHANGED <<call, policy>>, path = "per_shot",
           NEW b \in DOMAIN batches, Busy(b), runners[b].at <= Len(plan),
           NEW r,
           r = [runners[b] EXCEPT !.at = runners[b].at + 1, !.state = r.state,
                                  !.clbits = r.clbits, !.drawn = r.drawn],
           LET k == runners[b].at
               alone == AloneStep(After(ShotOf(b))[k - 1], plan, k, ChancyKinds, streams[ShotOf(b)])
           IN  r.state = alone.state /\ r.clbits = alone.clbits /\ r.drawn = alone.drawn,
           runners' = [runners EXCEPT ![b] = r]
    PROVE  RunnerInv'
<1>. DEFINE k == runners[b].at
            n == ShotOf(b)
            A(i) == After(n)[i]
<1>1. /\ n \in 1..shots /\ streams \in Spawned /\ runners[b] \in RunnerType(plan, MaxDraws)
      /\ runners[b].done \in Nat /\ runners[b].done + 1 <= Len(batches[b])
      /\ Len(batches[b]) \in Nat
    BY InAShot
<1>2. CallInv /\ Len(plan) \in Nat
    BY CallFacts DEF IInv
<1>3. k \in 1..Len(plan) /\ k \in 0..Len(plan) /\ k + 1 \in 1..(Len(plan) + 1) /\ (k + 1) - 1 = k
    BY <1>1, <1>2 DEF RunnerType
<1>4. A(k) = AloneStep(A(k - 1), plan, k, ChancyKinds, streams[n])
    BY <1>1, <1>2, <1>3, OwnRun
<1>5. A(k).state \in Histories(plan) /\ A(k).clbits \in Registers(plan) /\ A(k).drawn \in 0..MaxDraws
    BY <1>1, <1>2, <1>3, OwnRun
<1>6. r.state = A(k).state /\ r.clbits = A(k).clbits /\ r.drawn = A(k).drawn
    BY <1>4
<1>7. r.at = k + 1 /\ r.done = runners[b].done /\ r.rows = runners[b].rows
    BY <1>1 DEF RunnerType
<1>8. r \in RunnerType(plan, MaxDraws)
  <2>. HIDE DEF A
  <2>. QED BY <1>1, <1>3, <1>5, <1>6, <1>7 DEF RunnerType
<1>9. /\ Follows(plan, Register, ChancyKinds, streams, batches[b], runners[b])
      /\ runners[b].done <= Len(batches[b]) /\ Len(runners[b].rows) = runners[b].done
    BY DEF IInv, RunnerInv
<1>10. Follows(plan, Register, ChancyKinds, streams, batches[b], r)
  <2>1. \A i \in 1..r.done :
           r.rows[i] = Replayed(plan, Register, ChancyKinds, streams[batches[b][i]])[Len(plan)].clbits
      BY <1>7, <1>9 DEF Follows
  <2>2. Replayed(plan, Register, ChancyKinds, streams[batches[b][r.done + 1]])[r.at - 1] = A(k)
      BY <1>3, <1>7 DEF After, ShotOf
  <2>. HIDE DEF A
  <2>. QED BY <1>6, <2>1, <2>2 DEF Follows
<1>. QED BY <1>7, <1>8, <1>9, <1>10, RunnerMoves
\* The draws that the next step may ask for are the shot's own.
LEMMA OwnDraws ==
    ASSUME IInv, Started, path = "per_shot", NEW b \in DOMAIN batches, Busy(b),
           runners[b].at <= Len(plan)
    PROVE  LET r == runners[b]
           IN  /\ r.at \in 1..Len(plan) /\ r.drawn \in Nat
               /\ \A j \in 1..Cost(plan[r.at], ChancyKinds) :
                     DrawOf(ShotOf(b), r.drawn + j) = {streams[ShotOf(b)][r.drawn + j]}
<1>. DEFINE r == runners[b]
            k == r.at
            n == ShotOf(b)
            cost == Cost(plan[k], ChancyKinds)
<1>1. /\ n \in 1..shots /\ streams \in Spawned /\ r \in RunnerType(plan, MaxDraws)
      /\ r.drawn = After(n)[k - 1].drawn
    BY InAShot
<1>2. CallInv /\ plan \in Plans /\ Len(plan) \in Nat /\ shots \in Nat /\ MaxDraws \in Nat
        /\ compiled \in BOOLEAN
    BY CallFacts DEF IInv, PolicyInv
<1>3. k \in 1..Len(plan)
    BY <1>1, <1>2 DEF RunnerType
<1>4. After(n)[k - 1].drawn + cost <= MaxDraws
    BY <1>1, <1>2, <1>3, OwnRun
<1>5. cost \in Nat
    BY <1>2, <1>3, CostFacts
<1>6. r.drawn \in Nat
    BY <1>1, <1>2 DEF RunnerType
<1>7. ASSUME NEW j \in 1..cost PROVE DrawOf(n, r.drawn + j) = {streams[n][r.drawn + j]}
  <2>1. r.drawn + j \in 1..MaxDraws
    <3>. HIDE DEF cost, r, n
    <3>. QED BY <1>1, <1>2, <1>4, <1>5, <1>6
  <2>. HIDE DEF r, n
  <2>. QED BY <1>1, <1>2, <2>1, DrawIsOwn
<1>. QED BY <1>3, <1>6, <1>7

\* A gate, or a channel or reset that chance has no part in.
LEMMA DeterministicFollows ==
    ASSUME IInv, Started, UNCHANGED <<call, policy>>, path = "per_shot",
           NEW b \in DOMAIN batches, Busy(b), runners[b].at <= Len(plan), Deterministic(b)
    PROVE  RunnerInv'
<1>. DEFINE r == runners[b]
            k == r.at
            a == After(ShotOf(b))[k - 1]
            next == [r EXCEPT !.at = @ + 1,
                              !.state = IF Matches(plan[k].condition, r.clbits)
                                          THEN Touch(@, k, Targets(plan[k]), Undrawn) ELSE @]
            alone == AloneStep(a, plan, k, ChancyKinds, streams[ShotOf(b)])
<1>1. /\ r \in RunnerType(plan, MaxDraws)
      /\ r.state = a.state /\ r.clbits = a.clbits /\ r.drawn = a.drawn
    BY InAShot
<1>2. CallInv /\ plan \in Plans /\ k \in 1..Len(plan)
    BY CallFacts, OwnDraws DEF IInv
<1>3. runners' = [runners EXCEPT ![b] = next]
    BY DEF Deterministic
<1>4. ~IsMeasurement(plan[k]) /\ plan[k].kind \notin ChancyKinds
    BY DEF Deterministic, IsMeasurement, ChancyKinds
<1>5. Cost(plan[k], ChancyKinds) = 0
    BY <1>2, <1>4, CostFacts DEF IsMeasurement
<1>6. r.drawn \in Nat
    BY OwnDraws
<1>7. /\ next.at = k + 1 /\ next.clbits = r.clbits /\ next.drawn = r.drawn
      /\ next.done = r.done /\ next.rows = r.rows
      /\ next.state = IF Matches(plan[k].condition, r.clbits)
                        THEN Touch(r.state, k, Targets(plan[k]), Undrawn) ELSE r.state
    BY <1>1 DEF RunnerType
<1>8. next.state = alone.state /\ next.clbits = alone.clbits /\ next.drawn = alone.drawn
  <2>1. CASE ~Matches(plan[k].condition, r.clbits)
    <3>1. alone = a
        BY <1>1, <2>1 DEF AloneStep
    <3>. HIDE DEF next, alone, a
    <3>. QED BY <1>1, <1>7, <2>1, <3>1
  <2>2. CASE Matches(plan[k].condition, r.clbits)
    <3>1. /\ alone.state = Touch(a.state, k, Targets(plan[k]), Undrawn)
          /\ alone.clbits = a.clbits
          /\ alone.drawn = a.drawn + Cost(plan[k], ChancyKinds)
        BY <1>1, <1>4, <2>2 DEF AloneStep
    <3>. HIDE DEF next, alone, a
    <3>. QED BY <1>1, <1>5, <1>6, <1>7, <2>2, <3>1
  <2>. QED BY <2>1, <2>2
<1>9. next = [r EXCEPT !.at = r.at + 1, !.state = next.state,
                       !.clbits = next.clbits, !.drawn = next.drawn]
    BY <1>1 DEF RunnerType
<1>. HIDE DEF next
<1>. QED BY <1>3, <1>8, <1>9, StepFollows

\* A channel or reset of a statevector.
LEMMA BranchFollows ==
    ASSUME IInv, Started, UNCHANGED <<call, policy>>, path = "per_shot",
           NEW b \in DOMAIN batches, Busy(b), runners[b].at <= Len(plan), Branch(b)
    PROVE  RunnerInv'
<1>. DEFINE r == runners[b]
            k == r.at
            a == After(ShotOf(b))[k - 1]
            draw == streams[ShotOf(b)][r.drawn + 1]
            next == IF Matches(plan[k].condition, r.clbits)
                      THEN [r EXCEPT !.at = @ + 1, !.drawn = @ + 1,
                                     !.state = Touch(@, k, Targets(plan[k]), draw)]
                      ELSE [r EXCEPT !.at = @ + 1]
            alone == AloneStep(a, plan, k, ChancyKinds, streams[ShotOf(b)])
<1>1. /\ r \in RunnerType(plan, MaxDraws)
      /\ r.state = a.state /\ r.clbits = a.clbits /\ r.drawn = a.drawn
    BY InAShot
<1>2. CallInv /\ plan \in Plans /\ k \in 1..Len(plan) /\ r.drawn \in Nat
    BY CallFacts, OwnDraws DEF IInv
<1>3. plan[k].kind \in ChancyKinds /\ plan[k].kind # "measure"
    BY DEF Branch, ChancyKinds
<1>4. Cost(plan[k], ChancyKinds) = 1
  <2>1. ~plan[k].confused
      BY <1>2, <1>3, StepFacts
  <2>. QED BY <1>2, <1>3, <2>1, CostFacts
<1>5. DrawOf(ShotOf(b), r.drawn + 1) = {draw}
  <2>1. 1 \in 1..Cost(plan[k], ChancyKinds)
      BY <1>4
  <2>. QED BY <2>1, OwnDraws
<1>6. runners' = [runners EXCEPT ![b] = next]
    BY <1>5 DEF Branch
<1>7. /\ next.at = k + 1 /\ next.clbits = r.clbits /\ next.done = r.done /\ next.rows = r.rows
      /\ Matches(plan[k].condition, r.clbits) =>
            next.drawn = r.drawn + 1 /\ next.state = Touch(r.state, k, Targets(plan[k]), draw)
      /\ ~Matches(plan[k].condition, r.clbits) => next.drawn = r.drawn /\ next.state = r.state
    BY <1>1 DEF RunnerType
<1>8. next.state = alone.state /\ next.clbits = alone.clbits /\ next.drawn = alone.drawn
  <2>1. CASE ~Matches(plan[k].condition, r.clbits)
    <3>1. alone = a
        BY <1>1, <2>1 DEF AloneStep
    <3>. HIDE DEF next, alone, a
    <3>. QED BY <1>1, <1>7, <2>1, <3>1
  <2>2. CASE Matches(plan[k].condition, r.clbits)
    <3>1. /\ alone.state = Touch(a.state, k, Targets(plan[k]), draw)
          /\ alone.clbits = a.clbits
          /\ alone.drawn = a.drawn + Cost(plan[k], ChancyKinds)
        BY <1>1, <1>3, <2>2 DEF AloneStep, IsMeasurement
    <3>. HIDE DEF next, alone, a
    <3>. QED BY <1>1, <1>4, <1>7, <2>2, <3>1
  <2>. QED BY <2>1, <2>2
<1>9. next = [r EXCEPT !.at = r.at + 1, !.state = next.state,
                       !.clbits = next.clbits, !.drawn = next.drawn]
    BY <1>1 DEF RunnerType
<1>. HIDE DEF next
<1>. QED BY <1>6, <1>8, <1>9, StepFollows
\* A measurement: its digits, and a further draw for each confused report.
LEMMA MeasureFollows ==
    ASSUME IInv, Started, UNCHANGED <<call, policy>>, path = "per_shot",
           NEW b \in DOMAIN batches, Busy(b), runners[b].at <= Len(plan), Measure(b)
    PROVE  RunnerInv'
<1>. DEFINE r == runners[b]
            k == r.at
            step == plan[k]
            a == After(ShotOf(b))[k - 1]
            stream == streams[ShotOf(b)]
            draw == stream[r.drawn + 1]
            Report(j) == IF step.confused THEN stream[r.drawn + 1 + j][step.targets[j]]
                         ELSE IF step.flips THEN 1 - draw[step.targets[j]] ELSE draw[step.targets[j]]
            reports == [j \in Positions(step) |-> Report(j)]
            cost == 1 + (IF step.confused THEN Len(step.targets) ELSE 0)
            next == [r EXCEPT !.at = @ + 1, !.drawn = @ + cost,
                              !.state = Touch(@, k, Targets(step), draw),
                              !.clbits = Write(@, step, reports, r.state)]
            alone == AloneStep(a, plan, k, ChancyKinds, stream)
<1>1. /\ r \in RunnerType(plan, MaxDraws)
      /\ r.state = a.state /\ r.clbits = a.clbits /\ r.drawn = a.drawn
    BY InAShot
<1>2. CallInv /\ plan \in Plans /\ k \in 1..Len(plan) /\ r.drawn \in Nat
    BY CallFacts, OwnDraws DEF IInv
<1>3. step.kind = "measure" /\ IsMeasurement(step) /\ step.kind \in ChancyKinds
    BY CallFacts DEF Measure, IsMeasurement, IInv
<1>4. step.condition = {} /\ Len(step.targets) \in Nat /\ step.confused \in BOOLEAN
    BY <1>2, <1>3, StepFacts
<1>5. Cost(step, ChancyKinds) = cost /\ cost \in Nat /\ cost >= 1
  <2>1. CASE step.confused
    <3>1. Cost(step, ChancyKinds) = Len(step.targets) + 1
        BY <1>2, <1>3, <2>1, CostFacts
    <3>. HIDE DEF step
    <3>. QED BY <1>4, <2>1, <3>1
  <2>2. CASE ~step.confused
    <3>1. Cost(step, ChancyKinds) = 1
        BY <1>2, <1>3, <2>2, CostFacts
    <3>. HIDE DEF step
    <3>. QED BY <2>2, <3>1
  <2>. QED BY <1>4, <2>1, <2>2
<1>6. \A j \in 1..cost : DrawOf(ShotOf(b), r.drawn + j) = {stream[r.drawn + j]}
    BY <1>5, OwnDraws
<1>7. DrawOf(ShotOf(b), r.drawn + 1) = {draw}
  <2>1. 1 \in 1..cost
    <3>. HIDE DEF cost
    <3>. QED BY <1>5
  <2>. HIDE DEF cost
  <2>. QED BY <1>6, <2>1
<1>8. ASSUME NEW j \in Positions(step)
      PROVE  ReportOf(step, ShotOf(b), r.drawn + 1, draw, j) = {Report(j)}
  <2>1. CASE step.confused
    <3>1. j \in 1..Len(step.targets) /\ cost = 1 + Len(step.targets)
        BY <2>1 DEF Positions
    <3>2. 1 + j \in 1..cost /\ r.drawn + (1 + j) = r.drawn + 1 + j
      <4>. HIDE DEF cost, step, r
      <4>. QED BY <1>2, <1>4, <3>1
    <3>3. DrawOf(ShotOf(b), r.drawn + 1 + j) = {stream[r.drawn + 1 + j]}
      <4>. HIDE DEF cost, r
      <4>. QED BY <1>6, <3>2
    <3>4. ReportOf(step, ShotOf(b), r.drawn + 1, draw, j)
            = {d[step.targets[j]] : d \in DrawOf(ShotOf(b), r.drawn + 1 + j)}
      <4>. HIDE DEF step, r, draw
      <4>. QED BY <2>1 DEF ReportOf
    <3>. HIDE DEF stream, step, r
    <3>. QED BY <2>1, <3>3, <3>4
  <2>2. CASE ~step.confused
    <3>. HIDE DEF step, draw, stream
    <3>. QED BY <2>2 DEF ReportOf
  <2>. QED BY <1>4, <2>1, <2>2
<1>9. runners' = [runners EXCEPT ![b] = next]
  <2>1. PICK digits \in DrawOf(ShotOf(b), r.drawn + 1), reps \in [Positions(step) -> {0, 1}] :
          /\ \A j \in Positions(step) : reps[j] \in ReportOf(step, ShotOf(b), r.drawn + 1, digits, j)
          /\ runners' = [runners EXCEPT ![b] =
                [r EXCEPT !.at = @ + 1,
                          !.drawn = @ + 1 + (IF step.confused THEN Len(step.targets) ELSE 0),
                          !.state = Touch(@, k, Targets(step), digits),
                          !.clbits = Write(@, step, reps, r.state)]]
      BY DEF Measure
  <2>2. digits = draw
    <3>. HIDE DEF draw
    <3>. QED BY <1>7
  <2>3. ASSUME NEW j \in Positions(step) PROVE reps[j] = reports[j]
    <3>1. reps[j] \in {Report(j)}
      <4>. HIDE DEF Report, draw
      <4>. QED BY <1>8, <2>1, <2>2
    <3>. HIDE DEF Report
    <3>. QED BY <3>1
  <2>4. reps = reports
    <3>1. reps = [j \in Positions(step) |-> reps[j]]
        OBVIOUS
    <3>2. reports = [j \in Positions(step) |-> reports[j]]
        OBVIOUS
    <3>. HIDE DEF reports
    <3>. QED BY <2>3, <3>1, <3>2
  <2>5. r.drawn + 1 + (IF step.confused THEN Len(step.targets) ELSE 0) = r.drawn + cost
    <3>. HIDE DEF r, step
    <3>. QED BY <1>2, <1>4
  <2>. HIDE DEF draw, reports, cost, step
  <2>. QED BY <2>1, <2>2, <2>4, <2>5
<1>10. /\ next.at = k + 1 /\ next.done = r.done /\ next.rows = r.rows
       /\ next.drawn = r.drawn + cost /\ next.state = Touch(r.state, k, Targets(step), draw)
       /\ next.clbits = Write(r.clbits, step, reports, r.state)
  <2>. HIDE DEF draw, reports, cost, step
  <2>. QED BY <1>1 DEF RunnerType
<1>11. next.state = alone.state /\ next.clbits = alone.clbits /\ next.drawn = alone.drawn
  <2>1. Matches(step.condition, a.clbits)
      BY <1>4 DEF Matches
  <2>2. a.drawn = r.drawn /\ a.state = r.state /\ a.clbits = r.clbits
      BY <1>1
  <2>3. /\ alone.state = Touch(a.state, k, Targets(step), stream[a.drawn + 1])
        /\ alone.drawn = a.drawn + Cost(step, ChancyKinds)
        /\ alone.clbits = Write(a.clbits, step,
              [j \in Positions(step) |->
                 IF step.confused THEN stream[a.drawn + 1 + j][step.targets[j]]
                 ELSE IF step.flips THEN 1 - stream[a.drawn + 1][step.targets[j]]
                 ELSE stream[a.drawn + 1][step.targets[j]]], a.state)
    <3>. HIDE DEF a, stream
    <3>. QED BY <1>3, <2>1 DEF AloneStep
  <2>. HIDE DEF next, alone, a, stream, step
  <2>. QED BY <1>5, <1>10, <2>2, <2>3
<1>12. next = [r EXCEPT !.at = r.at + 1, !.state = next.state,
                        !.clbits = next.clbits, !.drawn = next.drawn]
  <2>. HIDE DEF draw, reports, cost, step
  <2>. QED BY <1>1 DEF RunnerType
<1>. HIDE DEF next
<1>. QED BY <1>9, <1>11, <1>12, StepFollows

\* A shot is over; the row is the one it would have had alone.
LEMMA FinishFollows ==
    ASSUME IInv, Started, NEW b \in DOMAIN batches, FinishShot(b)
    PROVE  RunnerInv'
<1>. DEFINE r == runners[b]
            over == r.done + 1 = Len(batches[b])
            next == [Idle EXCEPT !.done = r.done + 1,
                                 !.rows = Append(r.rows, r.clbits),
                                 !.state = IF over THEN r.state ELSE Blank,
                                 !.clbits = IF over THEN r.clbits ELSE Register]
            m == Len(plan)
            A(n) == Replayed(plan, Register, ChancyKinds, streams[n])
<1>1. /\ path = "per_shot" /\ Busy(b) /\ r.at > m /\ UNCHANGED <<call, policy>>
      /\ runners' = [runners EXCEPT ![b] = next]
    BY DEF FinishShot
<1>2. /\ ShotOf(b) \in 1..shots /\ streams \in Spawned /\ r \in RunnerType(plan, MaxDraws)
      /\ r.done \in Nat /\ r.done + 1 <= Len(batches[b]) /\ Len(batches[b]) \in Nat
      /\ r.clbits = After(ShotOf(b))[r.at - 1].clbits
    BY <1>1, InAShot
<1>3. CallInv /\ m \in Nat /\ Register \in Registers(plan) /\ MaxDraws \in Nat
    BY CallFacts DEF IInv
<1>4. r.at - 1 = m
    BY <1>1, <1>2, <1>3 DEF RunnerType
<1>5. ShotOf(b) = batches[b][r.done + 1]
    BY DEF ShotOf
<1>6. r.clbits = A(batches[b][r.done + 1])[m].clbits
    BY <1>2, <1>4, <1>5 DEF After
<1>7. Follows(plan, Register, ChancyKinds, streams, batches[b], r) /\ Len(r.rows) = r.done
    BY <1>1 DEF IInv, RunnerInv
<1>8. r.rows \in Seq(Registers(plan)) /\ r.clbits \in Registers(plan) /\ r.state \in Histories(plan)
    BY <1>2 DEF RunnerType
<1>9. /\ next.done = r.done + 1 /\ next.rows = Append(r.rows, r.clbits)
      /\ next.at = 1 /\ next.drawn = 0
      /\ next.state = (IF over THEN r.state ELSE Blank)
      /\ next.clbits = (IF over THEN r.clbits ELSE Register)
    BY DEF Idle
<1>10. Blank \in Histories(plan)
    BY EmptySeq DEF Blank, Histories
<1>11. next \in RunnerType(plan, MaxDraws)
  <2>1. Idle \in RunnerType(plan, MaxDraws)
    <3>1. <<>> \in Seq(Registers(plan)) /\ 1 \in 1..(m + 1) /\ 0 \in 0..MaxDraws
        BY <1>3, EmptySeq
    <3>. QED BY <1>3, <1>10, <3>1 DEF Idle, RunnerType
  <2>. DEFINE rows     == Append(r.rows, r.clbits)
              state    == IF over THEN r.state ELSE Blank
              register == IF over THEN r.clbits ELSE Register
  <2>2. rows \in Seq(Registers(plan))
      BY <1>8, AppendProperties
  <2>3. state \in Histories(plan) /\ register \in Registers(plan)
      BY <1>3, <1>8, <1>10
  <2>4. next = [Idle EXCEPT !.done = r.done + 1, !.rows = rows, !.state = state, !.clbits = register]
      OBVIOUS
  <2>5. r.done + 1 \in Nat
      BY <1>2
  <2>6. \A x \in RunnerType(plan, MaxDraws), done \in Nat, list \in Seq(Registers(plan)),
            st \in Histories(plan), cells \in Registers(plan) :
           [x EXCEPT !.done = done, !.rows = list, !.state = st, !.clbits = cells]
              \in RunnerType(plan, MaxDraws)
      BY DEF RunnerType
  <2>. HIDE DEF next, rows, state, register
  <2>. QED BY <2>1, <2>2, <2>3, <2>4, <2>5, <2>6
<1>12. Len(next.rows) = next.done /\ next.done <= Len(batches[b])
  <2>1. Len(Append(r.rows, r.clbits)) = Len(r.rows) + 1
      BY <1>8, AppendProperties
  <2>. HIDE DEF next
  <2>. QED BY <1>2, <1>7, <1>9, <2>1
<1>. HIDE DEF A
<1>13. \A i \in 1..next.done : next.rows[i] = A(batches[b][i])[m].clbits
  <2>1. \A i \in 1..r.done : r.rows[i] = A(batches[b][i])[m].clbits
      BY <1>7 DEF Follows, A
  <2>2. ASSUME NEW i \in 1..(r.done + 1)
        PROVE  Append(r.rows, r.clbits)[i] = A(batches[b][i])[m].clbits
    <3>1. Append(r.rows, r.clbits)[i] = IF i = r.done + 1 THEN r.clbits ELSE r.rows[i]
        BY <1>2, <1>7, <1>8, AppendProperties
    <3>2. CASE i = r.done + 1
        BY <1>6, <3>1, <3>2
    <3>3. CASE i # r.done + 1
      <4>1. i \in 1..r.done
          BY <1>2, <3>3
      <4>. QED BY <2>1, <3>1, <3>3, <4>1
    <3>. QED BY <3>2, <3>3
  <2>. HIDE DEF next
  <2>. QED BY <1>9, <2>2
<1>14. next.done < Len(batches[b]) =>
          LET alone == A(batches[b][next.done + 1])[next.at - 1]
          IN  next.state = alone.state /\ next.clbits = alone.clbits /\ next.drawn = alone.drawn
  <2>1. \A n : A(n)[0] = Begun(Register)
      BY <1>3, ReplayedStarts DEF A
  <2>2. next.done < Len(batches[b]) => ~over
    <3>. HIDE DEF next
    <3>. QED BY <1>2, <1>9
  <2>. HIDE DEF next, over
  <2>. QED BY <1>9, <2>1, <2>2 DEF Begun
<1>15. Follows(plan, Register, ChancyKinds, streams, batches[b], next)
  <2>. HIDE DEF next
  <2>. QED BY <1>13, <1>14 DEF Follows, A
<1>. HIDE DEF next
<1>. QED BY <1>1, <1>11, <1>12, <1>15, RunnerMoves
-----------------------------------------------------------------------------
(* The other actions, and the theorem.                                     *)

LEMMA ReplayKeeps ==
    ASSUME IInv, Started, NEW b \in DOMAIN batches, Replay(b)
    PROVE  RunnerInv'
<1>1. path = "per_shot" /\ Busy(b) /\ runners[b].at <= Len(plan) /\ UNCHANGED <<call, policy>>
    BY DEF Replay
<1>2. CASE Deterministic(b)
    BY <1>1, <1>2, DeterministicFollows
<1>3. CASE Branch(b)
    BY <1>1, <1>3, BranchFollows
<1>4. CASE Measure(b)
    BY <1>1, <1>4, MeasureFollows
<1>. QED BY <1>2, <1>3, <1>4 DEF Replay

LEMMA EvolveKeeps ==
    ASSUME IInv, Started, EvolveOnce
    PROVE  RunnerInv'
<1>. DEFINE r == runners[1]
            k == r.at
            st == IF Matches(plan[k].condition, r.clbits)
                    THEN Touch(r.state, k, Targets(plan[k]), Undrawn) ELSE r.state
            skipped == [r EXCEPT !.at = @ + 1]
            touched == [r EXCEPT !.at = @ + 1, !.state = st]
<1>1. path = "single_pass" /\ k <= Len(plan) /\ UNCHANGED <<call, policy>>
    BY DEF EvolveOnce
<1>2. batches = <<<<1>>>> /\ 1 \in DOMAIN batches
    BY <1>1 DEF IInv, PolicyInv
<1>3. /\ r \in RunnerType(plan, MaxDraws)
      /\ r.done <= Len(batches[1]) /\ Len(r.rows) = r.done
    BY <1>2 DEF IInv, RunnerInv
<1>4. plan \in Plans /\ Len(plan) \in Nat
    BY CallFacts DEF IInv
<1>5. k \in 1..Len(plan) /\ k + 1 \in 1..(Len(plan) + 1)
    BY <1>1, <1>3, <1>4 DEF RunnerType
<1>6. r.state \in Histories(plan) /\ Undrawn \in [Subsystems -> {0, 1}]
    BY <1>3 DEF RunnerType, Undrawn
<1>7. st \in Histories(plan)
  <2>1. Touch(r.state, k, Targets(plan[k]), Undrawn) \in Histories(plan)
      BY <1>4, <1>5, <1>6, TouchTyped
  <2>. QED BY <1>6, <2>1
<1>8. runners' = [runners EXCEPT ![1] = skipped] \/ runners' = [runners EXCEPT ![1] = touched]
  <2>1. CASE IsMeasurement(plan[k])
    <3>1. runners' = [runners EXCEPT ![1].at = @ + 1]
        BY <2>1 DEF EvolveOnce
    <3>. QED BY <3>1
  <2>2. CASE ~IsMeasurement(plan[k])
      BY <2>2 DEF EvolveOnce, Deterministic
  <2>. QED BY <2>1, <2>2
<1>9. skipped \in RunnerType(plan, MaxDraws) /\ skipped.done = r.done /\ skipped.rows = r.rows
    BY <1>3, <1>5 DEF RunnerType
<1>10. touched \in RunnerType(plan, MaxDraws) /\ touched.done = r.done /\ touched.rows = r.rows
  <2>. HIDE DEF st
  <2>. QED BY <1>3, <1>5, <1>7 DEF RunnerType
<1>11. path # "per_shot"
    BY <1>1
<1>. HIDE DEF skipped, touched
<1>12. CASE runners' = [runners EXCEPT ![1] = skipped]
    BY <1>1, <1>2, <1>3, <1>9, <1>11, <1>12, RunnerMoves
<1>13. CASE runners' = [runners EXCEPT ![1] = touched]
    BY <1>1, <1>2, <1>3, <1>10, <1>11, <1>13, RunnerMoves
<1>. QED BY <1>8, <1>12, <1>13

\* The rows that are gathered are those of the shots, in order.
LEMMA CollectKeeps ==
    ASSUME IInv, Started, Collect
    PROVE  ResultInv'
<1>1. /\ path = "per_shot" /\ \A b \in DOMAIN batches : ~Busy(b)
      /\ plan' = plan /\ start' = start /\ engine' = engine /\ streams' = streams
      /\ shots' = shots /\ want' = want
    BY DEF Collect, call, policy
<1>2. CallInv /\ streams \in Spawned /\ Partitioned(batches, Iterations)
    BY <1>1 DEF IInv, PolicyInv
<1>3. Register' = Register /\ ChancyKinds' = ChancyKinds
    BY <1>1 DEF Register, ChancyKinds, stochastic
<1>4. \A n : Alone(streams[n])' = Alone(streams[n])
    BY <1>1, <1>3 DEF Alone
<1>5. SUFFICES ASSUME want.counts
               PROVE  \A n \in 1..shots : result'.rows[n] = Alone(streams[n])
    BY <1>1, <1>4 DEF ResultInv
<1>6. result'.rows = Gathered(runners, Len(batches))[Len(batches)]
    BY <1>5 DEF Collect
<1>7. /\ Iterations = shots /\ shots \in Nat /\ Len(plan) \in Nat
      /\ DOMAIN batches = 1..Len(batches)
      /\ \A b \in DOMAIN batches :
            /\ Len(batches[b]) \in Nat
            /\ \A i \in 1..Len(batches[b]) : batches[b][i] \in 1..shots
    BY <1>2, <1>5, BatchFacts, CallFacts
<1>. DEFINE R == Registers(plan)
            f == [n \in 1..shots |-> Alone(streams[n])]
<1>8. ASSUME NEW n \in 1..shots PROVE Alone(streams[n]) \in R
  <2>1. Len(plan) \in 0..Len(plan)
      BY <1>7
  <2>2. After(n)[Len(plan)].clbits \in R
      BY <1>2, <2>1, OwnRun
  <2>. QED BY <2>2 DEF After, Alone
<1>9. f \in [1..shots -> R]
  <2>. HIDE DEF R
  <2>. QED BY <1>8
<1>10. ASSUME NEW b \in 1..Len(batches)
       PROVE  /\ runners[b].rows \in Seq(R) /\ Len(runners[b].rows) = Len(batches[b])
              /\ \A i \in 1..Len(batches[b]) : runners[b].rows[i] = f[batches[b][i]]
  <2>1. /\ runners[b] \in RunnerType(plan, MaxDraws)
        /\ runners[b].done <= Len(batches[b]) /\ Len(runners[b].rows) = runners[b].done
        /\ Follows(plan, Register, ChancyKinds, streams, batches[b], runners[b])
      BY <1>1, <1>7 DEF IInv, RunnerInv
  <2>2. runners[b].done \in Nat /\ runners[b].rows \in Seq(R)
      BY <2>1 DEF RunnerType
  <2>3. ~(runners[b].done < Len(batches[b]))
      BY <1>1, <1>7 DEF Busy
  <2>4. runners[b].done = Len(batches[b])
      BY <1>7, <2>1, <2>2, <2>3
  <2>5. \A i \in 1..Len(batches[b]) : runners[b].rows[i] = Alone(streams[batches[b][i]])
      BY <2>1, <2>4 DEF Follows, Alone
  <2>6. \A i \in 1..Len(batches[b]) : f[batches[b][i]] = Alone(streams[batches[b][i]])
      BY <1>7
  <2>. HIDE DEF f, R
  <2>. QED BY <2>1, <2>2, <2>4, <2>5, <2>6
<1>11. ASSUME NEW n \in 1..shots
       PROVE  Gathered(runners, Len(batches))[Len(batches)][n] = f[n]
  <2>1. Partitioned(batches, shots)
      BY <1>2, <1>7
  <2>2. HaveRows(runners, batches, f, R)
    <3>. HIDE DEF f, R
    <3>. QED BY <1>10 DEF HaveRows
  <2>. HIDE DEF f, R
  <2>3. Agreeing(Gathered(runners, Len(batches))[Len(batches)], f, shots)
      BY <1>7, <1>9, <2>1, <2>2, GatheredRows
  <2>. QED BY <2>3 DEF Agreeing
<1>. QED BY <1>6, <1>11

\* The policy: who needs trajectories gets batches that partition the shots,
\* and nobody else is split at all.
LEMMA StrategyFacts ==
    ASSUME CallInv, ~Rejected, Strategy # "unsupported"
    PROVE  /\ NeedsTrajectories => Strategy \in {"serial", "threads", "processes"}
           /\ ~NeedsTrajectories => Strategy = "none"
           /\ NeedsTrajectories => Partitioned(Batches(Strategy), Iterations)
           /\ Strategy = "none" => Batches(Strategy) = <<<<1>>>>
<1>1. Strategy \in {"none", "serial", "threads", "processes"}
    BY DEF Strategy
<1>2. NeedsTrajectories => Strategy # "none"
    BY DEF Strategy
<1>3. ~NeedsTrajectories => Strategy = "none"
    BY DEF Strategy, UsesCompiled, Rejected
<1>4. Strategy = "none" => Batches(Strategy) = <<<<1>>>>
    BY DEF Batches
<1>5. ASSUME NEW how \in {"serial", "threads", "processes"}
      PROVE  Partitioned(Batches(how), Iterations)
  <2>. DEFINE n == Iterations
              items == [i \in 1..n |-> i]
  <2>1. n \in Nat \ {0} /\ workers \in Nat \ {0}
      BY CallFacts
  <2>2. n = IF want.counts THEN shots ELSE 1
      BY DEF Iterations
  <2>. HIDE DEF n
  <2>3. CASE how = "threads"
    <3>1. Batches(how) = [b \in 1..n |-> <<b>>]
        BY <2>2, <2>3 DEF Batches
    <3>. QED BY <2>1, <3>1, ThreadsPartition DEF n
  <2>4. CASE how = "processes"
    <3>1. Batches(how) = SplitIntoBatches(items, workers)
        BY <2>2, <2>4 DEF Batches
    <3>. QED BY <2>1, <3>1, SplitPartition DEF n
  <2>5. CASE how = "serial"
    <3>1. Batches(how) = <<items>>
        BY <2>2, <2>5 DEF Batches
    <3>. QED BY <2>1, <3>1, SerialPartition DEF n
  <2>. QED BY <2>3, <2>4, <2>5
<1>. QED BY <1>1, <1>2, <1>3, <1>4, <1>5
LEMMA DispatchKeeps ==
    ASSUME IInv, Dispatch
    PROVE  PolicyInv' /\ RunnerInv' /\ ResultInv'
<1>1. /\ pc = "call" /\ ~Rejected /\ Strategy # "unsupported" /\ pc' = "run"
      /\ path' = (IF NeedsTrajectories THEN "per_shot" ELSE "single_pass")
      /\ strategy' = Strategy
      /\ streams' \in (IF NeedsTrajectories THEN Spawned ELSE {<<>>})
      /\ batches' = Batches(Strategy)
      /\ runners' = [b \in 1..Len(batches') |-> Idle]
      /\ UNCHANGED <<call, result>>
    BY DEF Dispatch
<1>2. /\ CallInv /\ result = None /\ plan' = plan /\ start' = start /\ engine' = engine
      /\ shots' = shots /\ want' = want
    BY <1>1 DEF IInv, PolicyInv, Started, call
<1>3. /\ Register' = Register /\ ChancyKinds' = ChancyKinds /\ MaxDraws' = MaxDraws
      /\ Spawned' = Spawned /\ Iterations' = Iterations
    BY <1>2 DEF Register, ChancyKinds, stochastic, MaxDraws, Spawned, StreamLength, Iterations
<1>4. /\ NeedsTrajectories => Strategy \in {"serial", "threads", "processes"}
      /\ ~NeedsTrajectories => Strategy = "none"
      /\ NeedsTrajectories => Partitioned(batches', Iterations)
      /\ Strategy = "none" => batches' = <<<<1>>>>
    BY <1>1, <1>2, StrategyFacts
<1>5. compiled' \in BOOLEAN
  <2>1. compiled' = UsesCompiled
      BY DEF Dispatch
  <2>2. UsesCompiled \in BOOLEAN
      BY DEF UsesCompiled
  <2>. QED BY <2>1, <2>2
<1>6. PolicyInv'
    BY <1>1, <1>3, <1>4, <1>5 DEF PolicyInv, Started
<1>7. /\ Len(plan) \in Nat /\ MaxDraws \in Nat /\ Register \in Registers(plan)
    BY <1>2, CallFacts
<1>8. DOMAIN batches' = 1..Len(batches') /\ \A b \in DOMAIN batches' : Len(batches'[b]) \in Nat
  <2>1. CASE NeedsTrajectories
    <3>1. Partitioned(batches', Iterations')
        BY <1>3, <1>4, <2>1
    <3>2. CallInv'
        BY <1>1, <1>2 DEF CallInv, call
    <3>3. /\ DOMAIN batches' = 1..Len(batches')
          /\ \A b \in DOMAIN batches' : Len(batches'[b]) \in Nat
      <4>1. DOMAIN batches' = 1..Len(batches') /\ Len(batches') \in Nat
          BY <3>1 DEF Partitioned
      <4>2. PICK before \in [1..(Len(batches') + 1) -> 0..Iterations'] :
              \A b \in 1..Len(batches') :
                 before[b] < before[b + 1] /\ Len(batches'[b]) = before[b + 1] - before[b]
          BY <3>1 DEF Partitioned
      <4>3. Iterations' \in Nat
          BY <1>2, <1>3, CallFacts
      <4>4. ASSUME NEW b \in 1..Len(batches') PROVE Len(batches'[b]) \in Nat
        <5>1. b \in 1..(Len(batches') + 1) /\ b + 1 \in 1..(Len(batches') + 1)
            BY <4>1
        <5>2. before[b] \in 0..Iterations' /\ before[b + 1] \in 0..Iterations'
            BY <5>1
        <5>. QED BY <4>2, <4>3, <5>2
      <4>. QED BY <4>1, <4>4
    <3>. QED BY <3>3
  <2>2. CASE ~NeedsTrajectories
    <3>1. batches' = <<<<1>>>>
        BY <1>4, <2>2
    <3>. QED BY <3>1
  <2>. QED BY <2>1, <2>2
<1>9. Idle \in RunnerType(plan, MaxDraws)
  <2>1. <<>> \in Seq(Registers(plan)) /\ 1 \in 1..(Len(plan) + 1) /\ 0 \in 0..MaxDraws
      BY <1>7, EmptySeq
  <2>2. Blank \in Histories(plan)
      BY EmptySeq DEF Blank, Histories
  <2>. QED BY <1>7, <2>1, <2>2 DEF Idle, RunnerType
<1>10. runners' \in [DOMAIN batches' -> RunnerType(plan, MaxDraws)]
    BY <1>1, <1>8, <1>9
<1>11. ASSUME NEW b \in DOMAIN batches'
       PROVE  /\ runners'[b].done <= Len(batches'[b]) /\ Len(runners'[b].rows) = runners'[b].done
              /\ Follows(plan, Register, ChancyKinds, streams', batches'[b], runners'[b])
  <2>1. runners'[b] = Idle
      BY <1>1, <1>8
  <2>2. /\ Idle.done = 0 /\ Idle.at = 1 /\ Idle.drawn = 0 /\ Idle.state = Blank
        /\ Idle.clbits = Register /\ Idle.rows = <<>>
      BY DEF Idle
  <2>3. Replayed(plan, Register, ChancyKinds, streams'[batches'[b][1]])[0] = Begun(Register)
      BY <1>7, ReplayedStarts
  <2>4. Follows(plan, Register, ChancyKinds, streams', batches'[b], Idle)
    <3>1. \A i \in 1..0 : FALSE
        BY SMT
    <3>2. Replayed(plan, Register, ChancyKinds, streams'[batches'[b][Idle.done + 1]])[Idle.at - 1]
            = Begun(Register)
        BY <2>2, <2>3
    <3>. HIDE DEF Idle
    <3>. QED BY <2>2, <3>1, <3>2 DEF Follows, Begun
  <2>. QED BY <1>8, <2>1, <2>2, <2>4
<1>12. RunnerInv'
    BY <1>2, <1>3, <1>10, <1>11 DEF RunnerInv
<1>13. ResultInv'
    BY <1>1, <1>2 DEF ResultInv
<1>. QED BY <1>6, <1>12, <1>13

LEMMA InitKeeps == Init => IInv
BY DEF Init, IInv, CallInv, PolicyInv, RunnerInv, ResultInv, Started

LEMMA StepKeeps == IInv /\ [Next]_vars => IInv'
<1>. SUFFICES ASSUME IInv, [Next]_vars PROVE IInv'
    OBVIOUS
<1>1. CASE UNCHANGED vars
  <2>1. UNCHANGED <<call, policy, pc, runners, result>>
      BY <1>1 DEF vars
  <2>. QED BY <2>1 DEF IInv, CallInv, PolicyInv, RunnerInv, ResultInv, Started, Iterations, call,
             policy, Register, ChancyKinds, stochastic, MaxDraws, Spawned, StreamLength, Alone
<1>2. ASSUME Next PROVE CallInv'
  <2>1. UNCHANGED call
      BY <1>2 DEF Next, Reject, Dispatch, Replay, FinishShot, WorkerFails, Collect, EvolveOnce, Sample
  <2>. QED BY <2>1 DEF IInv, CallInv, call
\* After the dispatch the policy stays, and nothing is answered before the end.
<1>3. ASSUME Started, Started', UNCHANGED <<call, policy>> PROVE PolicyInv'
    BY <1>3 DEF IInv, PolicyInv, Started, call, policy, Spawned, StreamLength, ChancyKinds,
                stochastic, Iterations
<1>4. ASSUME UNCHANGED <<call, policy, result>> PROVE ResultInv'
    BY <1>4 DEF IInv, ResultInv, call, policy, Alone, Register, ChancyKinds, stochastic
<1>5. ASSUME Started, UNCHANGED <<call, policy, runners>> PROVE RunnerInv'
    BY <1>5 DEF IInv, RunnerInv, call, policy, Register, ChancyKinds, stochastic, MaxDraws
<1>6. pc = "run" => Started
    BY DEF Started
<1>7. CASE Reject
    BY <1>2, <1>4, <1>7 DEF Reject, IInv, PolicyInv, RunnerInv, Started, Next, call, policy
<1>8. CASE Dispatch
    BY <1>2, <1>8, DispatchKeeps DEF IInv, Next
<1>9. ASSUME NEW b \in DOMAIN batches, Replay(b) PROVE IInv'
  <2>1. Started /\ Started' /\ UNCHANGED <<call, policy, result>>
      BY <1>9 DEF Replay, Started
  <2>. QED BY <1>2, <1>3, <1>4, <1>9, <2>1, ReplayKeeps DEF IInv, Next
<1>10. ASSUME NEW b \in DOMAIN batches, FinishShot(b) PROVE IInv'
  <2>1. Started /\ Started' /\ UNCHANGED <<call, policy, result>>
      BY <1>10 DEF FinishShot, Started
  <2>. QED BY <1>2, <1>3, <1>4, <1>10, <2>1, FinishFollows DEF IInv, Next
<1>11. CASE WorkerFails
  <2>1. Started /\ Started' /\ UNCHANGED <<call, policy, runners, result>>
      BY <1>11 DEF WorkerFails, Started
  <2>. QED BY <1>2, <1>3, <1>4, <1>5, <1>11, <2>1 DEF IInv, Next
<1>12. CASE Collect
  <2>1. Started /\ Started' /\ UNCHANGED <<call, policy, runners>>
      BY <1>12 DEF Collect, Started
  <2>. QED BY <1>2, <1>3, <1>5, <1>12, <2>1, CollectKeeps DEF IInv, Next
<1>13. CASE EvolveOnce
  <2>1. Started /\ Started' /\ UNCHANGED <<call, policy, result>>
      BY <1>13 DEF EvolveOnce, Started
  <2>. QED BY <1>2, <1>3, <1>4, <1>13, <2>1, EvolveKeeps DEF IInv, Next
<1>14. CASE Sample
  <2>1. Started /\ Started' /\ UNCHANGED <<call, policy, runners>> /\ path = "single_pass"
      BY <1>14 DEF Sample, Started
  <2>2. ResultInv'
      BY <2>1 DEF ResultInv, policy
  <2>. QED BY <1>2, <1>3, <1>5, <1>14, <2>1, <2>2 DEF IInv, Next
<1>. QED BY <1>1, <1>7, <1>8, <1>9, <1>10, <1>11, <1>12, <1>13, <1>14 DEF Next

LEMMA Enough == IInv => SeedDecidesRow
<1>. SUFFICES ASSUME IInv PROVE TypeOK
    BY DEF IInv, ResultInv, SeedDecidesRow
<1>1. CASE ~Started
  <2>1. /\ pc \in {"call", "rejected"} /\ path = "none" /\ strategy = "none" /\ compiled = FALSE
        /\ batches = <<>> /\ runners = <<>>
      BY <1>1 DEF IInv, PolicyInv
  <2>2. DOMAIN batches = {} /\ DOMAIN runners = {}
      BY <2>1
  <2>. QED BY <2>1, <2>2 DEF TypeOK
<1>2. CASE Started
  <2>1. /\ pc \in {"call", "run", "returned", "rejected", "failed"}
        /\ path \in {"none", "single_pass", "per_shot"}
        /\ strategy \in {"none", "serial", "threads", "processes"} /\ compiled \in BOOLEAN
      BY <1>2 DEF IInv, PolicyInv, Started
  <2>2. /\ runners \in [DOMAIN batches -> RunnerType(plan, MaxDraws)]
        /\ \A b \in DOMAIN batches :
              runners[b].done <= Len(batches[b]) /\ Len(runners[b].rows) = runners[b].done
      BY <1>2 DEF IInv, RunnerInv
  <2>3. \A b \in DOMAIN batches : Len(batches[b]) \in Nat
    <3>1. CASE path = "per_shot"
        BY <1>2, <3>1, BatchFacts DEF IInv, PolicyInv
    <3>2. CASE path = "single_pass"
      <4>1. batches = <<<<1>>>>
          BY <1>2, <3>2 DEF IInv, PolicyInv
      <4>. QED BY <4>1
    <3>. QED BY <1>2, <3>1, <3>2 DEF IInv, PolicyInv
  <2>4. ASSUME NEW b \in DOMAIN batches
        PROVE  /\ runners[b].done \in 0..Len(batches[b])
               /\ runners[b].at \in 1..(Len(plan) + 1) /\ runners[b].drawn \in 0..MaxDraws
               /\ runners[b].clbits \in [Clbits -> CellType]
    <3>1. runners[b] \in RunnerType(plan, MaxDraws) /\ runners[b].done <= Len(batches[b])
        BY <2>2
    <3>. QED BY <2>3, <3>1 DEF RunnerType, Registers, CellType, Indices
  <2>. QED BY <2>1, <2>2, <2>4 DEF TypeOK
<1>. QED BY <1>1, <1>2

(* The row of every shot is a function of the stream its seed spawned, for *)
(* every lowered plan, start, number of shots and workers, on every engine *)
(* and strategy, however the batches interleave (parallel.py:115-117,      *)
(* trajectories.py:743-751).                                               *)
THEOREM SeedDecides == Spec => []SeedDecidesRow
<1>1. Spec => []IInv
    BY InitKeeps, StepKeeps, PTL DEF Spec
<1>. QED BY <1>1, Enough, PTL
-----------------------------------------------------------------------------
(* The contract's runs, step by step.                                      *)

\* A history grows with the steps that touch its subsystem.
Lengthened(h, p, chance, s, k) ==
    IF s \in Contract!Targets(p[k]) /\ Contract!Fires(p, chance, k)
      THEN Append(h, <<k, Contract!Decided(p, chance, k, s)>>) ELSE h

LEMMA HistoryUnfolds ==
    ASSUME NEW p, Len(p) \in Nat, NEW chance, NEW s
    PROVE  /\ Contract!History(p, chance, s)[0] = <<>>
           /\ \A k \in 1..Len(p) :
                 Contract!History(p, chance, s)[k]
                   = Lengthened(Contract!History(p, chance, s)[k - 1], p, chance, s, k)
<1>. DEFINE Longer(h, k) == Lengthened(h, p, chance, s, k)
            Solves(f, n) == f = [k \in 0..n |-> IF k = 0 THEN <<>> ELSE Longer(f[k - 1], k)]
<1>6. Contract!History(p, chance, s)
        = CHOOSE f : f = [k \in 0..Len(p) |-> IF k = 0 THEN <<>> ELSE Longer(f[k - 1], k)]
    BY DEF Contract!History, Lengthened
<1>7. \A h, k : Longer(h, k) = Lengthened(h, p, chance, s, k)
    OBVIOUS
<1>. HIDE DEF Longer
<1>1. ASSUME NEW n \in Nat, NEW f, Solves(f, n)
      PROVE  \E g : Solves(g, n + 1)
  <2>. DEFINE g == [k \in 0..(n + 1) |-> IF k = n + 1 THEN Longer(f[n], n + 1) ELSE f[k]]
              h == [k \in 0..(n + 1) |-> IF k = 0 THEN <<>> ELSE Longer(g[k - 1], k)]
  <2>1. ASSUME NEW k \in 0..(n + 1) PROVE g[k] = h[k]
    <3>1. CASE k = n + 1
        BY <3>1
    <3>2. CASE k # n + 1
      <4>1. k \in 0..n /\ (k # 0 => k - 1 \in 0..n /\ k - 1 # n + 1)
          BY <3>2
      <4>2. f[k] = IF k = 0 THEN <<>> ELSE Longer(f[k - 1], k)
          BY <1>1, <4>1
      <4>. QED BY <3>2, <4>1, <4>2
    <3>. QED BY <3>1, <3>2
  <2>2. g = [k \in 0..(n + 1) |-> g[k]] /\ h = [k \in 0..(n + 1) |-> h[k]]
      OBVIOUS
  <2>3. g = h
    <3>. HIDE DEF g, h
    <3>. QED BY <2>1, <2>2
  <2>. HIDE DEF g
  <2>. QED BY <2>3
<1>2. \E f : Solves(f, 0)
  <2>. DEFINE f == [k \in 0..0 |-> <<>>]
  <2>1. Solves(f, 0)
      OBVIOUS
  <2>. HIDE DEF f
  <2>. QED BY <2>1
<1>. DEFINE Good == {n \in 0..Len(p) : \E f : Solves(f, n)}
<1>3. \A n \in 0..Len(p) : n \in Good
  <2>1. 0 \in Good
      BY <1>2
  <2>2. \A k \in 0..Len(p) : k + 1 \in 0..Len(p) /\ k \in Good => k + 1 \in Good
    <3>. HIDE DEF Solves
    <3>. QED BY <1>1
  <2>3. Good \in SUBSET (0..Len(p))
      OBVIOUS
  <2>. HIDE DEF Good
  <2>. QED BY <2>1, <2>2, <2>3, UpTo
<1>4. \E f : Solves(f, Len(p))
    BY <1>3
<1>5. Solves(Contract!History(p, chance, s), Len(p))
    BY <1>4, <1>6
<1>8. ASSUME NEW k \in 0..Len(p)
      PROVE  Contract!History(p, chance, s)[k]
               = IF k = 0 THEN <<>> ELSE Longer(Contract!History(p, chance, s)[k - 1], k)
  <2>. DEFINE f == Contract!History(p, chance, s)
  <2>. HIDE DEF f
  <2>1. Solves(f, Len(p))
      BY <1>5 DEF f
  <2>2. f[k] = IF k = 0 THEN <<>> ELSE Longer(f[k - 1], k)
      BY <2>1
  <2>. QED BY <2>2 DEF f
<1>9. Contract!History(p, chance, s)[0] = <<>>
  <2>1. 0 \in 0..Len(p)
      OBVIOUS
  <2>. QED BY <1>8, <2>1
<1>10. ASSUME NEW k \in 1..Len(p)
       PROVE  Contract!History(p, chance, s)[k]
                = Lengthened(Contract!History(p, chance, s)[k - 1], p, chance, s, k)
  <2>1. k \in 0..Len(p) /\ k # 0
      OBVIOUS
  <2>. QED BY <1>7, <1>8, <2>1
<1>. QED BY <1>9, <1>10

\* The greatest of some numbers.
LEMMA LastIs ==
    ASSUME NEW S \in SUBSET Nat, NEW m \in S, \A i \in S : i <= m
    PROVE  Contract!Last(S) = m
<1>1. \A n \in S : (\A i \in S : i <= n) => n = m
    OBVIOUS
<1>2. Contract!Last(S) \in S /\ \A i \in S : i <= Contract!Last(S)
    BY DEF Contract!Last
<1>. QED BY <1>1, <1>2

\* Before the first step the cells are those of the start.
LEMMA CellsBegin ==
    ASSUME NEW p, NEW chance, NEW c
    PROVE  /\ Contract!DigitBefore(p, chance, c, 1) = start[c]
           /\ Contract!OriginBefore(p, chance, c, 1) = <<>>
<1>1. Contract!Writers(p, c, 1) = {}
    BY DEF Contract!Writers
<1>. QED BY <1>1 DEF Contract!DigitBefore, Contract!OriginBefore

\* A step keeps the cells that it does not write.
LEMMA CellsKept ==
    ASSUME NEW p \in Plans, NEW chance, NEW c, NEW k \in 1..Len(p), Contract!Writing(p[k], c) = {}
    PROVE  /\ Contract!DigitBefore(p, chance, c, k + 1) = Contract!DigitBefore(p, chance, c, k)
           /\ Contract!OriginBefore(p, chance, c, k + 1) = Contract!OriginBefore(p, chance, c, k)
<1>. DEFINE before == Contract!Writers(p, c, k)
            upTo == Contract!Writers(p, c, k + 1)
            W(m) == Contract!Writing(p[m], c) # {}
<1>1. Len(p) \in Nat /\ k \in Nat /\ (k + 1) - 1 = k
    BY PlanFacts
<1>2. ~W(k) /\ before = {m \in 1..(k - 1) : W(m)} /\ upTo = {m \in 1..k : W(m)}
    BY <1>1 DEF Contract!Writers
<1>3. upTo = before
  <2>. HIDE DEF W, before, upTo
  <2>1. \A m : m \in 1..k /\ W(m) <=> m \in 1..(k - 1) /\ W(m)
      BY <1>1, <1>2
  <2>. QED BY <1>2, <2>1
<1>. QED BY <1>3 DEF Contract!DigitBefore, Contract!OriginBefore

\* The last position that writes a cell decides what it holds.
LEMMA CellsWritten ==
    ASSUME NEW p \in Plans, NEW chance, NEW c, NEW k \in 1..Len(p), Contract!Writing(p[k], c) # {},
           NEW j, j = Contract!Last(Contract!Writing(p[k], c))
    PROVE  /\ Contract!DigitBefore(p, chance, c, k + 1) = Contract!Reported(p, chance, k, j)
           /\ Contract!OriginBefore(p, chance, c, k + 1)
                = Contract!History(p, chance, p[k].targets[j])[k - 1]
<1>. DEFINE upTo == Contract!Writers(p, c, k + 1)
            W(m) == Contract!Writing(p[m], c) # {}
<1>1. Len(p) \in Nat /\ k \in Nat /\ (k + 1) - 1 = k
    BY PlanFacts
<1>2. W(k) /\ upTo = {m \in 1..k : W(m)}
    BY <1>1 DEF Contract!Writers
<1>3. k \in upTo /\ upTo \in SUBSET Nat /\ upTo # {} /\ \A i \in upTo : i <= k
  <2>. HIDE DEF W, upTo
  <2>. QED BY <1>1, <1>2
<1>4. Contract!Last(upTo) = k
  <2>. HIDE DEF upTo
  <2>. QED BY <1>3, LastIs
<1>. QED BY <1>3, <1>4 DEF Contract!DigitBefore, Contract!OriginBefore
-----------------------------------------------------------------------------
(* A shot alone is a run of the contract.                                  *)

\* What chance decides in a run on a stream of draws.
ChanceOf(n) ==
    [decided  |-> [k \in {i \in 1..Len(plan) : Contract!Chancy(plan[i])} |->
                      streams[n][After(n)[k - 1].drawn + 1]],
     reported |-> [w \in Contract!ConfusedReadings(plan) |->
                      streams[n][After(n)[w[1] - 1].drawn + 1 + w[2]][plan[w[1]].targets[w[2]]]]]

\* The kinds that draw are the chancy ones.
LEMMA ChancyIsDrawn ==
    ASSUME NEW step
    PROVE  /\ Contract!Chancy(step) <=> step.kind \in ChancyKinds
           /\ Contract!IsMeasurement(step) <=> IsMeasurement(step)
           /\ Contract!Targets(step) = Targets(step)
BY DEF Contract!Chancy, Contract!IsMeasurement, IsMeasurement, ChancyKinds, Contract!Targets, Targets

\* The readings by confused measurements.
LEMMA ReadingFacts ==
    ASSUME NEW p
    PROVE  \A w : w \in Contract!ConfusedReadings(p) <=>
              \E k \in 1..Len(p) : \E j \in 1..Len(p[k].targets) :
                 p[k].confused /\ w = <<k, j>>
BY DEF Contract!ConfusedReadings

\* A step's draws are in the stream of its shot.
LEMMA DrawsExist ==
    ASSUME CallInv, streams \in Spawned, NEW n \in 1..shots, NEW k \in 1..Len(plan)
    PROVE  /\ After(n)[k - 1].drawn \in Nat
           /\ \A i \in 1..Cost(plan[k], ChancyKinds) :
                 streams[n][After(n)[k - 1].drawn + i] \in Draws
<1>. DEFINE S(i) == Spent(plan, ChancyKinds)[i]
            cost == Cost(plan[k], ChancyKinds)
            d == After(n)[k - 1].drawn
            m == Len(plan)
<1>1. plan \in Plans /\ m \in Nat /\ Register \in Registers(plan) /\ "measure" \in ChancyKinds
    BY CallFacts
<1>2. streams[n] \in [1..S(m) -> Draws]
    BY DEF Spawned, StreamLength
<1>3. k - 1 \in 0..m /\ k \in 0..m
    BY <1>1
<1>4. d \in Nat /\ d <= S(k - 1)
    BY <1>1, <1>2, <1>3, AloneTyped DEF After
<1>5. S(k) = S(k - 1) + cost
    BY <1>1, SpentUnfolds
<1>6. S(k - 1) \in Nat /\ S(k) \in Nat /\ S(k) <= S(m) /\ S(m) \in Nat
    BY <1>1, <1>3, SpentGrows
<1>7. cost \in Nat
    BY <1>1, CostFacts
<1>. HIDE DEF S, cost, d
<1>8. ASSUME NEW i \in 1..cost PROVE d + i \in 1..S(m)
    BY <1>4, <1>5, <1>6, <1>7
<1>9. \A i \in 1..cost : streams[n][d + i] \in Draws
    BY <1>2, <1>8
<1>. QED BY <1>4, <1>9 DEF d, cost

LEMMA ChanceIsPossible ==
    ASSUME CallInv, streams \in Spawned, NEW n \in 1..shots
    PROVE  ChanceOf(n) \in Contract!Chances(plan)
<1>. DEFINE chancy == {i \in 1..Len(plan) : Contract!Chancy(plan[i])}
            decided == [k \in chancy |-> streams[n][After(n)[k - 1].drawn + 1]]
            digit(w) == streams[n][After(n)[w[1] - 1].drawn + 1 + w[2]][plan[w[1]].targets[w[2]]]
            reported == [w \in Contract!ConfusedReadings(plan) |-> digit(w)]
<1>1. plan \in Plans
    BY CallFacts
<1>2. ASSUME NEW k \in chancy PROVE streams[n][After(n)[k - 1].drawn + 1] \in Draws
  <2>1. k \in 1..Len(plan) /\ plan[k].kind \in ChancyKinds
      BY ChancyIsDrawn
  <2>2. Cost(plan[k], ChancyKinds) \in Nat /\ Cost(plan[k], ChancyKinds) >= 1
      BY <1>1, <2>1, CostFacts
  <2>3. 1 \in 1..Cost(plan[k], ChancyKinds)
      BY <2>2
  <2>. QED BY <2>1, <2>3, DrawsExist
<1>3. decided \in [chancy -> Draws]
  <2>. HIDE DEF chancy
  <2>. QED BY <1>2
<1>4. ASSUME NEW w \in Contract!ConfusedReadings(plan) PROVE digit(w) \in {0, 1}
  <2>0. PICK k \in 1..Len(plan) : \E j \in 1..Len(plan[k].targets) :
                                     plan[k].confused /\ w = <<k, j>>
      BY ReadingFacts
  <2>1. PICK j \in 1..Len(plan[k].targets) : plan[k].confused /\ w = <<k, j>>
      BY <2>0
  <2>2. w[1] = k /\ w[2] = j
      BY <2>1
  <2>3. /\ plan[k].targets \in Seq(Subsystems) /\ Len(plan[k].targets) \in Nat
        /\ plan[k].kind = "measure"
      BY <1>1, <2>1, StepFacts
  <2>4. plan[k].kind \in ChancyKinds
      BY <2>3, CallFacts
  <2>5. Cost(plan[k], ChancyKinds) = Len(plan[k].targets) + 1
      BY <1>1, <2>1, <2>4, CostFacts
  <2>. DEFINE d == After(n)[k - 1].drawn
  <2>6. d \in Nat /\ \A i \in 1..(Len(plan[k].targets) + 1) : streams[n][d + i] \in Draws
      BY <2>5, DrawsExist
  <2>7. plan[k].targets[j] \in Subsystems
      BY <2>3, ElementOfSeq
  <2>. HIDE DEF d
  <2>8. 1 + j \in 1..(Len(plan[k].targets) + 1) /\ d + (1 + j) = d + 1 + j
      BY <2>3, <2>6
  <2>9. streams[n][d + 1 + j] \in Draws
      BY <2>6, <2>8
  <2>10. streams[n][d + 1 + j][plan[k].targets[j]] \in {0, 1}
      BY <2>7, <2>9, ExecutionAssumption
  <2>. QED BY <2>2, <2>10 DEF d
<1>5. reported \in [Contract!ConfusedReadings(plan) -> {0, 1}]
  <2>. HIDE DEF digit
  <2>. QED BY <1>4
<1>6. ChanceOf(n) = [decided |-> decided, reported |-> reported]
    BY DEF ChanceOf
<1>. HIDE DEF decided, reported
<1>. QED BY <1>3, <1>5, <1>6 DEF Contract!Chances
LEMMA ChanceDecides ==
    ASSUME NEW n, NEW k \in 1..Len(plan)
    PROVE  /\ Contract!Chancy(plan[k]) =>
                ChanceOf(n).decided[k] = streams[n][After(n)[k - 1].drawn + 1]
           /\ \A j \in 1..Len(plan[k].targets) : plan[k].confused =>
                ChanceOf(n).reported[<<k, j>>]
                  = streams[n][After(n)[k - 1].drawn + 1 + j][plan[k].targets[j]]
<1>1. ASSUME Contract!Chancy(plan[k])
      PROVE  ChanceOf(n).decided[k] = streams[n][After(n)[k - 1].drawn + 1]
  <2>1. k \in {i \in 1..Len(plan) : Contract!Chancy(plan[i])}
      BY <1>1
  <2>. QED BY <2>1 DEF ChanceOf
<1>2. ASSUME NEW j \in 1..Len(plan[k].targets), plan[k].confused
      PROVE  ChanceOf(n).reported[<<k, j>>]
               = streams[n][After(n)[k - 1].drawn + 1 + j][plan[k].targets[j]]
  <2>1. <<k, j>> \in Contract!ConfusedReadings(plan)
      BY <1>2, ReadingFacts
  <2>. DEFINE w == <<k, j>>
  <2>2. w[1] = k /\ w[2] = j
      OBVIOUS
  <2>3. ChanceOf(n).reported[w]
          = streams[n][After(n)[w[1] - 1].drawn + 1 + w[2]][plan[w[1]].targets[w[2]]]
    <3>. HIDE DEF w
    <3>. QED BY <2>1 DEF ChanceOf, w
  <2>. QED BY <2>2, <2>3
<1>. QED BY <1>1, <1>2

\* What position i of a measurement reports to a shot that runs alone.
AloneReport(r, step, stream, i) ==
    LET s == step.targets[i]
    IN  IF step.confused THEN stream[r.drawn + 1 + i][s]
        ELSE IF step.flips THEN 1 - stream[r.drawn + 1][s] ELSE stream[r.drawn + 1][s]

AloneReports(r, step, stream) == [i \in Positions(step) |-> AloneReport(r, step, stream, i)]

\* A step of a shot alone, if it does not fire, and if it does.
LEMMA AloneSkips ==
    ASSUME NEW r, NEW p, NEW k, NEW kinds, NEW stream, ~Matches(p[k].condition, r.clbits)
    PROVE  AloneStep(r, p, k, kinds, stream) = r
BY DEF AloneStep

LEMMA AloneFires ==
    ASSUME NEW r, NEW p, NEW k, NEW kinds, NEW stream, Matches(p[k].condition, r.clbits),
           NEW draw, draw = IF p[k].kind \in kinds THEN stream[r.drawn + 1] ELSE Undrawn
    PROVE  /\ AloneStep(r, p, k, kinds, stream).state = Touch(r.state, k, Targets(p[k]), draw)
           /\ ~IsMeasurement(p[k]) => AloneStep(r, p, k, kinds, stream).clbits = r.clbits
           /\ IsMeasurement(p[k]) => AloneStep(r, p, k, kinds, stream).clbits
                                      = Write(r.clbits, p[k], AloneReports(r, p[k], stream), r.state)
<1>. DEFINE step   == p[k]
            state  == Touch(r.state, k, Targets(step), draw)
            cells  == Write(r.clbits, step, AloneReports(r, step, stream), r.state)
            clbits == IF IsMeasurement(step) THEN cells ELSE r.clbits
<1>1. AloneStep(r, p, k, kinds, stream)
        = [state |-> state, clbits |-> clbits, drawn |-> r.drawn + Cost(step, kinds)]
    BY DEF AloneStep, AloneReport, AloneReports
<1>. HIDE DEF state, cells
<1>2. AloneStep(r, p, k, kinds, stream).state = state
        /\ AloneStep(r, p, k, kinds, stream).clbits = clbits
    BY <1>1
<1>. QED BY <1>2 DEF state, cells

\* After k steps a shot alone has the histories and the cells of its run.
Agrees(n, k) ==
    /\ \A s \in Subsystems :
          After(n)[k].state[s] = Contract!History(plan, ChanceOf(n), s)[k]
    /\ \A c \in Clbits :
          After(n)[k].clbits[c] = [digit |-> Contract!DigitBefore(plan, ChanceOf(n), c, k + 1),
                                   of    |-> Contract!OriginBefore(plan, ChanceOf(n), c, k + 1)]

\* The greatest position that is written.
LEMMA LastWritten ==
    ASSUME NEW p \in Plans, NEW k \in 1..Len(p), NEW c, Contract!Writing(p[k], c) # {}
    PROVE  /\ IsMeasurement(p[k])
           /\ Contract!Last(Contract!Writing(p[k], c)) \in Contract!Writing(p[k], c)
           /\ Contract!Last(Contract!Writing(p[k], c)) \in 1..Len(p[k].targets)
           /\ p[k].clbits[Contract!Last(Contract!Writing(p[k], c))] = c
           /\ Contract!Writing(p[k], c) = {j \in Positions(p[k]) : p[k].clbits[j] = c}
<1>. DEFINE on == Contract!Writing(p[k], c)
            m == Len(p[k].clbits)
<1>1. IsMeasurement(p[k]) /\ on \in SUBSET (1..m)
    BY DEF Contract!Writing, Contract!IsMeasurement, IsMeasurement
<1>2. m \in Nat /\ m = Len(p[k].targets)
    BY <1>1, StepFacts DEF IsMeasurement
<1>3. on = {j \in Positions(p[k]) : p[k].clbits[j] = c}
    BY <1>1, <1>2 DEF Contract!Writing, Contract!IsMeasurement, IsMeasurement, Positions
<1>. HIDE DEF on, m
<1>4. PICK j \in on : \A i \in on : i <= j
    BY <1>1, <1>2, LastExists DEF on
<1>5. Contract!Last(on) = j
    BY <1>1, <1>2, <1>4, LastIs
<1>6. j \in 1..m /\ p[k].clbits[j] = c
    BY <1>1, <1>3, <1>4
<1>. QED BY <1>1, <1>2, <1>3, <1>4, <1>5, <1>6 DEF on

LEMMA FiringAgrees ==
    ASSUME CallInv, NEW n, NEW k \in 1..Len(plan), Agrees(n, k - 1)
    PROVE  Matches(plan[k].condition, After(n)[k - 1].clbits)
             <=> Contract!Fires(plan, ChanceOf(n), k)
<1>. DEFINE cell(c) == After(n)[k - 1].clbits[c]
            d(c, i) == Contract!DigitBefore(plan, ChanceOf(n), c, i)
            o(c, i) == Contract!OriginBefore(plan, ChanceOf(n), c, i)
<1>1. plan \in Plans /\ (k - 1) + 1 = k
    BY CallFacts
<1>2. plan[k].condition \subseteq Clbits \X {0, 1}
    BY <1>1, StepFacts
<1>3. \A c \in Clbits : cell(c) = [digit |-> d(c, (k - 1) + 1), of |-> o(c, (k - 1) + 1)]
    BY DEF Agrees
<1>4. \A c \in Clbits : cell(c).digit = d(c, k)
  <2>. HIDE DEF cell, d, o
  <2>. QED BY <1>1, <1>3
<1>5. \A term \in plan[k].condition : cell(term[1]).digit = d(term[1], k)
  <2>. HIDE DEF cell, d
  <2>. QED BY <1>2, <1>4
<1>. QED BY <1>5 DEF Matches, Contract!Fires

LEMMA HistoriesAgree ==
    ASSUME CallInv, streams \in Spawned, NEW n \in 1..shots, NEW k \in 1..Len(plan),
           Agrees(n, k - 1), NEW s \in Subsystems
    PROVE  After(n)[k].state[s] = Contract!History(plan, ChanceOf(n), s)[k]
<1>. DEFINE a == After(n)[k - 1]
            h == Contract!History(plan, ChanceOf(n), s)
            step == plan[k]
            draw == IF step.kind \in ChancyKinds THEN streams[n][a.drawn + 1] ELSE Undrawn
<1>1. plan \in Plans /\ Len(plan) \in Nat
    BY CallFacts
<1>2. After(n)[k] = AloneStep(a, plan, k, ChancyKinds, streams[n])
    BY OwnRun
<1>3. h[k] = Lengthened(h[k - 1], plan, ChanceOf(n), s, k) /\ a.state[s] = h[k - 1]
    BY <1>1, HistoryUnfolds DEF Agrees
<1>4. Matches(step.condition, a.clbits) <=> Contract!Fires(plan, ChanceOf(n), k)
    BY FiringAgrees
<1>5. Contract!Decided(plan, ChanceOf(n), k, s) = draw[s]
    BY ChanceDecides, ChancyIsDrawn DEF Contract!Decided, Undrawn
<1>6. Contract!Targets(step) = Targets(step)
    BY ChancyIsDrawn
<1>7. CASE ~Matches(step.condition, a.clbits)
  <2>1. After(n)[k] = a
      BY <1>2, <1>7, AloneSkips
  <2>2. h[k] = h[k - 1]
      BY <1>3, <1>4, <1>7 DEF Lengthened
  <2>. QED BY <1>3, <2>1, <2>2
<1>8. CASE Matches(step.condition, a.clbits)
  <2>1. AloneStep(a, plan, k, ChancyKinds, streams[n]).state = Touch(a.state, k, Targets(step), draw)
      BY <1>8, AloneFires
  <2>2. After(n)[k].state[s]
          = IF s \in Targets(step) THEN Append(a.state[s], <<k, draw[s]>>) ELSE a.state[s]
      BY <1>2, <2>1 DEF Touch
  <2>3. h[k] = IF s \in Targets(step) THEN Append(h[k - 1], <<k, draw[s]>>) ELSE h[k - 1]
      BY <1>3, <1>4, <1>5, <1>6, <1>8 DEF Lengthened
  <2>. QED BY <1>3, <2>2, <2>3
<1>. QED BY <1>7, <1>8

LEMMA CellsAgree ==
    ASSUME CallInv, streams \in Spawned, NEW n \in 1..shots, NEW k \in 1..Len(plan),
           Agrees(n, k - 1), NEW c \in Clbits
    PROVE  After(n)[k].clbits[c] = [digit |-> Contract!DigitBefore(plan, ChanceOf(n), c, k + 1),
                                    of    |-> Contract!OriginBefore(plan, ChanceOf(n), c, k + 1)]
<1>. DEFINE a == After(n)[k - 1]
            next == AloneStep(a, plan, k, ChancyKinds, streams[n])
            step == plan[k]
            chance == ChanceOf(n)
            on == Contract!Writing(step, c)
            digit(i) == Contract!DigitBefore(plan, chance, c, i)
            of(i) == Contract!OriginBefore(plan, chance, c, i)
<1>1. plan \in Plans /\ (k - 1) + 1 = k
    BY CallFacts
<1>2. After(n)[k] = next
    BY OwnRun
<1>3. a.clbits[c] = [digit |-> digit(k), of |-> of(k)]
    BY <1>1 DEF Agrees
<1>4. SUFFICES next.clbits[c] = [digit |-> digit(k + 1), of |-> of(k + 1)]
  <2>. HIDE DEF next
  <2>. QED BY <1>2
<1>5. CASE on = {}
  <2>1. digit(k + 1) = digit(k) /\ of(k + 1) = of(k)
      BY <1>1, <1>5, CellsKept
  <2>2. next.clbits[c] = a.clbits[c]
    <3>1. CASE ~Matches(step.condition, a.clbits)
        BY <3>1, AloneSkips
    <3>2. CASE Matches(step.condition, a.clbits) /\ ~IsMeasurement(step)
        BY <3>2, AloneFires
    <3>3. CASE Matches(step.condition, a.clbits) /\ IsMeasurement(step)
      <4>1. Len(step.clbits) = Len(step.targets)
          BY <1>1, <3>3, StepFacts DEF IsMeasurement
      <4>2. {i \in Positions(step) : step.clbits[i] = c} = {}
          BY <1>5, <3>3, <4>1
             DEF Contract!Writing, Contract!IsMeasurement, IsMeasurement, Positions
      <4>3. \A reports, state : Write(a.clbits, step, reports, state)[c] = a.clbits[c]
          BY <4>2 DEF Write
      <4>4. next.clbits = Write(a.clbits, step, AloneReports(a, step, streams[n]), a.state)
          BY <3>3, AloneFires
      <4>. QED BY <4>3, <4>4
    <3>. QED BY <3>1, <3>2, <3>3
  <2>. HIDE DEF digit, of, a, next
  <2>. QED BY <1>3, <2>1, <2>2
<1>6. CASE on # {}
  <2>. DEFINE j == Contract!Last(on)
              s == step.targets[j]
  <2>1. digit(k + 1) = Contract!Reported(plan, chance, k, j)
      BY <1>1, <1>6, CellsWritten
  <2>2. of(k + 1) = Contract!History(plan, chance, s)[k - 1]
      BY <1>1, <1>6, CellsWritten
  <2>3. /\ IsMeasurement(step) /\ j \in on /\ j \in 1..Len(step.targets)
        /\ on = {i \in Positions(step) : step.clbits[i] = c}
      BY <1>1, <1>6, LastWritten
  <2>4. step.condition = {} /\ step.targets \in Seq(Subsystems)
      BY <1>1, <2>3, StepFacts DEF IsMeasurement
  <2>5. Matches(step.condition, a.clbits)
      BY <2>4 DEF Matches
  <2>6. next.clbits = Write(a.clbits, step, AloneReports(a, step, streams[n]), a.state)
      BY <2>3, <2>5, AloneFires
  <2>7. next.clbits[c] = [digit |-> AloneReport(a, step, streams[n], j), of |-> a.state[s]]
    <3>. DEFINE reports == AloneReports(a, step, streams[n])
    <3>1. reports[j] = AloneReport(a, step, streams[n], j)
        BY <2>3 DEF AloneReports, Positions
    <3>2. j = CHOOSE i \in on : \A h \in on : h <= i
        BY DEF Contract!Last
    <3>. HIDE DEF reports, j, a, next
    <3>3. Write(a.clbits, step, reports, a.state)[c]
            = [digit |-> reports[j], of |-> a.state[s]]
        BY <1>6, <2>3, <3>2 DEF Write
    <3>. QED BY <2>6, <3>1, <3>3 DEF reports
  <2>8. Contract!Reported(plan, chance, k, j) = AloneReport(a, step, streams[n], j)
    <3>1. Contract!Chancy(step)
        BY <2>3 DEF Contract!Chancy, Contract!IsMeasurement, IsMeasurement
    <3>2. chance.decided[k] = streams[n][a.drawn + 1]
        BY <3>1, ChanceDecides
    <3>3. \A i \in 1..Len(step.targets) : step.confused =>
            chance.reported[<<k, i>>] = streams[n][a.drawn + 1 + i][step.targets[i]]
        BY ChanceDecides
    <3>. HIDE DEF chance, j, a
    <3>. QED BY <2>3, <3>2, <3>3 DEF Contract!Reported, AloneReport
  <2>9. a.state[s] = Contract!History(plan, chance, s)[k - 1]
    <3>1. s \in Subsystems
        BY <2>3, <2>4, ElementOfSeq
    <3>. QED BY <3>1 DEF Agrees
  <2>10. /\ digit(k + 1) = AloneReport(a, step, streams[n], j)
         /\ of(k + 1) = a.state[s]
    <3>. HIDE DEF digit, of, a, j
    <3>. QED BY <2>1, <2>2, <2>8, <2>9
  <2>. HIDE DEF digit, of, a, j, next
  <2>. QED BY <2>7, <2>10
<1>. QED BY <1>5, <1>6

LEMMA ReplayIsRun ==
    ASSUME CallInv, streams \in Spawned, NEW n \in 1..shots
    PROVE  \A k \in 0..Len(plan) : Agrees(n, k)
<1>. DEFINE Good == {k \in 0..Len(plan) : Agrees(n, k)}
<1>1. plan \in Plans /\ Len(plan) \in Nat
    BY CallFacts
<1>2. 0 \in Good
  <2>1. After(n)[0] = Begun(Register)
      BY OwnRun
  <2>2. /\ \A s \in Subsystems : After(n)[0].state[s] = <<>>
        /\ \A c \in Clbits : After(n)[0].clbits[c] = [digit |-> start[c], of |-> <<>>]
      BY <2>1 DEF Begun, Blank, Register
  <2>3. \A s : Contract!History(plan, ChanceOf(n), s)[0] = <<>>
      BY <1>1, HistoryUnfolds
  <2>4. \A c : /\ Contract!DigitBefore(plan, ChanceOf(n), c, 1) = start[c]
               /\ Contract!OriginBefore(plan, ChanceOf(n), c, 1) = <<>>
      BY CellsBegin
  <2>5. 0 + 1 = 1 /\ 0 \in 0..Len(plan)
      BY <1>1
  <2>6. Agrees(n, 0)
      BY <2>2, <2>3, <2>4, <2>5 DEF Agrees
  <2>. QED BY <2>5, <2>6
<1>3. ASSUME NEW k \in 0..Len(plan), k + 1 \in 0..Len(plan), k \in Good PROVE k + 1 \in Good
  <2>1. k + 1 \in 1..Len(plan) /\ (k + 1) - 1 = k
      BY <1>1, <1>3
  <2>2. Agrees(n, (k + 1) - 1)
      BY <1>3, <2>1
  <2>3. \A s \in Subsystems :
           After(n)[k + 1].state[s] = Contract!History(plan, ChanceOf(n), s)[k + 1]
      BY <2>1, <2>2, HistoriesAgree
  <2>4. \A c \in Clbits :
           After(n)[k + 1].clbits[c]
             = [digit |-> Contract!DigitBefore(plan, ChanceOf(n), c, (k + 1) + 1),
                of    |-> Contract!OriginBefore(plan, ChanceOf(n), c, (k + 1) + 1)]
      BY <2>1, <2>2, CellsAgree
  <2>5. Agrees(n, k + 1)
      BY <2>3, <2>4 DEF Agrees
  <2>. QED BY <1>3, <2>5
<1>4. Good \in SUBSET (0..Len(plan))
    OBVIOUS
<1>5. \A k \in 0..Len(plan) : k \in Good
  <2>. HIDE DEF Good
  <2>. QED BY <1>1, <1>2, <1>3, <1>4, UpTo
<1>. QED BY <1>5

\* At its end it has the row and the state of its run.
LEMMA RowOfShot ==
    ASSUME CallInv, streams \in Spawned, NEW n \in 1..shots
    PROVE  /\ After(n)[Len(plan)].clbits = Contract!Row(plan, ChanceOf(n))
           /\ After(n)[Len(plan)].state = Contract!FinalState(plan, ChanceOf(n))
<1>. DEFINE m == Len(plan)
            a == After(n)[m]
            digit(c) == Contract!DigitBefore(plan, ChanceOf(n), c, m + 1)
            of(c) == Contract!OriginBefore(plan, ChanceOf(n), c, m + 1)
            history(s) == Contract!History(plan, ChanceOf(n), s)[m]
<1>1. m \in 0..m
    BY CallFacts
<1>2. a.state \in Histories(plan) /\ a.clbits \in Registers(plan)
    BY <1>1, OwnRun
<1>3. Agrees(n, m)
    BY <1>1, ReplayIsRun
<1>4. /\ \A s \in Subsystems : a.state[s] = history(s)
      /\ \A c \in Clbits : a.clbits[c] = [digit |-> digit(c), of |-> of(c)]
    BY <1>3 DEF Agrees
<1>5. /\ Contract!Row(plan, ChanceOf(n)) = [c \in Clbits |-> [digit |-> digit(c), of |-> of(c)]]
      /\ Contract!FinalState(plan, ChanceOf(n)) = [s \in Subsystems |-> history(s)]
    BY DEF Contract!Row, Contract!FinalState
<1>6. a.clbits = [c \in Clbits |-> a.clbits[c]] /\ a.state = [s \in Subsystems |-> a.state[s]]
    BY <1>2 DEF Registers, Histories
<1>7. a.clbits = [c \in Clbits |-> [digit |-> digit(c), of |-> of(c)]]
    <2>. HIDE DEF a, digit, of
    <2>. QED BY <1>4, <1>6
<1>8. a.state = [s \in Subsystems |-> history(s)]
    <2>. HIDE DEF a, history
    <2>. QED BY <1>4, <1>6
<1>. QED BY <1>5, <1>7, <1>8
-----------------------------------------------------------------------------
(* The single pass.                                                        *)

\* Measurements are deferred; every other step happens.
PassStep(state, p, k) ==
    IF IsMeasurement(p[k]) THEN state ELSE Touch(state, k, Targets(p[k]), Undrawn)

Passed(p) ==
    LET upTo[k \in 0..Len(p)] == IF k = 0 THEN Blank ELSE PassStep(upTo[k - 1], p, k) IN upTo

LEMMA PassedUnfolds ==
    ASSUME NEW p, Len(p) \in Nat
    PROVE  /\ Passed(p)[0] = Blank
           /\ \A k \in 1..Len(p) : Passed(p)[k] = PassStep(Passed(p)[k - 1], p, k)
<1>. DEFINE Longer(h, k) == PassStep(h, p, k)
            Solves(f, n) == f = [k \in 0..n |-> IF k = 0 THEN Blank ELSE Longer(f[k - 1], k)]
<1>6. Passed(p) = CHOOSE f : f = [k \in 0..Len(p) |-> IF k = 0 THEN Blank ELSE Longer(f[k - 1], k)]
    BY DEF Passed
<1>7. \A h, k : Longer(h, k) = PassStep(h, p, k)
    OBVIOUS
<1>. HIDE DEF Longer
<1>1. ASSUME NEW n \in Nat, NEW f, Solves(f, n)
      PROVE  \E g : Solves(g, n + 1)
  <2>. DEFINE g == [k \in 0..(n + 1) |-> IF k = n + 1 THEN Longer(f[n], n + 1) ELSE f[k]]
              h == [k \in 0..(n + 1) |-> IF k = 0 THEN Blank ELSE Longer(g[k - 1], k)]
  <2>1. ASSUME NEW k \in 0..(n + 1) PROVE g[k] = h[k]
    <3>1. CASE k = n + 1
        BY <3>1
    <3>2. CASE k # n + 1
      <4>1. k \in 0..n /\ (k # 0 => k - 1 \in 0..n /\ k - 1 # n + 1)
          BY <3>2
      <4>2. f[k] = IF k = 0 THEN Blank ELSE Longer(f[k - 1], k)
          BY <1>1, <4>1
      <4>. QED BY <3>2, <4>1, <4>2
    <3>. QED BY <3>1, <3>2
  <2>2. g = [k \in 0..(n + 1) |-> g[k]] /\ h = [k \in 0..(n + 1) |-> h[k]]
      OBVIOUS
  <2>3. g = h
    <3>. HIDE DEF g, h
    <3>. QED BY <2>1, <2>2
  <2>. HIDE DEF g
  <2>. QED BY <2>3
<1>2. \E f : Solves(f, 0)
  <2>. DEFINE f == [k \in 0..0 |-> Blank]
  <2>1. Solves(f, 0)
      OBVIOUS
  <2>. HIDE DEF f
  <2>. QED BY <2>1
<1>. DEFINE Good == {n \in 0..Len(p) : \E f : Solves(f, n)}
<1>3. \A n \in 0..Len(p) : n \in Good
  <2>1. 0 \in Good
      BY <1>2
  <2>2. \A k \in 0..Len(p) : k + 1 \in 0..Len(p) /\ k \in Good => k + 1 \in Good
    <3>. HIDE DEF Solves
    <3>. QED BY <1>1
  <2>3. Good \in SUBSET (0..Len(p))
      OBVIOUS
  <2>. HIDE DEF Good
  <2>. QED BY <2>1, <2>2, <2>3, UpTo
<1>4. \E f : Solves(f, Len(p))
    BY <1>3
<1>5. Solves(Passed(p), Len(p))
    BY <1>4, <1>6
<1>8. ASSUME NEW k \in 0..Len(p)
      PROVE  Passed(p)[k] = IF k = 0 THEN Blank ELSE Longer(Passed(p)[k - 1], k)
  <2>. DEFINE f == Passed(p)
  <2>. HIDE DEF f
  <2>1. Solves(f, Len(p))
      BY <1>5 DEF f
  <2>2. f[k] = IF k = 0 THEN Blank ELSE Longer(f[k - 1], k)
      BY <2>1
  <2>. QED BY <2>2 DEF f
<1>9. Passed(p)[0] = Blank
  <2>1. 0 \in 0..Len(p)
      OBVIOUS
  <2>. QED BY <1>8, <2>1
<1>10. ASSUME NEW k \in 1..Len(p) PROVE Passed(p)[k] = PassStep(Passed(p)[k - 1], p, k)
  <2>1. k \in 0..Len(p) /\ k # 0
      OBVIOUS
  <2>. QED BY <1>7, <1>8, <2>1
<1>. QED BY <1>9, <1>10

\* Measurement m reads subsystem s.
Reads(m, s) == IsMeasurement(plan[m]) /\ s \in Targets(plan[m])

\* What spares a plan the trajectories: nothing is conditioned, chance decides
\* in measurements only, and no step touches what an earlier one measured.
LEMMA SparedFacts ==
    ASSUME CallInv, ~NeedsTrajectories, NEW k \in 1..Len(plan)
    PROVE  /\ plan[k].condition = {}
           /\ Contract!Chancy(plan[k]) <=> IsMeasurement(plan[k])
           /\ IsMeasurement(plan[k]) => ~want.register
           /\ \A m \in 1..(k - 1), s \in Targets(plan[k]) : ~Reads(m, s)
<1>1. /\ plan[k].condition = {}
      /\ ~(stochastic /\ plan[k].kind \in {"reset", "channel"})
      /\ ~(IsMeasurement(plan[k]) /\ want.register)
      /\ ~TouchesMeasured(k)
    BY DEF NeedsTrajectories, Indices
<1>2. Contract!Chancy(plan[k]) <=> IsMeasurement(plan[k])
    BY <1>1 DEF Contract!Chancy, Contract!IsMeasurement, IsMeasurement
<1>3. \A m \in 1..(k - 1), s \in Targets(plan[k]) : ~Reads(m, s)
    BY <1>1 DEF TouchesMeasured, Reads
<1>. QED BY <1>1, <1>2, <1>3

\* What the single pass knows of a history: all of it, but for the one reading.
PassKnows(chance, s, k) ==
    /\ (\A m \in 1..k : ~Reads(m, s)) => Contract!History(plan, chance, s)[k] = Passed(plan)[k][s]
    /\ \A m \in 1..k : Reads(m, s) =>
          /\ Contract!History(plan, chance, s)[k]
               = Append(Passed(plan)[k][s], <<m, chance.decided[m][s]>>)
          /\ Contract!History(plan, chance, s)[m - 1] = Passed(plan)[k][s]

LEMMA PassKnowsMore ==
    ASSUME CallInv, ~NeedsTrajectories, NEW chance, NEW s \in Subsystems,
           NEW k \in 1..Len(plan), PassKnows(chance, s, k - 1)
    PROVE  PassKnows(chance, s, k)
<1>. DEFINE h == Contract!History(plan, chance, s)
            P(i) == Passed(plan)[i][s]
            entry == <<k, Contract!Decided(plan, chance, k, s)>>
<1>1. plan \in Plans /\ Len(plan) \in Nat /\ k \in Nat /\ k # 0
    BY CallFacts
<1>2. h[k] = IF s \in Targets(plan[k]) THEN Append(h[k - 1], entry) ELSE h[k - 1]
  <2>1. h[k] = Lengthened(h[k - 1], plan, chance, s, k)
      BY <1>1, HistoryUnfolds
  <2>2. Contract!Fires(plan, chance, k)
      BY SparedFacts DEF Contract!Fires
  <2>3. Contract!Targets(plan[k]) = Targets(plan[k])
      BY ChancyIsDrawn
  <2>. QED BY <2>1, <2>2, <2>3 DEF Lengthened
<1>3. P(k) = IF s \in Targets(plan[k]) /\ ~IsMeasurement(plan[k])
               THEN Append(P(k - 1), <<k, 0>>) ELSE P(k - 1)
  <2>1. Passed(plan)[k] = PassStep(Passed(plan)[k - 1], plan, k)
      BY <1>1, PassedUnfolds
  <2>. QED BY <2>1 DEF PassStep, Touch, Undrawn
<1>4. Contract!Chancy(plan[k]) <=> IsMeasurement(plan[k])
    BY SparedFacts
<1>5. /\ IsMeasurement(plan[k]) => entry = <<k, chance.decided[k][s]>>
      /\ ~IsMeasurement(plan[k]) => entry = <<k, 0>>
    BY <1>4 DEF Contract!Decided
<1>6. /\ (\A m \in 1..(k - 1) : ~Reads(m, s)) => h[k - 1] = P(k - 1)
      /\ \A m \in 1..(k - 1) : Reads(m, s) =>
            h[k - 1] = Append(P(k - 1), <<m, chance.decided[m][s]>>) /\ h[m - 1] = P(k - 1)
    BY DEF PassKnows
<1>7. \A m \in 1..k : m \in 1..(k - 1) \/ m = k
    BY <1>1
<1>8. \A m \in 1..(k - 1) : m \in 1..k
    BY <1>1
<1>. HIDE DEF h, P, entry
<1>9. CASE s \notin Targets(plan[k])
  <2>1. h[k] = h[k - 1] /\ P(k) = P(k - 1) /\ ~Reads(k, s)
      BY <1>2, <1>3, <1>9 DEF Reads
  <2>2. /\ (\A m \in 1..k : ~Reads(m, s)) => h[k] = P(k)
        /\ \A m \in 1..k : Reads(m, s) =>
              h[k] = Append(P(k), <<m, chance.decided[m][s]>>) /\ h[m - 1] = P(k)
      BY <1>6, <1>7, <1>8, <2>1
  <2>. QED BY <2>2 DEF PassKnows, h, P
<1>10. CASE s \in Targets(plan[k])
  <2>1. \A m \in 1..(k - 1) : ~Reads(m, s)
      BY <1>10, SparedFacts
  <2>2. h[k - 1] = P(k - 1)
      BY <1>6, <2>1
  <2>3. CASE IsMeasurement(plan[k])
    <3>1. Reads(k, s) /\ k \in 1..k
        BY <1>1, <1>10, <2>3 DEF Reads
    <3>2. h[k] = Append(P(k), <<k, chance.decided[k][s]>>) /\ h[k - 1] = P(k)
        BY <1>2, <1>3, <1>5, <1>10, <2>2, <2>3
    <3>3. /\ (\A m \in 1..k : ~Reads(m, s)) => h[k] = P(k)
          /\ \A m \in 1..k : Reads(m, s) =>
                h[k] = Append(P(k), <<m, chance.decided[m][s]>>) /\ h[m - 1] = P(k)
        BY <1>7, <2>1, <3>1, <3>2
    <3>. QED BY <3>3 DEF PassKnows, h, P
  <2>4. CASE ~IsMeasurement(plan[k])
    <3>1. ~Reads(k, s)
        BY <2>4 DEF Reads
    <3>2. h[k] = P(k)
        BY <1>2, <1>3, <1>5, <1>10, <2>2, <2>4
    <3>3. /\ (\A m \in 1..k : ~Reads(m, s)) => h[k] = P(k)
          /\ \A m \in 1..k : Reads(m, s) =>
                h[k] = Append(P(k), <<m, chance.decided[m][s]>>) /\ h[m - 1] = P(k)
        BY <1>7, <2>1, <3>1, <3>2
    <3>. QED BY <3>3 DEF PassKnows, h, P
  <2>. QED BY <2>3, <2>4
<1>. QED BY <1>9, <1>10

LEMMA PassKnowsAll ==
    ASSUME CallInv, ~NeedsTrajectories, NEW chance, NEW s \in Subsystems
    PROVE  PassKnows(chance, s, Len(plan))
<1>. DEFINE n == Len(plan)
            Good == {k \in 0..n : PassKnows(chance, s, k)}
<1>1. plan \in Plans /\ n \in Nat
    BY CallFacts
<1>2. 0 \in Good
  <2>1. Contract!History(plan, chance, s)[0] = <<>>
      BY <1>1, HistoryUnfolds
  <2>2. Passed(plan)[0][s] = <<>>
      BY <1>1, PassedUnfolds DEF Blank
  <2>3. \A m \in 1..0 : FALSE
      OBVIOUS
  <2>4. PassKnows(chance, s, 0)
      BY <2>1, <2>2, <2>3 DEF PassKnows
  <2>. QED BY <1>1, <2>4
<1>3. ASSUME NEW k \in 0..n, k + 1 \in 0..n, k \in Good PROVE k + 1 \in Good
  <2>1. k + 1 \in 1..n /\ (k + 1) - 1 = k
      BY <1>1, <1>3
  <2>2. PassKnows(chance, s, (k + 1) - 1)
      BY <1>3, <2>1
  <2>3. PassKnows(chance, s, k + 1)
      BY <2>1, <2>2, PassKnowsMore
  <2>. QED BY <1>3, <2>3
<1>4. Good \in SUBSET (0..n)
    OBVIOUS
<1>5. \A k \in 0..n : k \in Good
  <2>. HIDE DEF Good, n
  <2>. QED BY <1>1, <1>2, <1>3, <1>4, UpTo
<1>. QED BY <1>1, <1>5

\* What chance decides in a run that a sampled index and its report decode to.
SampleChance(sample, confusion) ==
    [decided  |-> [k \in {i \in 1..Len(plan) : Contract!Chancy(plan[i])} |-> sample],
     reported |-> [w \in Contract!ConfusedReadings(plan) |->
                      confusion[plan[w[1]].targets[w[2]]]]]

LEMMA SampleIsPossible ==
    ASSUME CallInv, NEW sample \in Draws, NEW confusion \in Draws
    PROVE  SampleChance(sample, confusion) \in Contract!Chances(plan)
<1>. DEFINE chancy == {i \in 1..Len(plan) : Contract!Chancy(plan[i])}
            decided == [k \in chancy |-> sample]
            digit(w) == confusion[plan[w[1]].targets[w[2]]]
            reported == [w \in Contract!ConfusedReadings(plan) |-> digit(w)]
<1>1. plan \in Plans
    BY CallFacts
<1>2. decided \in [chancy -> Draws]
    OBVIOUS
<1>3. ASSUME NEW w \in Contract!ConfusedReadings(plan) PROVE digit(w) \in {0, 1}
  <2>1. PICK k \in 1..Len(plan) : \E j \in 1..Len(plan[k].targets) :
                                     plan[k].confused /\ w = <<k, j>>
      BY ReadingFacts
  <2>2. PICK j \in 1..Len(plan[k].targets) : w = <<k, j>>
      BY <2>1
  <2>3. plan[k].targets \in Seq(Subsystems)
      BY <1>1, StepFacts
  <2>4. plan[k].targets[j] \in Subsystems
      BY <2>3, ElementOfSeq
  <2>5. confusion[plan[k].targets[j]] \in {0, 1}
      BY <2>4, ExecutionAssumption
  <2>. QED BY <2>2, <2>5
<1>4. reported \in [Contract!ConfusedReadings(plan) -> {0, 1}]
  <2>. HIDE DEF digit
  <2>. QED BY <1>3
<1>5. SampleChance(sample, confusion) = [decided |-> decided, reported |-> reported]
    BY DEF SampleChance
<1>. HIDE DEF decided, reported
<1>. QED BY <1>2, <1>4, <1>5 DEF Contract!Chances

LEMMA SampleDecides ==
    ASSUME NEW sample, NEW confusion, NEW k \in 1..Len(plan)
    PROVE  /\ Contract!Chancy(plan[k]) => SampleChance(sample, confusion).decided[k] = sample
           /\ \A j \in 1..Len(plan[k].targets) : plan[k].confused =>
                SampleChance(sample, confusion).reported[<<k, j>>] = confusion[plan[k].targets[j]]
<1>1. ASSUME Contract!Chancy(plan[k])
      PROVE  SampleChance(sample, confusion).decided[k] = sample
  <2>1. k \in {i \in 1..Len(plan) : Contract!Chancy(plan[i])}
      BY <1>1
  <2>. QED BY <2>1 DEF SampleChance
<1>2. ASSUME NEW j \in 1..Len(plan[k].targets), plan[k].confused
      PROVE  SampleChance(sample, confusion).reported[<<k, j>>] = confusion[plan[k].targets[j]]
  <2>1. <<k, j>> \in Contract!ConfusedReadings(plan)
      BY <1>2, ReadingFacts
  <2>. DEFINE w == <<k, j>>
  <2>2. w[1] = k /\ w[2] = j
      OBVIOUS
  <2>3. SampleChance(sample, confusion).reported[w] = confusion[plan[w[1]].targets[w[2]]]
    <3>. HIDE DEF w
    <3>. QED BY <2>1 DEF SampleChance, w
  <2>. QED BY <2>2, <2>3
<1>. QED BY <1>1, <1>2

\* The deferred pairs are the readings of the plan.
LEMMA DeferredAre ==
    ASSUME NEW pair
    PROVE  pair \in DeferredPairs <=>
              \E k \in 1..Len(plan) : \E j \in 1..Len(plan[k].targets) :
                 IsMeasurement(plan[k]) /\ pair = <<k, j>>
BY DEF DeferredPairs, Indices, Positions

\* The deferred writes of c are the contract's.
WritesOf(c) == {p \in DeferredPairs : plan[p[1]].clbits[p[2]] = c}

LEMMA WritesAre ==
    ASSUME CallInv, NEW c, NEW pair
    PROVE  pair \in WritesOf(c) <=>
              \E k \in 1..Len(plan) : \E j \in Contract!Writing(plan[k], c) : pair = <<k, j>>
<1>1. plan \in Plans
    BY CallFacts
<1>2. ASSUME NEW k \in 1..Len(plan), NEW j
      PROVE  j \in Contract!Writing(plan[k], c) <=>
               j \in 1..Len(plan[k].targets) /\ IsMeasurement(plan[k]) /\ plan[k].clbits[j] = c
  <2>1. IsMeasurement(plan[k]) => Len(plan[k].clbits) = Len(plan[k].targets)
      BY <1>1, StepFacts DEF IsMeasurement
  <2>. QED BY <2>1 DEF Contract!Writing, Contract!IsMeasurement, IsMeasurement
<1>3. ASSUME pair \in WritesOf(c)
      PROVE  \E k \in 1..Len(plan) : \E j \in Contract!Writing(plan[k], c) : pair = <<k, j>>
  <2>1. pair \in DeferredPairs /\ plan[pair[1]].clbits[pair[2]] = c
      BY <1>3 DEF WritesOf
  <2>2. PICK k \in 1..Len(plan) : \E j \in 1..Len(plan[k].targets) :
                                     IsMeasurement(plan[k]) /\ pair = <<k, j>>
      BY <2>1, DeferredAre
  <2>3. PICK j \in 1..Len(plan[k].targets) : IsMeasurement(plan[k]) /\ pair = <<k, j>>
      BY <2>2
  <2>4. plan[k].clbits[j] = c
      BY <2>1, <2>3
  <2>. QED BY <1>2, <2>3, <2>4
<1>4. ASSUME NEW k \in 1..Len(plan), NEW j \in Contract!Writing(plan[k], c), pair = <<k, j>>
      PROVE  pair \in WritesOf(c)
  <2>1. j \in 1..Len(plan[k].targets) /\ IsMeasurement(plan[k]) /\ plan[k].clbits[j] = c
      BY <1>2
  <2>2. pair \in DeferredPairs
      BY <1>4, <2>1, DeferredAre
  <2>3. plan[pair[1]].clbits[pair[2]] = c
      BY <1>4, <2>1
  <2>. QED BY <2>2, <2>3 DEF WritesOf
<1>. QED BY <1>3, <1>4

LEMMA WrittenAre ==
    ASSUME CallInv, NEW c
    PROVE  c \in Written <=> Contract!Writers(plan, c, Len(plan) + 1) # {}
<1>1. Len(plan) \in Nat /\ (Len(plan) + 1) - 1 = Len(plan)
    BY CallFacts
<1>2. Contract!Writers(plan, c, Len(plan) + 1) # {}
        <=> \E k \in 1..Len(plan) : \E j \in Contract!Writing(plan[k], c) : TRUE
    BY <1>1 DEF Contract!Writers
<1>3. c \in Written <=> WritesOf(c) # {}
    BY DEF Written, WritesOf
<1>4. WritesOf(c) # {} <=> \E k \in 1..Len(plan) : \E j \in Contract!Writing(plan[k], c) : TRUE
  <2>1. ASSUME NEW pair \in WritesOf(c)
        PROVE  \E k \in 1..Len(plan) : \E j \in Contract!Writing(plan[k], c) : TRUE
    <3>1. \E k \in 1..Len(plan) : \E j \in Contract!Writing(plan[k], c) : pair = <<k, j>>
        BY WritesAre
    <3>. QED BY <3>1
  <2>2. ASSUME NEW k \in 1..Len(plan), NEW j \in Contract!Writing(plan[k], c)
        PROVE  <<k, j>> \in WritesOf(c)
      BY WritesAre
  <2>. QED BY <2>1, <2>2
<1>. QED BY <1>2, <1>3, <1>4

\* The last deferred write is the last position of the last writer.
LEMMA LastWriterIs ==
    ASSUME CallInv, NEW c, c \in Written,
           NEW m, m = Contract!Last(Contract!Writers(plan, c, Len(plan) + 1)),
           NEW j, j = Contract!Last(Contract!Writing(plan[m], c))
    PROVE  /\ m \in 1..Len(plan) /\ j \in Contract!Writing(plan[m], c)
           /\ LastWriter(c) = <<m, j>> /\ Reporter(c) = <<m, j>>
<1>. DEFINE n == Len(plan)
            writers == Contract!Writers(plan, c, n + 1)
            W(k) == Contract!Writing(plan[k], c)
<1>1. plan \in Plans /\ n \in Nat /\ (n + 1) - 1 = n
    BY CallFacts
<1>2. writers = {k \in 1..n : W(k) # {}} /\ writers # {}
    BY <1>1, WrittenAre DEF Contract!Writers
<1>3. m \in writers /\ \A k \in writers : k <= m
  <2>. HIDE DEF writers, n
  <2>1. writers \in SUBSET (1..n) /\ writers \in SUBSET Nat
      BY <1>1, <1>2
  <2>2. PICK k \in writers : \A i \in writers : i <= k
      BY <1>1, <1>2, <2>1, LastExists
  <2>3. Contract!Last(writers) = k
      BY <2>1, <2>2, LastIs
  <2>. QED BY <2>2, <2>3 DEF writers, n
<1>4. m \in 1..n /\ W(m) # {}
    BY <1>2, <1>3
<1>5. j \in W(m) /\ \A i \in W(m) : i <= j
  <2>1. W(m) \in SUBSET (1..Len(plan[m].clbits)) /\ W(m) \in SUBSET Nat
      BY DEF Contract!Writing
  <2>2. Len(plan[m].clbits) \in Nat
      BY <1>1, <1>4, StepFacts
  <2>. HIDE DEF W
  <2>3. PICK k \in W(m) : \A i \in W(m) : i <= k
      BY <1>4, <2>1, <2>2, LastExists
  <2>4. Contract!Last(W(m)) = k
      BY <2>1, <2>3, LastIs
  <2>. QED BY <2>3, <2>4 DEF W
<1>6. <<m, j>> \in WritesOf(c)
    BY <1>4, <1>5, WritesAre
<1>7. ASSUME NEW q \in WritesOf(c)
      PROVE  ~Later(q, <<m, j>>) /\ (~Later(<<m, j>>, q) => q = <<m, j>>)
  <2>1. PICK k \in 1..n : \E i \in W(k) : q = <<k, i>>
      BY WritesAre
  <2>2. PICK i \in W(k) : q = <<k, i>>
      BY <2>1
  <2>3. k \in writers /\ k <= m
      BY <1>2, <1>3, <2>2
  <2>4. i \in Nat /\ j \in Nat /\ (k = m => i <= j)
      BY <1>5, <2>2 DEF Contract!Writing
  <2>5. k \in Nat /\ m \in Nat
      BY <1>1, <1>4
  <2>6. q[1] = k /\ q[2] = i /\ <<m, j>>[1] = m /\ <<m, j>>[2] = j
      BY <2>2
  <2>7. /\ ~(k > m \/ (k = m /\ i > j))
        /\ ~(m > k \/ (m = k /\ j > i)) => k = m /\ i = j
    <3>. HIDE DEF n, W, writers
    <3>. QED BY <2>3, <2>4, <2>5
  <2>. QED BY <2>2, <2>6, <2>7 DEF Later
<1>8. LastWriter(c) = CHOOSE p \in WritesOf(c) : \A q \in WritesOf(c) : ~Later(q, p)
    BY DEF LastWriter, WritesOf
<1>9. Reporter(c) = CHOOSE p \in WritesOf(c) : \A q \in WritesOf(c) : ~Later(q, p)
    BY DEF Reporter, WritesOf
<1>10. \A p \in WritesOf(c) : (\A q \in WritesOf(c) : ~Later(q, p)) => p = <<m, j>>
    BY <1>6, <1>7
<1>11. (CHOOSE p \in WritesOf(c) : \A q \in WritesOf(c) : ~Later(q, p)) = <<m, j>>
  <2>1. \E p \in WritesOf(c) : \A q \in WritesOf(c) : ~Later(q, p)
      BY <1>6, <1>7
  <2>. QED BY <1>10, <2>1
<1>. QED BY <1>4, <1>5, <1>8, <1>9, <1>11

\* Every row that the single pass decodes is the row of a run.
LEMMA SampledIsRun ==
    ASSUME CallInv, ~NeedsTrajectories, runners[1].state = Passed(plan)[Len(plan)],
           NEW sample, NEW confusion
    PROVE  SampledRow(sample, confusion) = Contract!Row(plan, SampleChance(sample, confusion))
<1>. DEFINE n == Len(plan)
            chance == SampleChance(sample, confusion)
            digit(c) == Contract!DigitBefore(plan, chance, c, n + 1)
            of(c) == Contract!OriginBefore(plan, chance, c, n + 1)
            row == SampledRow(sample, confusion)
<1>1. plan \in Plans /\ n \in Nat
    BY CallFacts
<1>2. ASSUME NEW c \in Clbits, c \notin Written
      PROVE  row[c] = [digit |-> digit(c), of |-> of(c)]
  <2>1. Contract!Writers(plan, c, n + 1) = {}
      BY <1>2, WrittenAre
  <2>2. digit(c) = start[c] /\ of(c) = <<>>
      BY <2>1 DEF Contract!DigitBefore, Contract!OriginBefore
  <2>3. row[c] = [digit |-> start[c], of |-> <<>>]
      BY <1>2 DEF SampledRow
  <2>. HIDE DEF digit, of, row
  <2>. QED BY <2>2, <2>3
<1>3. ASSUME NEW c \in Clbits, c \in Written
      PROVE  row[c] = [digit |-> digit(c), of |-> of(c)]
  <2>. DEFINE writers == Contract!Writers(plan, c, n + 1)
              m == Contract!Last(writers)
              j == Contract!Last(Contract!Writing(plan[m], c))
              s == plan[m].targets[j]
              reported == IF plan[m].confused THEN confusion[s]
                          ELSE IF plan[m].flips THEN 1 - sample[s] ELSE sample[s]
  <2>1. writers # {}
      BY <1>3, WrittenAre
  <2>2. /\ m \in 1..n /\ j \in Contract!Writing(plan[m], c)
        /\ LastWriter(c) = <<m, j>> /\ Reporter(c) = <<m, j>>
      BY <1>3, LastWriterIs
  <2>3. digit(c) = Contract!Reported(plan, chance, m, j)
          /\ of(c) = Contract!History(plan, chance, s)[m - 1]
    <3>. HIDE DEF n, chance
    <3>. QED BY <2>1 DEF Contract!DigitBefore, Contract!OriginBefore
  <2>4. row[c] = [digit |-> reported, of |-> runners[1].state[s]]
    <3>1. row[c] = LET r == plan[LastWriter(c)[1]].targets[LastWriter(c)[2]]
                       report == plan[Reporter(c)[1]]
                   IN  [digit |-> IF report.confused THEN confusion[r]
                                  ELSE IF report.flips THEN 1 - sample[r] ELSE sample[r],
                        of |-> runners[1].state[r]]
        BY <1>3 DEF SampledRow
    <3>2. LastWriter(c)[1] = m /\ LastWriter(c)[2] = j /\ Reporter(c)[1] = m
      <4>. HIDE DEF m, j
      <4>. QED BY <2>2
    <3>. HIDE DEF m, j, row
    <3>. QED BY <3>1, <3>2
  <2>5. IsMeasurement(plan[m]) /\ j \in 1..Len(plan[m].targets)
    <3>. HIDE DEF m
    <3>. QED BY <1>1, <2>2, LastWritten
  <2>6. Reads(m, s) /\ s \in Subsystems
    <3>1. plan[m].targets \in Seq(Subsystems)
        BY <1>1, <2>2, StepFacts
    <3>2. plan[m].targets[j] \in Subsystems
        BY <2>5, <3>1, ElementOfSeq
    <3>. HIDE DEF m, j
    <3>. QED BY <2>5, <3>2 DEF Reads, Targets
  <2>7. Contract!Reported(plan, chance, m, j) = reported
    <3>1. Contract!Chancy(plan[m])
        BY <2>5 DEF Contract!Chancy, Contract!IsMeasurement, IsMeasurement
    <3>2. chance.decided[m] = sample
        BY <2>2, <3>1, SampleDecides
    <3>3. plan[m].confused => chance.reported[<<m, j>>] = confusion[plan[m].targets[j]]
      <4>1. \A i \in 1..Len(plan[m].targets) : plan[m].confused =>
                chance.reported[<<m, i>>] = confusion[plan[m].targets[i]]
          BY <2>2, SampleDecides
      <4>. HIDE DEF m, j, chance
      <4>. QED BY <2>5, <4>1
    <3>. HIDE DEF m, j, chance
    <3>. QED BY <3>2, <3>3 DEF Contract!Reported
  <2>8. Contract!History(plan, chance, s)[m - 1] = runners[1].state[s]
    <3>1. PassKnows(chance, s, n)
        BY <2>6, PassKnowsAll
    <3>. HIDE DEF m, chance, s
    <3>2. \A i \in 1..n : Reads(i, s) => Contract!History(plan, chance, s)[i - 1] = Passed(plan)[n][s]
        BY <3>1 DEF PassKnows
    <3>. QED BY <2>2, <2>6, <3>2
  <2>. HIDE DEF digit, of, row, m, j, s, reported, chance
  <2>. QED BY <2>3, <2>4, <2>7, <2>8
<1>4. row = [c \in Clbits |-> row[c]]
    BY DEF SampledRow
<1>5. Contract!Row(plan, chance) = [c \in Clbits |-> [digit |-> digit(c), of |-> of(c)]]
    BY DEF Contract!Row
<1>6. row = [c \in Clbits |-> [digit |-> digit(c), of |-> of(c)]]
  <2>. HIDE DEF row, digit, of
  <2>. QED BY <1>2, <1>3, <1>4
<1>. QED BY <1>5, <1>6

\* The collapsed state is that of the same run.
LEMMA CollapsedIsRun ==
    ASSUME CallInv, ~NeedsTrajectories, runners[1].state = Passed(plan)[Len(plan)],
           NEW sample, NEW confusion
    PROVE  Collapsed(runners[1].state, sample)
             = Contract!FinalState(plan, SampleChance(sample, confusion))
<1>. DEFINE n == Len(plan)
            chance == SampleChance(sample, confusion)
            collapsed == Collapsed(runners[1].state, sample)
            history(s) == Contract!History(plan, chance, s)[n]
            reading(s) == {p \in DeferredPairs : plan[p[1]].targets[p[2]] = s}
<1>1. plan \in Plans /\ n \in Nat
    BY CallFacts
<1>2. ASSUME NEW s \in Subsystems PROVE collapsed[s] = history(s)
  <2>1. PassKnows(chance, s, n)
      BY PassKnowsAll
  <2>2. collapsed[s] = IF \E p \in DeferredPairs : plan[p[1]].targets[p[2]] = s
                         THEN LET p == CHOOSE p \in DeferredPairs : plan[p[1]].targets[p[2]] = s
                              IN  Append(runners[1].state[s], <<p[1], sample[s]>>)
                         ELSE runners[1].state[s]
      BY DEF Collapsed
  <2>3. ASSUME NEW p \in DeferredPairs, plan[p[1]].targets[p[2]] = s
        PROVE  history(s) = Append(runners[1].state[s], <<p[1], sample[s]>>)
    <3>1. PICK k \in 1..n : \E j \in 1..Len(plan[k].targets) :
                               IsMeasurement(plan[k]) /\ p = <<k, j>>
        BY DeferredAre
    <3>2. PICK j \in 1..Len(plan[k].targets) : IsMeasurement(plan[k]) /\ p = <<k, j>>
        BY <3>1
    <3>3. p[1] = k /\ p[2] = j
        BY <3>2
    <3>4. Reads(k, s)
        BY <2>3, <3>2, <3>3 DEF Reads, Targets
    <3>5. history(s) = Append(Passed(plan)[n][s], <<k, chance.decided[k][s]>>)
        BY <2>1, <3>4 DEF PassKnows
    <3>6. Contract!Chancy(plan[k])
        BY <3>2 DEF Contract!Chancy, Contract!IsMeasurement, IsMeasurement
    <3>7. chance.decided[k] = sample
        BY <3>6, SampleDecides
    <3>. HIDE DEF chance
    <3>. QED BY <3>3, <3>5, <3>7
  <2>4. CASE \E p \in DeferredPairs : plan[p[1]].targets[p[2]] = s
    <3>. DEFINE q == CHOOSE p \in DeferredPairs : plan[p[1]].targets[p[2]] = s
    <3>1. q \in DeferredPairs /\ plan[q[1]].targets[q[2]] = s
        BY <2>4
    <3>2. collapsed[s] = Append(runners[1].state[s], <<q[1], sample[s]>>)
        BY <2>2, <2>4
    <3>. HIDE DEF q, history, collapsed
    <3>. QED BY <2>3, <3>1, <3>2
  <2>5. CASE ~\E p \in DeferredPairs : plan[p[1]].targets[p[2]] = s
    <3>1. ASSUME NEW k \in 1..n, Reads(k, s) PROVE FALSE
      <4>1. PICK j \in 1..Len(plan[k].targets) : plan[k].targets[j] = s
          BY <3>1 DEF Reads, Targets
      <4>2. IsMeasurement(plan[k])
          BY <3>1 DEF Reads
      <4>3. <<k, j>> \in DeferredPairs
          BY <4>2, DeferredAre
      <4>. DEFINE p == <<k, j>>
      <4>4. plan[p[1]].targets[p[2]] = s
          BY <4>1
      <4>. HIDE DEF p
      <4>. QED BY <2>5, <4>3, <4>4 DEF p
    <3>2. history(s) = Passed(plan)[n][s]
        BY <2>1, <3>1 DEF PassKnows
    <3>3. collapsed[s] = runners[1].state[s]
        BY <2>2, <2>5
    <3>. HIDE DEF history, collapsed
    <3>. QED BY <3>2, <3>3
  <2>. QED BY <2>4, <2>5
<1>3. collapsed = [s \in Subsystems |-> collapsed[s]]
    BY DEF Collapsed
<1>4. Contract!FinalState(plan, chance) = [s \in Subsystems |-> history(s)]
    BY DEF Contract!FinalState
<1>5. collapsed = [s \in Subsystems |-> history(s)]
  <2>. HIDE DEF collapsed, history
  <2>. QED BY <1>2, <1>3
<1>. QED BY <1>4, <1>5

\* A register is asked of a single pass only if nothing is measured.
LEMMA RegisterIsRun ==
    ASSUME CallInv, ~NeedsTrajectories, want.register, NEW chance
    PROVE  Contract!Row(plan, chance) = Register
<1>1. \A k \in 1..Len(plan) : ~IsMeasurement(plan[k])
    BY SparedFacts
<1>2. ASSUME NEW c PROVE Contract!Writers(plan, c, Len(plan) + 1) = {}
  <2>1. (Len(plan) + 1) - 1 = Len(plan)
      BY CallFacts
  <2>. QED BY <1>1, <2>1
       DEF Contract!Writers, Contract!Writing, Contract!IsMeasurement, IsMeasurement
<1>3. \A c : /\ Contract!DigitBefore(plan, chance, c, Len(plan) + 1) = start[c]
             /\ Contract!OriginBefore(plan, chance, c, Len(plan) + 1) = <<>>
    BY <1>2 DEF Contract!DigitBefore, Contract!OriginBefore
<1>. QED BY <1>3 DEF Contract!Row, Register
-----------------------------------------------------------------------------
(* What else is invariant: the answer waits, a batch ends with the state   *)
(* of its last shot, and the single pass is at a step of the plan.         *)

AwaitInv ==
    /\ pc # "returned" => result = None
    /\ Started => (path = "per_shot" <=> NeedsTrajectories)

\* A runner whose batch is over keeps the state and register of its last shot.
Ended(p, register, kinds, sts, batch, r) ==
    r.done = Len(batch) /\ Len(batch) # 0 =>
       /\ r.state = Replayed(p, register, kinds, sts[batch[Len(batch)]])[Len(p)].state
       /\ r.clbits = Replayed(p, register, kinds, sts[batch[Len(batch)]])[Len(p)].clbits

EndsInv ==
    Started /\ path = "per_shot" =>
       \A b \in DOMAIN batches :
          Ended(plan, Register, ChancyKinds, streams, batches[b], runners[b])

SingleInv ==
    Started /\ path = "single_pass" => runners[1].state = Passed(plan)[runners[1].at - 1]

JInv == IInv /\ AwaitInv /\ EndsInv /\ SingleInv

\* The call decides whether trajectories are needed.
LEMMA NeedsSame ==
    ASSUME UNCHANGED call
    PROVE  NeedsTrajectories' <=> NeedsTrajectories
BY DEF call, NeedsTrajectories, Indices, IsMeasurement, stochastic, TouchesMeasured, Targets

LEMMA StepAwaits == IInv /\ AwaitInv /\ [Next]_vars => AwaitInv'
<1>. SUFFICES ASSUME IInv, AwaitInv, [Next]_vars PROVE AwaitInv'
    OBVIOUS
<1>1. UNCHANGED call
    BY DEF Next, Reject, Dispatch, Replay, FinishShot, WorkerFails, Collect, EvolveOnce, Sample, vars
<1>2. NeedsTrajectories' <=> NeedsTrajectories
    BY <1>1, NeedsSame
<1>3. ASSUME pc' # "returned" PROVE result' = None
    BY <1>3 DEF Next, Reject, Dispatch, Replay, FinishShot, WorkerFails, Collect, EvolveOnce, Sample,
                vars, AwaitInv
<1>4. ASSUME Started' PROVE path' = "per_shot" <=> NeedsTrajectories
  <2>1. CASE Dispatch
      BY <2>1 DEF Dispatch
  <2>2. CASE ~Dispatch
    <3>1. Started /\ UNCHANGED policy
        BY <1>4, <2>2 DEF Next, Reject, Replay, FinishShot, WorkerFails, Collect, EvolveOnce, Sample,
                          vars, Started
    <3>. QED BY <3>1 DEF AwaitInv, policy
  <2>. QED BY <2>1, <2>2
<1>. QED BY <1>2, <1>3, <1>4 DEF AwaitInv

\* What one runner's move shows of the ends of all.
LEMMA EndsMoves ==
    ASSUME IInv, EndsInv, Started, path = "per_shot", UNCHANGED <<call, policy>>,
           NEW b \in DOMAIN batches, NEW r, runners' = [runners EXCEPT ![b] = r],
           Ended(plan, Register, ChancyKinds, streams, batches[b], r)
    PROVE  EndsInv'
<1>1. /\ plan' = plan /\ start' = start /\ engine' = engine
      /\ batches' = batches /\ streams' = streams
    BY DEF call, policy
<1>2. Register' = Register /\ ChancyKinds' = ChancyKinds
    BY <1>1 DEF Register, ChancyKinds, stochastic
<1>3. \A c \in DOMAIN batches : runners'[c] = IF c = b THEN r ELSE runners[c]
    BY DEF IInv, RunnerInv
<1>4. \A c \in DOMAIN batches :
         Ended(plan, Register, ChancyKinds, streams, batches[c], runners'[c])
    BY <1>3 DEF EndsInv
<1>. QED BY <1>1, <1>2, <1>4 DEF EndsInv

\* A replayed step ends no batch.
LEMMA ReplayEnds ==
    ASSUME IInv, EndsInv, Started, NEW b \in DOMAIN batches, Replay(b)
    PROVE  EndsInv'
<1>. DEFINE r == runners[b]
<1>1. path = "per_shot" /\ Busy(b) /\ UNCHANGED <<call, policy>>
    BY DEF Replay
<1>2. /\ r \in RunnerType(plan, MaxDraws) /\ r.done \in Nat /\ Len(batches[b]) \in Nat
      /\ r.done + 1 <= Len(batches[b])
    BY <1>1, InAShot
<1>. DEFINE M(at, drawn, state, clbits) ==
              [r EXCEPT !.at = at, !.drawn = drawn, !.state = state, !.clbits = clbits]
<1>3. ASSUME NEW at, NEW drawn, NEW state, NEW clbits
      PROVE  M(at, drawn, state, clbits).done = r.done
    BY <1>2 DEF RunnerType
<1>4. \E at, drawn, state, clbits : runners' = [runners EXCEPT ![b] = M(at, drawn, state, clbits)]
  <2>1. ASSUME NEW at, NEW state
        PROVE  [r EXCEPT !.at = at, !.state = state] = M(at, r.drawn, state, r.clbits)
      BY <1>2 DEF RunnerType
  <2>2. ASSUME NEW at, NEW drawn, NEW state
        PROVE  [r EXCEPT !.at = at, !.drawn = drawn, !.state = state] = M(at, drawn, state, r.clbits)
      BY <1>2 DEF RunnerType
  <2>3. ASSUME NEW at
        PROVE  [r EXCEPT !.at = at] = M(at, r.drawn, r.state, r.clbits)
      BY <1>2 DEF RunnerType
  <2>4. CASE Deterministic(b)
    <3>1. PICK state : runners' = [runners EXCEPT ![b] = [r EXCEPT !.at = r.at + 1, !.state = state]]
        BY <2>4 DEF Deterministic
    <3>2. [r EXCEPT !.at = r.at + 1, !.state = state] = M(r.at + 1, r.drawn, state, r.clbits)
        BY <2>1
    <3>3. runners' = [runners EXCEPT ![b] = M(r.at + 1, r.drawn, state, r.clbits)]
        BY <3>1, <3>2
    <3>. HIDE DEF M, r
    <3>. QED BY <3>3
  <2>5. CASE Branch(b)
    <3>1. \/ \E state : runners' = [runners EXCEPT ![b] =
                           [r EXCEPT !.at = r.at + 1, !.drawn = r.drawn + 1, !.state = state]]
          \/ runners' = [runners EXCEPT ![b] = [r EXCEPT !.at = r.at + 1]]
        BY <2>5 DEF Branch
    <3>2. CASE runners' = [runners EXCEPT ![b] = [r EXCEPT !.at = r.at + 1]]
      <4>1. [r EXCEPT !.at = r.at + 1] = M(r.at + 1, r.drawn, r.state, r.clbits)
          BY <2>3
      <4>2. runners' = [runners EXCEPT ![b] = M(r.at + 1, r.drawn, r.state, r.clbits)]
          BY <3>2, <4>1
      <4>. HIDE DEF M, r
      <4>. QED BY <4>2
    <3>3. ASSUME NEW state, runners' = [runners EXCEPT ![b] =
                    [r EXCEPT !.at = r.at + 1, !.drawn = r.drawn + 1, !.state = state]]
          PROVE  \E at, drawn, st, clbits : runners' = [runners EXCEPT ![b] = M(at, drawn, st, clbits)]
      <4>1. [r EXCEPT !.at = r.at + 1, !.drawn = r.drawn + 1, !.state = state]
              = M(r.at + 1, r.drawn + 1, state, r.clbits)
          BY <2>2
      <4>2. runners' = [runners EXCEPT ![b] = M(r.at + 1, r.drawn + 1, state, r.clbits)]
          BY <3>3, <4>1
      <4>. HIDE DEF M, r
      <4>. QED BY <4>2
    <3>. QED BY <3>1, <3>2, <3>3
  <2>6. CASE Measure(b)
      BY <2>6 DEF Measure
  <2>. QED BY <2>4, <2>5, <2>6 DEF Replay
<1>7. \E s : runners' = [runners EXCEPT ![b] = s] /\ s.done = r.done
  <2>1. PICK at, drawn, state, clbits : runners' = [runners EXCEPT ![b] = M(at, drawn, state, clbits)]
      BY <1>4
  <2>2. M(at, drawn, state, clbits).done = r.done
      BY <1>3
  <2>. HIDE DEF M, r
  <2>. QED BY <2>1, <2>2
<1>8. PICK s : runners' = [runners EXCEPT ![b] = s] /\ s.done = r.done
    BY <1>7
<1>9. s.done # Len(batches[b])
    BY <1>2, <1>8
<1>10. Ended(plan, Register, ChancyKinds, streams, batches[b], s)
    BY <1>9 DEF Ended
<1>. QED BY <1>1, <1>8, <1>10, EndsMoves

\* The last shot of a batch leaves its state and register.
LEMMA FinishEnds ==
    ASSUME IInv, EndsInv, Started, NEW b \in DOMAIN batches, FinishShot(b)
    PROVE  EndsInv'
<1>. DEFINE r == runners[b]
            over == r.done + 1 = Len(batches[b])
            next == [Idle EXCEPT !.done = r.done + 1,
                                 !.rows = Append(r.rows, r.clbits),
                                 !.state = IF over THEN r.state ELSE Blank,
                                 !.clbits = IF over THEN r.clbits ELSE Register]
            m == Len(plan)
            A(n) == Replayed(plan, Register, ChancyKinds, streams[n])
<1>1. /\ path = "per_shot" /\ Busy(b) /\ r.at > m /\ UNCHANGED <<call, policy>>
      /\ runners' = [runners EXCEPT ![b] = next]
    BY DEF FinishShot
<1>2. /\ r \in RunnerType(plan, MaxDraws)
      /\ r.state = After(ShotOf(b))[r.at - 1].state
      /\ r.clbits = After(ShotOf(b))[r.at - 1].clbits
    BY <1>1, InAShot
<1>3. m \in Nat
    BY CallFacts DEF IInv
<1>4. r.at - 1 = m
    BY <1>1, <1>2, <1>3 DEF RunnerType
<1>5. /\ next.done = r.done + 1
      /\ next.state = (IF over THEN r.state ELSE Blank)
      /\ next.clbits = (IF over THEN r.clbits ELSE Register)
    BY DEF Idle
<1>6. over => ShotOf(b) = batches[b][Len(batches[b])]
    BY DEF ShotOf
<1>7. over => /\ next.state = A(batches[b][Len(batches[b])])[m].state
              /\ next.clbits = A(batches[b][Len(batches[b])])[m].clbits
  <2>. HIDE DEF next, A
  <2>1. After(ShotOf(b)) = A(ShotOf(b))
      BY DEF After, A
  <2>. QED BY <1>2, <1>4, <1>5, <1>6, <2>1
<1>8. Ended(plan, Register, ChancyKinds, streams, batches[b], next)
  <2>. HIDE DEF next
  <2>. QED BY <1>5, <1>7 DEF Ended
<1>. HIDE DEF next
<1>. QED BY <1>1, <1>8, EndsMoves

LEMMA StepEnds == IInv /\ EndsInv /\ [Next]_vars => EndsInv'
<1>. SUFFICES ASSUME IInv, EndsInv, [Next]_vars, Started', path' = "per_shot" PROVE EndsInv'
    BY DEF EndsInv
<1>1. ASSUME Started, UNCHANGED <<call, policy, runners>> PROVE EndsInv'
    BY <1>1 DEF EndsInv, call, policy, Register, ChancyKinds, stochastic
<1>2. CASE UNCHANGED vars
    BY <1>1, <1>2 DEF vars, Started
<1>3. CASE Reject
    BY <1>3 DEF Reject, Started
<1>4. CASE Dispatch
  <2>1. runners' = [b \in 1..Len(batches') |-> Idle] /\ IInv'
      BY <1>4, StepKeeps DEF Dispatch, Next
  <2>2. DOMAIN batches' = 1..Len(batches')
      BY <2>1 DEF IInv, PolicyInv, Partitioned
  <2>3. ASSUME NEW b \in DOMAIN batches'
        PROVE  runners'[b].done = 0
      BY <2>1, <2>2 DEF Idle
  <2>. QED BY <2>3 DEF EndsInv, Ended
<1>5. ASSUME NEW b \in DOMAIN batches, Replay(b) PROVE EndsInv'
    BY <1>5, ReplayEnds DEF Replay, Started
<1>6. ASSUME NEW b \in DOMAIN batches, FinishShot(b) PROVE EndsInv'
    BY <1>6, FinishEnds DEF FinishShot, Started
<1>7. CASE WorkerFails
    BY <1>1, <1>7 DEF WorkerFails, Started
<1>8. CASE Collect
    BY <1>1, <1>8 DEF Collect, Started
<1>9. CASE EvolveOnce
    BY <1>9 DEF EvolveOnce, policy
<1>10. CASE Sample
    BY <1>10 DEF Sample, policy
<1>. QED BY <1>2, <1>3, <1>4, <1>5, <1>6, <1>7, <1>8, <1>9, <1>10 DEF Next

\* The single pass takes the plan's steps in order.
LEMMA EvolvePasses ==
    ASSUME IInv, AwaitInv, SingleInv, EvolveOnce
    PROVE  SingleInv'
<1>. DEFINE r == runners[1]
            k == r.at
<1>1. /\ path = "single_pass" /\ k <= Len(plan) /\ Started /\ plan' = plan
    BY DEF EvolveOnce, call, Started
<1>2. 1 \in DOMAIN batches /\ CallInv /\ ~NeedsTrajectories
    BY <1>1 DEF IInv, PolicyInv, AwaitInv
<1>3. /\ r \in RunnerType(plan, MaxDraws)
      /\ runners \in [DOMAIN batches -> RunnerType(plan, MaxDraws)]
    BY <1>1, <1>2 DEF IInv, RunnerInv
<1>4. Len(plan) \in Nat
    BY <1>2, CallFacts
<1>5. k \in 1..Len(plan)
    BY <1>1, <1>3, <1>4 DEF RunnerType
<1>6. plan[k].condition = {}
    BY <1>2, <1>5, SparedFacts
<1>7. r.state = Passed(plan)[k - 1] /\ Passed(plan)[k] = PassStep(Passed(plan)[k - 1], plan, k)
    BY <1>1, <1>4, <1>5, PassedUnfolds DEF SingleInv
<1>8. runners'[1].at = k + 1 /\ runners'[1].state = PassStep(r.state, plan, k)
  <2>1. CASE IsMeasurement(plan[k])
    <3>1. runners' = [runners EXCEPT ![1].at = @ + 1]
        BY <2>1 DEF EvolveOnce
    <3>. QED BY <1>2, <1>3, <2>1, <3>1 DEF PassStep, RunnerType
  <2>2. CASE ~IsMeasurement(plan[k])
    <3>1. Matches(plan[k].condition, r.clbits)
        BY <1>6 DEF Matches
    <3>2. runners' = [runners EXCEPT ![1] = [r EXCEPT !.at = @ + 1,
                          !.state = Touch(@, k, Targets(plan[k]), Undrawn)]]
        BY <2>2, <3>1 DEF EvolveOnce, Deterministic
    <3>3. /\ [r EXCEPT !.at = @ + 1, !.state = Touch(@, k, Targets(plan[k]), Undrawn)].at = k + 1
          /\ [r EXCEPT !.at = @ + 1, !.state = Touch(@, k, Targets(plan[k]), Undrawn)].state
               = Touch(r.state, k, Targets(plan[k]), Undrawn)
        BY <1>3 DEF RunnerType
    <3>. QED BY <1>2, <1>3, <2>2, <3>2, <3>3 DEF PassStep
  <2>. QED BY <2>1, <2>2
<1>9. (k + 1) - 1 = k
    BY <1>5
<1>10. runners'[1].state = Passed(plan)[runners'[1].at - 1]
    BY <1>7, <1>8, <1>9
<1>. QED BY <1>1, <1>10 DEF SingleInv

LEMMA StepPasses == IInv /\ AwaitInv /\ SingleInv /\ [Next]_vars => SingleInv'
<1>. SUFFICES ASSUME IInv, AwaitInv, SingleInv, [Next]_vars, Started', path' = "single_pass"
              PROVE  SingleInv'
    BY DEF SingleInv
<1>1. ASSUME Started, UNCHANGED <<call, policy, runners>> PROVE SingleInv'
    BY <1>1 DEF SingleInv, call, policy
<1>2. CASE UNCHANGED vars
    BY <1>1, <1>2 DEF vars, Started
<1>3. CASE Reject
    BY <1>3 DEF Reject, Started
<1>4. CASE Dispatch
  <2>1. /\ runners' = [b \in 1..Len(batches') |-> Idle] /\ IInv' /\ plan' = plan
      BY <1>4, StepKeeps DEF Dispatch, Next, call
  <2>2. batches' = <<<<1>>>>
      BY <2>1 DEF IInv, PolicyInv
  <2>3. runners'[1] = Idle
      BY <2>1, <2>2
  <2>4. Passed(plan)[0] = Blank
      BY PassedUnfolds, CallFacts DEF IInv
  <2>5. runners'[1].state = Passed(plan)[runners'[1].at - 1]
      BY <2>3, <2>4 DEF Idle
  <2>. QED BY <2>1, <2>5 DEF SingleInv
<1>5. ASSUME NEW b \in DOMAIN batches, Replay(b) \/ FinishShot(b) PROVE FALSE
    BY <1>5 DEF Replay, FinishShot, policy
<1>6. CASE WorkerFails
    BY <1>1, <1>6 DEF WorkerFails, Started
<1>7. CASE Collect
    BY <1>1, <1>7 DEF Collect, Started
<1>8. CASE EvolveOnce
    BY <1>8, EvolvePasses
<1>9. CASE Sample
    BY <1>1, <1>9 DEF Sample, Started
<1>. QED BY <1>2, <1>3, <1>4, <1>5, <1>6, <1>7, <1>8, <1>9 DEF Next

LEMMA MoreInvariant == (Init => JInv) /\ (JInv /\ [Next]_vars => JInv')
<1>1. Init => JInv
    BY InitKeeps DEF Init, JInv, AwaitInv, EndsInv, SingleInv, Started
<1>2. JInv /\ [Next]_vars => JInv'
    BY StepKeeps, StepAwaits, StepEnds, StepPasses DEF JInv
<1>. QED BY <1>1, <1>2
-----------------------------------------------------------------------------
(* Every answer is a legal one.                                            *)

\* The last shot of the last batch is the last shot.
LEMMA LastShotIsLast ==
    ASSUME NEW bs, NEW n \in Nat, Partitioned(bs, n)
    PROVE  /\ Len(bs) \in DOMAIN bs /\ Len(bs[Len(bs)]) \in Nat /\ Len(bs[Len(bs)]) # 0
           /\ bs[Len(bs)][Len(bs[Len(bs)])] = n
<1>. DEFINE m == Len(bs)
<1>1. m \in Nat /\ m # 0 /\ DOMAIN bs = 1..m
    BY DEF Partitioned
<1>2. PICK before \in [1..(m + 1) -> 0..n] :
        /\ before[m + 1] = n
        /\ \A b \in 1..m :
              /\ before[b] < before[b + 1]
              /\ Len(bs[b]) = before[b + 1] - before[b]
              /\ \A i \in 1..Len(bs[b]) : bs[b][i] = before[b] + i
    BY DEF Partitioned
<1>3. m \in 1..m /\ m \in 1..(m + 1) /\ m + 1 \in 1..(m + 1)
    BY <1>1
<1>4. before[m] \in 0..n /\ before[m] < n /\ Len(bs[m]) = n - before[m]
    BY <1>2, <1>3
<1>5. Len(bs[m]) \in 1..Len(bs[m]) /\ Len(bs[m]) \in Nat /\ Len(bs[m]) # 0
    BY <1>4
<1>6. bs[m][Len(bs[m])] = before[m] + Len(bs[m])
    BY <1>2, <1>3, <1>5
<1>. QED BY <1>1, <1>3, <1>4, <1>5, <1>6

\* The rows of a finished call, one per shot, each of a run.
LEMMA CollectedRows ==
    ASSUME JInv, Collect, want.counts
    PROVE  /\ DOMAIN result'.rows = 1..shots
           /\ \A n \in 1..shots : result'.rows[n] = Contract!Row(plan, ChanceOf(n))
<1>1. /\ path = "per_shot" /\ Started /\ \A b \in DOMAIN batches : ~Busy(b)
      /\ result'.rows = Gathered(runners, Len(batches))[Len(batches)]
    BY DEF Collect, Started
<1>2. IInv /\ CallInv /\ streams \in Spawned /\ Partitioned(batches, Iterations)
    BY <1>1 DEF JInv, IInv, PolicyInv
<1>3. /\ Iterations = shots /\ shots \in Nat /\ Len(plan) \in Nat
      /\ DOMAIN batches = 1..Len(batches)
      /\ \A b \in DOMAIN batches :
            /\ Len(batches[b]) \in Nat
            /\ \A i \in 1..Len(batches[b]) : batches[b][i] \in 1..shots
    BY <1>2, BatchFacts, CallFacts
<1>. DEFINE R == Registers(plan)
            f == [n \in 1..shots |-> Contract!Row(plan, ChanceOf(n))]
<1>4. ASSUME NEW n \in 1..shots
      PROVE  /\ Contract!Row(plan, ChanceOf(n)) \in R
             /\ Alone(streams[n]) = Contract!Row(plan, ChanceOf(n))
  <2>1. Len(plan) \in 0..Len(plan)
      BY <1>3
  <2>2. After(n)[Len(plan)].clbits \in R
      BY <1>2, <2>1, OwnRun
  <2>3. After(n)[Len(plan)].clbits = Contract!Row(plan, ChanceOf(n))
      BY <1>2, RowOfShot
  <2>. QED BY <2>2, <2>3 DEF After, Alone
<1>5. f \in [1..shots -> R]
  <2>. HIDE DEF R
  <2>. QED BY <1>4
<1>6. ASSUME NEW b \in 1..Len(batches)
      PROVE  /\ runners[b].rows \in Seq(R) /\ Len(runners[b].rows) = Len(batches[b])
             /\ \A i \in 1..Len(batches[b]) : runners[b].rows[i] = f[batches[b][i]]
  <2>1. /\ runners[b] \in RunnerType(plan, MaxDraws)
        /\ runners[b].done <= Len(batches[b]) /\ Len(runners[b].rows) = runners[b].done
        /\ Follows(plan, Register, ChancyKinds, streams, batches[b], runners[b])
      BY <1>1, <1>2, <1>3 DEF IInv, RunnerInv
  <2>2. runners[b].done \in Nat /\ runners[b].rows \in Seq(R)
      BY <2>1 DEF RunnerType
  <2>3. runners[b].done = Len(batches[b])
      BY <1>1, <1>3, <2>1, <2>2 DEF Busy
  <2>4. \A i \in 1..Len(batches[b]) : runners[b].rows[i] = Alone(streams[batches[b][i]])
      BY <2>1, <2>3 DEF Follows, Alone
  <2>5. \A i \in 1..Len(batches[b]) : f[batches[b][i]] = Alone(streams[batches[b][i]])
      BY <1>3, <1>4
  <2>. HIDE DEF f, R
  <2>. QED BY <2>1, <2>2, <2>3, <2>4, <2>5
<1>. DEFINE rows == Gathered(runners, Len(batches))[Len(batches)]
<1>7. rows \in Seq(R) /\ Len(rows) = shots /\ \A n \in 1..shots : rows[n] = f[n]
  <2>1. Partitioned(batches, shots)
      BY <1>2, <1>3
  <2>2. HaveRows(runners, batches, f, R)
    <3>. HIDE DEF f, R
    <3>. QED BY <1>6 DEF HaveRows
  <2>3. shots \in Nat
      BY <1>3
  <2>. HIDE DEF f, R
  <2>4. rows \in Seq(R)
      BY <1>5, <2>1, <2>2, <2>3, GatheredRows
  <2>5. Len(rows) = shots
      BY <1>5, <2>1, <2>2, <2>3, GatheredRows
  <2>6. Agreeing(rows, f, shots)
      BY <1>5, <2>1, <2>2, <2>3, GatheredRows
  <2>. HIDE DEF rows
  <2>. QED BY <2>4, <2>5, <2>6 DEF Agreeing
<1>8. DOMAIN rows = 1..shots /\ \A n \in 1..shots : rows[n] = f[n]
  <2>1. DOMAIN rows = 1..Len(rows)
    <3>. HIDE DEF rows
    <3>. QED BY <1>7
  <2>. HIDE DEF rows
  <2>. QED BY <1>7, <2>1
<1>9. result'.rows = rows
    BY <1>1
<1>. HIDE DEF rows
<1>. QED BY <1>8, <1>9

\* The state and register of a finished call are those of its last shot.
LEMMA CollectedLast ==
    ASSUME JInv, Collect
    PROVE  LET last == runners[Len(batches)]
               chance == ChanceOf(Iterations)
           IN  /\ last.state = Contract!FinalState(plan, chance)
               /\ last.clbits = Contract!Row(plan, chance)
               /\ chance \in Contract!Chances(plan)
<1>. DEFINE m == Len(batches)
            k == Len(batches[m])
<1>1. path = "per_shot" /\ Started /\ \A b \in DOMAIN batches : ~Busy(b)
    BY DEF Collect, Started
<1>2. IInv /\ CallInv /\ streams \in Spawned /\ Partitioned(batches, Iterations)
    BY <1>1 DEF JInv, IInv, PolicyInv
<1>3. Iterations \in 1..shots /\ Iterations \in Nat
    BY <1>2, CallFacts
<1>4. m \in DOMAIN batches /\ k \in Nat /\ k # 0 /\ batches[m][k] = Iterations
    BY <1>2, <1>3, LastShotIsLast
<1>5. runners[m].done = k
  <2>1. runners[m] \in RunnerType(plan, MaxDraws) /\ runners[m].done <= k
      BY <1>1, <1>2, <1>4 DEF IInv, RunnerInv
  <2>2. runners[m].done \in Nat
      BY <2>1 DEF RunnerType
  <2>. QED BY <1>1, <1>4, <2>1, <2>2 DEF Busy
<1>6. /\ runners[m].state = After(Iterations)[Len(plan)].state
      /\ runners[m].clbits = After(Iterations)[Len(plan)].clbits
  <2>1. Ended(plan, Register, ChancyKinds, streams, batches[m], runners[m])
      BY <1>1, <1>4 DEF JInv, EndsInv
  <2>. QED BY <1>4, <1>5, <2>1 DEF Ended, After
<1>7. /\ After(Iterations)[Len(plan)].clbits = Contract!Row(plan, ChanceOf(Iterations))
      /\ After(Iterations)[Len(plan)].state = Contract!FinalState(plan, ChanceOf(Iterations))
      /\ ChanceOf(Iterations) \in Contract!Chances(plan)
    BY <1>2, <1>3, RowOfShot, ChanceIsPossible
<1>. QED BY <1>6, <1>7

LEMMA CollectIsLegal ==
    ASSUME JInv, Collect
    PROVE  Contract!Legal(result')
<1>. DEFINE last == runners[Len(batches)]
            chance == ChanceOf(Iterations)
<1>1. CallInv /\ streams \in Spawned
    BY DEF JInv, IInv, PolicyInv, Collect, Started
<1>2. /\ ~want.counts => result'.rows = None
      /\ result'.state = IF want.state THEN last.state ELSE None
      /\ result'.register = IF want.register THEN last.clbits ELSE None
    BY DEF Collect
<1>3. /\ last.state = Contract!FinalState(plan, chance) /\ last.clbits = Contract!Row(plan, chance)
      /\ chance \in Contract!Chances(plan)
    BY CollectedLast
<1>4. want.counts => /\ DOMAIN result'.rows = 1..shots
                     /\ \A n \in 1..shots : result'.rows[n] = Contract!Row(plan, ChanceOf(n))
    BY CollectedRows
<1>5. \A n \in 1..shots : ChanceOf(n) \in Contract!Chances(plan)
    BY <1>1, ChanceIsPossible
<1>6. shots \in 1..shots /\ (want.counts => Iterations = shots)
    BY <1>1, CallFacts
<1>7. want.counts => result'.rows[shots] = Contract!Row(plan, chance)
    BY <1>4, <1>6
<1>. HIDE DEF chance, last
<1>. QED BY <1>2, <1>3, <1>4, <1>5, <1>7 DEF Contract!Legal

LEMMA SampleIsLegal ==
    ASSUME JInv, Sample
    PROVE  Contract!Legal(result')
<1>1. /\ path = "single_pass" /\ Started /\ runners[1].at > Len(plan)
    BY DEF Sample, Started
<1>2. CallInv /\ ~NeedsTrajectories /\ batches = <<<<1>>>> /\ 1 \in DOMAIN batches
    BY <1>1 DEF JInv, IInv, PolicyInv, AwaitInv
<1>3. runners[1].state = Passed(plan)[Len(plan)]
  <2>1. runners[1] \in RunnerType(plan, MaxDraws)
      BY <1>1, <1>2 DEF JInv, IInv, RunnerInv
  <2>2. Len(plan) \in Nat
      BY <1>2, CallFacts
  <2>3. runners[1].at - 1 = Len(plan)
      BY <1>1, <2>1, <2>2 DEF RunnerType
  <2>. QED BY <1>1, <2>3 DEF JInv, SingleInv
<1>4. PICK samples \in [1..shots -> Draws], confusions \in [1..shots -> Draws] :
        result' = [rows |-> IF want.counts
                              THEN [n \in 1..shots |-> SampledRow(samples[n], confusions[n])]
                              ELSE None,
                   state |-> IF want.state THEN Collapsed(runners[1].state, samples[shots])
                                           ELSE None,
                   register |-> IF want.register THEN Register ELSE None]
    BY DEF Sample
<1>. DEFINE chance(n) == SampleChance(samples[n], confusions[n])
<1>5. shots \in 1..shots
    BY <1>2, CallFacts
<1>6. ASSUME NEW n \in 1..shots
      PROVE  /\ chance(n) \in Contract!Chances(plan)
             /\ SampledRow(samples[n], confusions[n]) = Contract!Row(plan, chance(n))
             /\ Collapsed(runners[1].state, samples[n]) = Contract!FinalState(plan, chance(n))
    BY <1>2, <1>3, SampleIsPossible, SampledIsRun, CollapsedIsRun
<1>7. want.register => Register = Contract!Row(plan, chance(shots))
    BY <1>2, RegisterIsRun
<1>8. /\ want.counts => /\ DOMAIN result'.rows = 1..shots
                        /\ \A n \in 1..shots : result'.rows[n] = Contract!Row(plan, chance(n))
      /\ ~want.counts => result'.rows = None
      /\ result'.state = IF want.state THEN Contract!FinalState(plan, chance(shots)) ELSE None
      /\ result'.register = IF want.register THEN Contract!Row(plan, chance(shots)) ELSE None
  <2>. HIDE DEF chance
  <2>. QED BY <1>4, <1>5, <1>6, <1>7
<1>. HIDE DEF chance
<1>. QED BY <1>5, <1>6, <1>8 DEF Contract!Legal

\* A step of the call answers as the contract does, or not at all.
LEMMA StepAnswers == JInv /\ [Next]_vars => [Contract!Answer]_(Contract!vars)
<1>. SUFFICES ASSUME JInv, [Next]_vars PROVE [Contract!Answer]_(Contract!vars)
    OBVIOUS
<1>1. UNCHANGED <<plan, start, want, shots, stochastic>>
    BY DEF Next, Reject, Dispatch, Replay, FinishShot, WorkerFails, Collect, EvolveOnce, Sample,
           vars, call, stochastic
<1>2. CASE result' = result
    BY <1>1, <1>2 DEF Contract!vars
<1>3. CASE result' # result
  <2>1. Collect \/ Sample
      BY <1>3 DEF Next, Reject, Dispatch, Replay, FinishShot, WorkerFails, EvolveOnce, vars
  <2>2. Contract!Legal(result')
      BY <2>1, CollectIsLegal, SampleIsLegal
  <2>3. result = None
      BY <2>1 DEF JInv, AwaitInv, Collect, Sample
  <2>4. result' # None
      BY <1>3, <2>3
  <2>. QED BY <1>1, <2>2, <2>3, <2>4 DEF Contract!Answer
<1>. QED BY <1>2, <1>3

(* Whatever the plan, the outputs asked for, the number of shots, the      *)
(* engine, the workers and the scheduling of the batches, the answer is    *)
(* one the contract allows: rows, state and register of source-order runs, *)
(* although the single pass defers its measurements and decodes sampled    *)
(* indices (python_workflow.py), and although trajectories are replayed    *)
(* in concurrent batches (parallel.py, trajectories.py).                   *)
THEOREM ImplementsContractForAll == Spec => ImplementsContract
<1>1. Init => Contract!Init
    BY DEF Init, Contract!Init
<1>2. Init => JInv
    BY MoreInvariant
<1>3. JInv /\ [Next]_vars => JInv'
    BY MoreInvariant
<1>4. JInv /\ [Next]_vars => [Contract!Answer]_(Contract!vars)
    BY StepAnswers
<1>. QED BY <1>1, <1>2, <1>3, <1>4, PTL DEF Spec, Contract!Spec, ImplementsContract
=============================================================================
