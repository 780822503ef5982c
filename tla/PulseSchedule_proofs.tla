------------------------ MODULE PulseSchedule_proofs ------------------------
(***************************************************************************)
(* Proofs about PulseSchedule, for every set of claims, durations and      *)
(* times and every length of region.                                       *)
(*                                                                         *)
(* The two loops are followed by an inductive invariant: the forward loop  *)
(* has fixed a prefix of the region to the least legal starts, the         *)
(* backward loop a suffix to the greatest ones below the horizon.          *)
(***************************************************************************)
EXTENDS PulseSchedule, SequenceTheorems, TLAPS

\* The prefix the forward loop has placed.
AsapPlaced == IF pc = "asap" THEN 1..(cursor - 1) ELSE Indices

\* The suffix the backward loop has placed.
AlapPlaced == (cursor + 1)..Len(blocks)

ControlInv ==
    /\ pc = "validate" => cursor = 1
    /\ pc = "asap" => cursor >= 1
    /\ pc = "place" => cursor <= Len(blocks)
    /\ pc = "place" /\ mode = "ASAP" => cursor = 0 /\ relative = asap
    /\ pc \in {"asap", "place"} => Automatic

AsapInv ==
    pc \in {"asap", "place"} =>
       \A i \in AsapPlaced :
          /\ \A e \in Predecessors(i) : asap[i] >= Completion(e)
          /\ \A s \in Rivals : asap[i] <= s[i]

HorizonInv ==
    pc = "place" => /\ \A i \in Indices : Completion(i) <= horizon
                    /\ \E i \in Indices : Completion(i) = horizon

AlapInv ==
    pc = "place" /\ mode = "ALAP" =>
       \A i \in AlapPlaced :
          /\ relative[i] >= asap[i]
          /\ relative[i] + blocks[i].duration <= horizon
          /\ \A l \in Successors(i) : relative[i] + blocks[i].duration <= relative[l]
          /\ \A s \in Rivals : FinishesBy(s, horizon) => s[i] <= relative[i]

\* The last block has no successor, so ALAP ends it at the horizon.
TightInv ==
    pc = "place" /\ mode = "ALAP" /\ cursor < Len(blocks) =>
       relative[Len(blocks)] + blocks[Len(blocks)].duration = horizon

ReturnInv ==
    /\ ReservationsExclusive
    /\ WithinRegion
    /\ AsapEarliest
    /\ AlapLatest
    /\ MakespanMinimal

IInv == TypeOK /\ ControlInv /\ AsapInv /\ HorizonInv /\ AlapInv /\ TightInv /\ ReturnInv

LEMMA BlockTypes ==
    ASSUME TypeOK, NEW i \in Indices
    PROVE  /\ blocks[i].claims \subseteq Claims
           /\ blocks[i].duration \in Nat
           /\ blocks[i].start # NoStart => blocks[i].start \in Nat
           /\ Completion(i) \in Nat
<1>1. blocks[i] \in Block
  BY DEF TypeOK
<1>2. /\ blocks[i].claims \in SUBSET Claims
      /\ blocks[i].duration \in Durations
      /\ blocks[i].start \in ExplicitTimes \cup {NoStart}
  BY <1>1 DEF Block
<1>3. asap[i] \in Nat
  BY DEF TypeOK
<1>4. blocks[i].duration \in Nat /\ (blocks[i].start # NoStart => blocks[i].start \in Nat)
  BY <1>2, SchedulingAssumption
<1>5. blocks[i].claims \subseteq Claims
  BY <1>2
<1>6. Completion(i) \in Nat
  BY <1>3, <1>4 DEF Completion
<1>7. QED
  BY <1>4, <1>5, <1>6

\* The region, its boundary and its mode are inputs: no step changes them.
LEMMA InputsStay ==
    ASSUME [Next]_vars
    PROVE  /\ blocks' = blocks /\ boundary' = boundary /\ mode' = mode
           /\ Indices' = Indices /\ Rivals' = Rivals /\ Automatic' = Automatic
           /\ Tolerance' = Tolerance
<1>1. blocks' = blocks /\ boundary' = boundary /\ mode' = mode
  BY DEF Next, vars, Reject, AcceptExplicit, BeginAutomatic, PlaceAsap,
         CloseHorizon, PlaceAlap, Publish
<1>2. QED
  BY <1>1 DEF Indices, Rivals, Legal, Conflict, Automatic, Explicit, Tolerance

LEMMA SameInterval ==
    ASSUME NEW m \in Nat, NEW n \in Nat, m >= 1, 1..m = 1..n
    PROVE  m = n
<1>1. m \in 1..n
  BY m \in 1..m
<1>2. n \in 1..m
  BY <1>1, n \in 1..n
<1>3. QED
  BY <1>1, <1>2

LEMMA InitInv == Init => IInv
<1> SUFFICES ASSUME Init PROVE IInv
  OBVIOUS
<1>1. PICK n \in 1..MaxBlocks : blocks \in [1..n -> Block]
  BY DEF Init
<1>2. Len(blocks) = n
  <2>1. n \in Nat
    BY SchedulingAssumption
  <2>2. blocks \in Seq(Block)
    BY <1>1, <2>1, SeqDef
  <2>3. Len(blocks) \in Nat /\ DOMAIN blocks = 1..Len(blocks)
    BY <2>2, LenProperties
  <2>4. 1..n = 1..Len(blocks)
    BY <1>1, <2>3
  <2>5. n >= 1
    BY <1>1, <2>1
  <2>6. QED
    BY <2>1, <2>3, <2>4, <2>5, SameInterval
<1>3. TypeOK
  BY <1>1, <1>2, SchedulingAssumption DEF Init, TypeOK, Indices, Zeros
<1>4. QED
  BY <1>3 DEF Init, IInv, ControlInv, AsapInv, HorizonInv, AlapInv, TightInv, ReturnInv,
     ReservationsExclusive, WithinRegion, AsapEarliest, AlapLatest, MakespanMinimal, Returned
\* The inputs of a step, once, for the five lemmas below.
LEMMA ActionsKeepInputs ==
    (\/ Reject \/ AcceptExplicit \/ BeginAutomatic
     \/ PlaceAsap \/ CloseHorizon \/ PlaceAlap \/ Publish) => [Next]_vars
BY DEF Next

LEMMA BeginAutomaticInv == IInv /\ BeginAutomatic => IInv'
<1> SUFFICES ASSUME IInv, BeginAutomatic PROVE IInv'
  OBVIOUS
<1> USE DEF BeginAutomatic
<1>1. /\ blocks' = blocks /\ boundary' = boundary /\ mode' = mode
      /\ Indices' = Indices /\ Rivals' = Rivals /\ Automatic' = Automatic
  BY ActionsKeepInputs, InputsStay
<1>2. TypeOK /\ cursor = 1 /\ pc' = "asap"
  BY DEF IInv, ControlInv
<1>3. TypeOK'
  BY <1>1, <1>2 DEF TypeOK
<1>4. ControlInv'
  BY <1>1, <1>2 DEF ControlInv, Automatic
<1>5. AsapPlaced' = {}
  BY <1>2 DEF AsapPlaced
<1>6. QED
  BY <1>2, <1>3, <1>4, <1>5 DEF IInv, AsapInv, HorizonInv, AlapInv, TightInv, ReturnInv,
     ReservationsExclusive, WithinRegion, AsapEarliest, AlapLatest, MakespanMinimal, Returned

LEMMA RejectInv == IInv /\ Reject => IInv'
<1> SUFFICES ASSUME IInv, Reject PROVE IInv'
  OBVIOUS
<1> USE DEF Reject
<1>1. Indices' = Indices
  BY ActionsKeepInputs, InputsStay
<1>2. TypeOK'
  BY <1>1 DEF IInv, TypeOK
<1>3. QED
  BY <1>2 DEF IInv, ControlInv, AsapInv, HorizonInv, AlapInv, TightInv, ReturnInv,
     ReservationsExclusive, WithinRegion, AsapEarliest, AlapLatest, MakespanMinimal, Returned

LEMMA PlaceAsapInv == IInv /\ PlaceAsap => IInv'
<1> SUFFICES ASSUME IInv, PlaceAsap PROVE IInv'
  OBVIOUS
<1>0. /\ blocks' = blocks /\ boundary' = boundary /\ mode' = mode
      /\ Indices' = Indices /\ Rivals' = Rivals /\ Automatic' = Automatic
  BY ActionsKeepInputs, InputsStay
<1>1. TypeOK /\ pc = "asap" /\ pc' = "asap" /\ cursor \in Indices /\ cursor' = cursor + 1
  BY DEF IInv, TypeOK, ControlInv, PlaceAsap, Indices
<1> DEFINE ready == {0} \cup {Completion(e) : e \in Predecessors(cursor)}
<1>2. PICK start \in ready : IsGreatest(start, ready) /\ asap' = [asap EXCEPT ![cursor] = start]
  BY DEF PlaceAsap
<1>3. Predecessors(cursor) \subseteq 1..(cursor - 1) /\ 1..(cursor - 1) \subseteq Indices
  BY <1>1 DEF Predecessors, TypeOK, Indices
<1>4. \A e \in Predecessors(cursor) : Completion(e) \in Nat
  BY <1>1, <1>3, BlockTypes
<1>5. start \in Nat
  BY <1>2, <1>4
<1>6. \A e \in Predecessors(cursor) : Completion(e) <= start
  BY <1>2 DEF IsGreatest
<1>7. TypeOK'
  <2>1. asap' \in [Indices -> Nat]
    BY <1>1, <1>2, <1>5 DEF TypeOK
  <2>2. cursor' \in 0..(Len(blocks) + 1)
    BY <1>1 DEF TypeOK, Indices
  <2>3. QED
    BY <1>0, <1>1, <2>1, <2>2 DEF TypeOK, PlaceAsap
<1>8. \A i \in 1..(cursor - 1) : asap'[i] = asap[i] /\ Completion(i)' = Completion(i)
  BY <1>0, <1>1, <1>2, <1>3 DEF TypeOK, Completion
<1>9. asap'[cursor] = start
  BY <1>1, <1>2 DEF TypeOK
<1>10. \A s \in Rivals : start <= s[cursor]
  <2> SUFFICES ASSUME NEW s \in Rivals PROVE start <= s[cursor]
    OBVIOUS
  <2>1. s \in [Indices -> Nat] /\ Legal(s)
    BY SchedulingAssumption DEF Rivals
  <2>2. CASE start = 0
    BY <1>1, <2>1, <2>2
  <2>3. ASSUME NEW e \in Predecessors(cursor), start = Completion(e)
        PROVE  start <= s[cursor]
    <3>1. e \in 1..(cursor - 1) /\ e \in Indices /\ Conflict(e, cursor)
      BY <1>3 DEF Predecessors
    <3>2. s[cursor] >= s[e] + blocks[e].duration
      BY <1>1, <2>1, <3>1 DEF Legal
    <3>3. asap[e] <= s[e]
      BY <1>1, <3>1 DEF IInv, AsapInv, AsapPlaced
    <3>4. asap[e] \in Nat /\ s[e] \in Nat /\ s[cursor] \in Nat /\ blocks[e].duration \in Nat
      BY <1>1, <2>1, <3>1, BlockTypes DEF TypeOK
    <3>5. QED
      BY <2>3, <3>2, <3>3, <3>4 DEF Completion
  <2>4. QED
    BY <1>2, <2>2, <2>3
<1>11. AsapInv'
  <2> SUFFICES ASSUME NEW i \in 1..cursor
               PROVE  /\ \A e \in Predecessors(i) : asap'[i] >= Completion(e)'
                      /\ \A s \in Rivals : asap'[i] <= s[i]
    <3>1. AsapPlaced' = 1..cursor
      BY <1>1 DEF AsapPlaced, TypeOK
    <3>2. \A j : Predecessors(j)' = Predecessors(j)
      BY <1>0 DEF Predecessors, Conflict
    <3>3. QED
      BY <1>0, <1>1, <3>1, <3>2 DEF AsapInv
  <2>1. CASE i = cursor
    <3>1. \A e \in Predecessors(i) : Completion(e)' = Completion(e)
      BY <1>3, <1>8, <2>1
    <3>2. QED
      BY <1>6, <1>9, <1>10, <2>1, <3>1, <1>4, <1>5
  <2>2. CASE i # cursor
    <3>1. i \in 1..(cursor - 1)
      BY <1>1, <2>2 DEF TypeOK
    <3>2. Predecessors(i) \subseteq 1..(cursor - 1)
      BY <1>1, <3>1 DEF Predecessors, TypeOK
    <3>3. /\ \A e \in Predecessors(i) : asap[i] >= Completion(e)
          /\ \A s \in Rivals : asap[i] <= s[i]
      BY <1>1, <3>1 DEF IInv, AsapInv, AsapPlaced
    <3>4. QED
      BY <1>8, <3>1, <3>2, <3>3
  <2>3. QED
    BY <2>1, <2>2
<1>12. ControlInv'
  BY <1>0, <1>1 DEF IInv, ControlInv, TypeOK
<1>13. QED
  BY <1>1, <1>7, <1>11, <1>12 DEF IInv, HorizonInv, AlapInv, TightInv, ReturnInv,
     ReservationsExclusive, WithinRegion, AsapEarliest, AlapLatest, MakespanMinimal, Returned
LEMMA CloseHorizonInv == IInv /\ CloseHorizon => IInv'
<1> SUFFICES ASSUME IInv, CloseHorizon PROVE IInv'
  OBVIOUS
<1>0. /\ blocks' = blocks /\ boundary' = boundary /\ mode' = mode
      /\ Indices' = Indices /\ Rivals' = Rivals /\ Automatic' = Automatic
  BY ActionsKeepInputs, InputsStay
<1>1. TypeOK /\ pc = "asap" /\ pc' = "place" /\ asap' = asap /\ cursor = Len(blocks) + 1
  BY DEF IInv, TypeOK, CloseHorizon
<1>2. PICK i \in Indices : Completion(i) = horizon'
                           /\ \A j \in Indices : Completion(j) <= horizon'
  BY DEF CloseHorizon, IsGreatest
<1>3. AsapPlaced = Indices /\ AsapPlaced' = Indices
  BY <1>0, <1>1 DEF AsapPlaced, Indices, TypeOK
<1>4. \A j : Completion(j)' = Completion(j) /\ Predecessors(j)' = Predecessors(j)
  BY <1>0, <1>1 DEF Completion, Predecessors, Conflict
<1>5. TypeOK'
  <2>1. horizon' \in Nat
    BY <1>1, <1>2, BlockTypes
  <2>2. relative' \in [Indices -> Nat] /\ cursor' \in 0..(Len(blocks) + 1)
    BY <1>1 DEF CloseHorizon, TypeOK, Zeros
  <2>3. QED
    BY <1>0, <1>1, <2>1, <2>2 DEF TypeOK, CloseHorizon
<1>6. AsapInv'
  BY <1>0, <1>1, <1>3, <1>4 DEF IInv, AsapInv
<1>7. HorizonInv'
  BY <1>0, <1>2, <1>4 DEF HorizonInv
<1>8. ControlInv'
  BY <1>0, <1>1 DEF CloseHorizon, IInv, ControlInv, TypeOK
<1>9. mode = "ALAP" => AlapPlaced' = {} /\ cursor' = Len(blocks)
  BY <1>0, <1>1 DEF CloseHorizon, AlapPlaced, TypeOK
<1>10. AlapInv' /\ TightInv'
  <2>1. Len(blocks) \in Nat
    BY <1>1 DEF TypeOK
  <2>2. QED
    BY <1>0, <1>9, <2>1 DEF AlapInv, TightInv
<1>11. QED
  BY <1>1, <1>5, <1>6, <1>7, <1>8, <1>10 DEF IInv, ReturnInv,
     ReservationsExclusive, WithinRegion, AsapEarliest, AlapLatest, MakespanMinimal, Returned

LEMMA PlaceAlapInv == IInv /\ PlaceAlap => IInv'
<1> SUFFICES ASSUME IInv, PlaceAlap PROVE IInv'
  OBVIOUS
<1>0. /\ blocks' = blocks /\ boundary' = boundary /\ mode' = mode
      /\ Indices' = Indices /\ Rivals' = Rivals /\ Automatic' = Automatic
  BY ActionsKeepInputs, InputsStay
<1>1. /\ TypeOK /\ pc = "place" /\ pc' = "place" /\ mode = "ALAP"
      /\ cursor \in Indices /\ cursor' = cursor - 1
      /\ asap' = asap /\ horizon' = horizon
  BY DEF IInv, TypeOK, ControlInv, PlaceAlap, Indices
<1> DEFINE duration == blocks[cursor].duration
           due == {horizon} \cup {relative[l] : l \in Successors(cursor)}
<1>2. PICK latest \in due : /\ IsLeast(latest, due)
                            /\ relative' = [relative EXCEPT ![cursor] = latest - duration]
  BY DEF PlaceAlap
<1>3. Successors(cursor) \subseteq AlapPlaced /\ AlapPlaced \subseteq Indices
  BY <1>1 DEF Successors, AlapPlaced, Indices, TypeOK
<1>4. /\ asap[cursor] \in Nat /\ duration \in Nat /\ horizon \in Nat
      /\ \A l \in Indices : relative[l] \in Nat /\ asap[l] \in Nat
  BY <1>1, BlockTypes DEF TypeOK
<1>5. /\ latest \in Nat /\ latest <= horizon
      /\ \A l \in Successors(cursor) : latest <= relative[l]
  BY <1>2, <1>3, <1>4 DEF IsLeast
<1>6. asap[cursor] + duration <= latest
  <2>1. asap[cursor] + duration <= horizon
    BY <1>1 DEF IInv, HorizonInv, Completion
  <2>2. ASSUME NEW l \in Successors(cursor) PROVE asap[cursor] + duration <= relative[l]
    <3>1. relative[l] >= asap[l]
      BY <1>1, <1>3 DEF IInv, AlapInv
    <3>2. cursor \in Predecessors(l) /\ l \in Indices
      BY <1>1, <1>3 DEF Predecessors, Successors, TypeOK, Indices
    <3>3. asap[l] >= asap[cursor] + duration
      BY <1>1, <3>2 DEF IInv, AsapInv, AsapPlaced, Completion
    <3>4. QED
      BY <1>4, <3>1, <3>2, <3>3
  <2>3. QED
    BY <1>2, <2>1, <2>2
<1>7. latest - duration \in Nat /\ latest - duration >= asap[cursor]
  BY <1>4, <1>5, <1>6
<1>8. relative'[cursor] = latest - duration /\ \A l \in Indices \ {cursor} : relative'[l] = relative[l]
  BY <1>1, <1>2 DEF TypeOK
<1>9. TypeOK'
  <2>1. relative' \in [Indices -> Nat]
    BY <1>1, <1>2, <1>7 DEF TypeOK
  <2>2. cursor' \in 0..(Len(blocks) + 1)
    BY <1>1 DEF TypeOK, Indices
  <2>3. QED
    BY <1>0, <1>1, <2>1, <2>2 DEF TypeOK, PlaceAlap
<1>10. \A j : /\ Completion(j)' = Completion(j)
              /\ Predecessors(j)' = Predecessors(j) /\ Successors(j)' = Successors(j)
  BY <1>0, <1>1 DEF Completion, Predecessors, Successors, Conflict
<1>11. AsapPlaced' = AsapPlaced
  BY <1>0, <1>1 DEF AsapPlaced
<1>12. AsapInv' /\ HorizonInv'
  BY <1>0, <1>1, <1>10, <1>11 DEF IInv, AsapInv, HorizonInv
<1>13. ControlInv'
  BY <1>0, <1>1 DEF IInv, ControlInv, Indices, TypeOK
<1>14. ASSUME NEW s \in Rivals, FinishesBy(s, horizon)
       PROVE  s[cursor] <= latest - duration
  <2>1. s \in [Indices -> Nat] /\ Legal(s)
    BY SchedulingAssumption DEF Rivals
  <2>2. CASE latest = horizon
    BY <1>1, <1>4, <1>14, <2>1, <2>2 DEF FinishesBy
  <2>3. ASSUME NEW l \in Successors(cursor), latest = relative[l]
        PROVE  s[cursor] <= latest - duration
    <3>1. l \in Indices /\ l \in AlapPlaced /\ cursor \in 1..(l - 1) /\ Conflict(cursor, l)
      BY <1>1, <1>3 DEF Successors, Indices, TypeOK
    <3>2. s[l] >= s[cursor] + duration
      BY <2>1, <3>1 DEF Legal
    <3>3. s[l] <= relative[l]
      BY <1>1, <1>14, <3>1 DEF IInv, AlapInv
    <3>4. s[l] \in Nat /\ s[cursor] \in Nat
      BY <1>1, <2>1, <3>1
    <3>5. QED
      BY <1>4, <2>3, <3>1, <3>2, <3>3, <3>4
  <2>4. QED
    BY <1>2, <2>2, <2>3
<1>15. AlapPlaced' = AlapPlaced \cup {cursor} /\ cursor \notin AlapPlaced
  BY <1>0, <1>1 DEF AlapPlaced, Indices, TypeOK
<1>16. AlapInv'
  <2> SUFFICES ASSUME NEW i \in AlapPlaced'
               PROVE  /\ relative'[i] >= asap[i]
                      /\ relative'[i] + blocks[i].duration <= horizon
                      /\ \A l \in Successors(i) : relative'[i] + blocks[i].duration <= relative'[l]
                      /\ \A s \in Rivals : FinishesBy(s, horizon) => s[i] <= relative'[i]
    <3>1. \A s : FinishesBy(s, horizon)' <=> FinishesBy(s, horizon)
      BY <1>0, <1>1 DEF FinishesBy
    <3>2. QED
      BY <1>0, <1>1, <1>10, <3>1 DEF AlapInv
  <2>1. CASE i = cursor
    <3>1. \A l \in Successors(cursor) : relative'[l] = relative[l] /\ relative[l] \in Nat
      BY <1>3, <1>4, <1>8, <1>15
    <3>2. relative'[i] >= asap[i] /\ relative'[i] + blocks[i].duration <= horizon
      BY <1>4, <1>5, <1>7, <1>8, <2>1
    <3>3. \A l \in Successors(i) : relative'[i] + blocks[i].duration <= relative'[l]
      BY <1>4, <1>5, <1>8, <2>1, <3>1
    <3>4. \A s \in Rivals : FinishesBy(s, horizon) => s[i] <= relative'[i]
      BY <1>8, <1>14, <2>1
    <3>5. QED
      BY <3>2, <3>3, <3>4
  <2>2. CASE i \in AlapPlaced
    <3>1. Successors(i) \subseteq AlapPlaced
      BY <1>1, <2>2 DEF Successors, AlapPlaced, TypeOK, Indices
    <3>2. relative'[i] = relative[i] /\ \A l \in Successors(i) : relative'[l] = relative[l]
      BY <1>3, <1>8, <1>15, <2>2, <3>1
    <3>3. QED
      BY <1>1, <2>2, <3>2 DEF IInv, AlapInv
  <2>3. QED
    BY <1>15, <2>1, <2>2
<1>17. TightInv'
  <2>0. Len(blocks) \in Nat /\ Len(blocks) \in Indices /\ cursor \in Nat /\ cursor <= Len(blocks)
    BY <1>1 DEF TypeOK, Indices
  <2>1. CASE cursor = Len(blocks)
    <3>1. Successors(cursor) = {}
      BY <2>0, <2>1 DEF Successors
    <3>2. latest = horizon
      BY <1>2, <3>1
    <3>3. QED
      BY <1>0, <1>1, <1>4, <1>8, <2>1, <3>2 DEF TightInv
  <2>2. CASE cursor # Len(blocks)
    <3>1. relative'[Len(blocks)] = relative[Len(blocks)] /\ cursor < Len(blocks)
      BY <1>8, <2>0, <2>2
    <3>2. QED
      BY <1>0, <1>1, <3>1 DEF IInv, TightInv
  <2>3. QED
    BY <2>1, <2>2
<1>18. QED
  BY <1>1, <1>9, <1>12, <1>13, <1>16, <1>17 DEF IInv, ReturnInv,
     ReservationsExclusive, WithinRegion, AsapEarliest, AlapLatest, MakespanMinimal, Returned
\* What the finished loops know, whichever mode placed the blocks.
LEMMA FinishedLoops ==
    ASSUME IInv, pc = "place", cursor = 0
    PROVE  /\ Automatic /\ Tolerance = 0
           /\ \A i \in Indices :
                 /\ relative[i] >= asap[i] /\ relative[i] + blocks[i].duration <= horizon
                 /\ \A l \in Successors(i) : relative[i] + blocks[i].duration <= relative[l]
           /\ \E i \in Indices : relative[i] + blocks[i].duration = horizon
           /\ mode = "ASAP" => \A s \in Rivals : \A i \in Indices : relative[i] <= s[i]
           /\ mode = "ALAP" => \A s \in Rivals : FinishesBy(s, horizon) =>
                                  \A i \in Indices : s[i] <= relative[i]
<1>1. Automatic /\ Tolerance = 0 /\ TypeOK /\ AsapPlaced = Indices /\ mode \in {"ASAP", "ALAP"}
  BY DEF IInv, TypeOK, ControlInv, Tolerance, AsapPlaced
<1>2. \A i \in Indices : /\ asap[i] \in Nat /\ blocks[i].duration \in Nat
                         /\ asap[i] + blocks[i].duration <= horizon
  BY <1>1, BlockTypes DEF IInv, TypeOK, HorizonInv, Completion
<1>3. \A i \in Indices : \A l \in Successors(i) : l \in Indices /\ i \in Predecessors(l)
  BY <1>1 DEF Predecessors, Successors, Indices, TypeOK
<1>4. CASE mode = "ASAP"
  <2>1. relative = asap
    BY <1>4 DEF IInv, ControlInv
  <2>2. \A i \in Indices : \A l \in Successors(i) : asap[i] + blocks[i].duration <= asap[l]
    BY <1>1, <1>2, <1>3 DEF IInv, AsapInv, Completion
  <2>3. \A i \in Indices : relative[i] >= asap[i] /\ relative[i] + blocks[i].duration <= horizon
    BY <1>2, <2>1
  <2>4. \E i \in Indices : relative[i] + blocks[i].duration = horizon
    BY <2>1 DEF IInv, HorizonInv, Completion
  <2>5. \A s \in Rivals : \A i \in Indices : relative[i] <= s[i]
    BY <1>1, <2>1 DEF IInv, AsapInv
  <2>6. QED
    BY <1>1, <1>4, <2>1, <2>2, <2>3, <2>4, <2>5
<1>5. CASE mode = "ALAP"
  <2>1. AlapPlaced = Indices /\ Len(blocks) \in Indices /\ cursor < Len(blocks)
    BY <1>1 DEF AlapPlaced, Indices, TypeOK
  <2>2. \E i \in Indices : relative[i] + blocks[i].duration = horizon
    BY <1>5, <2>1 DEF IInv, TightInv
  <2>3. QED
    BY <1>1, <1>5, <2>1, <2>2 DEF IInv, AlapInv
<1>6. QED
  BY <1>1, <1>4, <1>5

LEMMA PublishInv == IInv /\ Publish => IInv'
<1> SUFFICES ASSUME IInv, Publish PROVE IInv'
  OBVIOUS
<1>0. /\ blocks' = blocks /\ boundary' = boundary /\ mode' = mode
      /\ Indices' = Indices /\ Rivals' = Rivals /\ Automatic' = Automatic /\ Tolerance' = Tolerance
  BY ActionsKeepInputs, InputsStay
<1>1. TypeOK /\ pc = "place" /\ pc' = "done" /\ cursor = 0 /\ boundary \in Nat /\ horizon \in Nat
  BY SchedulingAssumption DEF IInv, TypeOK, Publish
<1>2. \A i \in Indices : /\ relative[i] \in Nat /\ asap[i] \in Nat /\ blocks[i].duration \in Nat
  BY <1>1, BlockTypes DEF TypeOK
<1>3. end' = boundary + horizon /\ \A i \in Indices : starts'[i] = boundary + relative[i]
  BY DEF Publish
<1>4. TypeOK'
  <2>1. starts' \in [Indices -> Nat] /\ end' \in Nat
    BY <1>1, <1>2 DEF Publish
  <2>2. QED
    BY <1>0, <1>1, <2>1 DEF TypeOK, Publish
<1>5. \A f, l : Conflict(f, l)' <=> Conflict(f, l)
  BY <1>0 DEF Conflict
<1>6. ReservationsExclusive'
  <2> SUFFICES ASSUME NEW later \in Indices, NEW earlier \in 1..(later - 1), Conflict(earlier, later)
               PROVE  starts'[later] >= starts'[earlier] + blocks[earlier].duration - 0
    BY <1>0, <1>1, <1>5, FinishedLoops DEF ReservationsExclusive
  <2>1. earlier \in Indices /\ later \in Successors(earlier)
    BY <1>1 DEF Successors, Indices, TypeOK
  <2>2. relative[earlier] + blocks[earlier].duration <= relative[later]
    BY <1>1, <2>1, FinishedLoops
  <2>3. QED
    BY <1>1, <1>2, <1>3, <2>1, <2>2
<1>7. WithinRegion'
  <2> SUFFICES ASSUME NEW i \in Indices
               PROVE  starts'[i] >= boundary - 0 /\ starts'[i] + blocks[i].duration <= end'
    BY <1>0, <1>1, FinishedLoops DEF WithinRegion
  <2>1. relative[i] + blocks[i].duration <= horizon
    BY <1>1, FinishedLoops
  <2>2. QED
    BY <1>1, <1>2, <1>3, <2>1
<1>8. end' - boundary' = horizon /\ \A i \in Indices : starts'[i] - boundary' = relative[i]
  BY <1>0, <1>1, <1>2, <1>3
<1>9. \A s : FinishesBy(s, end - boundary)' <=> FinishesBy(s, horizon)
  BY <1>0, <1>8 DEF FinishesBy
<1>10. AsapEarliest'
  BY <1>0, <1>1, <1>8, FinishedLoops DEF AsapEarliest
<1>11. AlapLatest'
  BY <1>0, <1>1, <1>8, <1>9, FinishedLoops DEF AlapLatest
<1>12. MakespanMinimal'
  <2> SUFFICES ASSUME NEW s \in Rivals
               PROVE  \E i \in Indices : s[i] + blocks[i].duration >= horizon
    BY <1>0, <1>8 DEF MakespanMinimal
  <2>1. PICK i \in Indices : asap[i] + blocks[i].duration = horizon
    BY <1>1 DEF IInv, HorizonInv, Completion
  <2>2. asap[i] <= s[i] /\ s[i] \in Nat
    BY <1>1, <2>1, SchedulingAssumption DEF IInv, AsapInv, AsapPlaced, Rivals
  <2>3. QED
    BY <1>2, <2>1, <2>2
<1>13. QED
  BY <1>1, <1>4, <1>6, <1>7, <1>10, <1>11, <1>12
  DEF IInv, ControlInv, AsapInv, HorizonInv, AlapInv, TightInv, ReturnInv

LEMMA AcceptExplicitInv == IInv /\ AcceptExplicit => IInv'
<1> SUFFICES ASSUME IInv, AcceptExplicit PROVE IInv'
  OBVIOUS
<1>0. /\ blocks' = blocks /\ boundary' = boundary /\ mode' = mode
      /\ Indices' = Indices /\ Rivals' = Rivals /\ Automatic' = Automatic /\ Tolerance' = Tolerance
  BY ActionsKeepInputs, InputsStay
<1>1. TypeOK /\ pc' = "done" /\ 1 \in Indices /\ ~Automatic /\ Tolerance = Epsilon
  BY DEF IInv, TypeOK, AcceptExplicit, Automatic, Tolerance, Indices
<1>2. \A i \in Indices : blocks[i].start \in Nat /\ blocks[i].duration \in Nat
                         /\ starts'[i] = blocks[i].start
  BY <1>1, BlockTypes DEF AcceptExplicit, Explicit
<1>3. /\ end' \in {blocks[i].start + blocks[i].duration : i \in Indices}
      /\ \A i \in Indices : blocks[i].start + blocks[i].duration <= end'
  BY DEF AcceptExplicit, IsGreatest
<1>4. TypeOK'
  <2>1. starts' \in [Indices -> Nat] /\ end' \in Nat
    BY <1>2, <1>3 DEF AcceptExplicit
  <2>2. QED
    BY <1>0, <1>1, <2>1 DEF TypeOK, AcceptExplicit
<1>5. ReservationsExclusive'
  <2>1. \A f, l : Conflict(f, l)' <=> Conflict(f, l)
    BY <1>0 DEF Conflict
  <2>2. \A later \in Indices : \A earlier \in 1..(later - 1) : earlier \in Indices
    BY <1>1 DEF Indices, TypeOK
  <2>3. QED
    BY <1>0, <1>1, <1>2, <2>1, <2>2 DEF ReservationsExclusive, AcceptExplicit, ExplicitOrderHolds
<1>6. WithinRegion'
  BY <1>0, <1>1, <1>2, <1>3 DEF WithinRegion, AcceptExplicit, ExplicitOrderHolds
<1>7. QED
  BY <1>0, <1>1, <1>4, <1>5, <1>6
  DEF IInv, ControlInv, AsapInv, HorizonInv, AlapInv, TightInv, ReturnInv,
      AsapEarliest, AlapLatest, MakespanMinimal

LEMMA InvHolds == Spec => []IInv
<1>1. IInv /\ [Next]_vars => IInv'
  <2> SUFFICES ASSUME IInv, [Next]_vars PROVE IInv'
    OBVIOUS
  <2>1. CASE UNCHANGED vars
    <3>1. Indices' = Indices /\ Rivals' = Rivals /\ Automatic' = Automatic /\ Tolerance' = Tolerance
      BY InputsStay
    <3>2. TypeOK' /\ ControlInv'
      BY <2>1, <3>1 DEF IInv, TypeOK, ControlInv, vars
    <3>3. /\ AsapPlaced' = AsapPlaced /\ AlapPlaced' = AlapPlaced
          /\ \A j : Completion(j)' = Completion(j)
          /\ \A j : Predecessors(j)' = Predecessors(j) /\ Successors(j)' = Successors(j)
          /\ \A f, l : Conflict(f, l)' <=> Conflict(f, l)
          /\ \A s : /\ FinishesBy(s, horizon)' <=> FinishesBy(s, horizon)
                    /\ FinishesBy(s, end - boundary)' <=> FinishesBy(s, end - boundary)
      BY <2>1, <3>1 DEF AsapPlaced, AlapPlaced, Completion, Predecessors, Successors, Conflict,
                  FinishesBy, vars
    <3>4. AsapInv' /\ HorizonInv' /\ AlapInv' /\ TightInv'
      BY <2>1, <3>1, <3>3 DEF IInv, AsapInv, HorizonInv, AlapInv, TightInv, vars
    <3>5. ReturnInv'
      BY <2>1, <3>1, <3>3 DEF IInv, ReturnInv, ReservationsExclusive, WithinRegion, AsapEarliest,
                  AlapLatest, MakespanMinimal, Returned, vars
    <3>6. QED
      BY <3>2, <3>4, <3>5 DEF IInv
  <2>2. QED
    BY <2>1, RejectInv, AcceptExplicitInv, BeginAutomaticInv, PlaceAsapInv, CloseHorizonInv,
       PlaceAlapInv, PublishInv DEF Next
<1>2. QED
  BY InitInv, <1>1, PTL DEF Spec

(* Every variable of the scheduler keeps its type; in particular no ALAP   *)
(* start, a difference of times, ever becomes negative.                    *)
THEOREM TypeCorrect == Spec => []TypeOK
<1>1. IInv => TypeOK
  BY DEF IInv
<1>2. QED
  BY InvHolds, <1>1, PTL

(* Blocks that share a resource claim never overlap and keep source order, *)
(* for regions of any length, any claims and any durations.                *)
THEOREM ExclusiveReservations == Spec => []ReservationsExclusive
<1>1. IInv => ReservationsExclusive
  BY DEF IInv, ReturnInv
<1>2. QED
  BY InvHolds, <1>1, PTL

(* Every placed block lies between the boundary and the end of its region. *)
THEOREM RegionContainment == Spec => []WithinRegion
<1>1. IInv => WithinRegion
  BY DEF IInv, ReturnInv
<1>2. QED
  BY InvHolds, <1>1, PTL

(* ASAP starts are the least, ALAP starts the greatest, and the makespan   *)
(* the shortest among all legal schedules.                                 *)
THEOREM PlacementOptimal == Spec => []PlacedBest
<1>1. IInv => PlacedBest
  BY DEF IInv, ReturnInv, PlacedBest
<1>2. QED
  BY InvHolds, <1>1, PTL
\* The contract's view of a region that has been placed.
LEMMA PlacedMeetsContract ==
    ASSUME IInv, IInv', pc \in {"validate", "place"}, pc' = "done", starts' \in [Indices -> Nat],
           [Next]_vars
    PROVE  Placement!Exclusive(starts')
<1>1. /\ blocks' = blocks /\ Indices' = Indices /\ Tolerance' = Tolerance
  BY InputsStay
<1>2. Tolerance = Placement!Tolerance
  BY DEF Tolerance, Automatic, Explicit, Placement!Tolerance, Placement!Unscheduled, Indices,
         Placement!Indices
<1>3. ReservationsExclusive'
  BY DEF IInv, ReturnInv
<1>4. QED
  BY <1>1, <1>2, <1>3 DEF ReservationsExclusive, Returned, Conflict, Placement!Exclusive, Indices,
         Placement!Indices

(* Every behaviour of the scheduler is a behaviour of the contract: a step *)
(* that publishes starts is the contract's Place, a rejection its Refuse,  *)
(* and the iterations of the loops change nothing the engine can see.      *)
THEOREM ImplementsContract == Spec => PlacementContract
<1>1. Init => Placement!Init
  BY DEF Init, Placement!Init, Zeros, Indices, Placement!Indices
<1>2. IInv /\ IInv' /\ [Next]_vars => [Placement!Next]_(Placement!vars)
  <2> SUFFICES ASSUME IInv, IInv', [Next]_vars PROVE [Placement!Next]_(Placement!vars)
    OBVIOUS
  <2>0. blocks' = blocks /\ boundary' = boundary /\ Indices' = Indices /\ Tolerance' = Tolerance
    BY InputsStay
  <2>1. CASE BeginAutomatic \/ PlaceAsap \/ CloseHorizon \/ PlaceAlap \/ UNCHANGED vars
    BY <2>1 DEF BeginAutomatic, PlaceAsap, CloseHorizon, PlaceAlap, vars, Placement!vars
  <2>2. CASE Reject
    BY <2>2 DEF Reject, Explicit, Indices, Placement!Next, Placement!Refuse, Placement!Unscheduled,
           Placement!Indices
  <2>3. /\ Placement!Indices = Indices
        /\ Placement!Tolerance = Tolerance
        /\ (Placement!Unscheduled <=> Automatic)
        /\ (Placement!Prescheduled <=> \A i \in Indices : Explicit(i))
    BY DEF Tolerance, Automatic, Explicit, Indices, Placement!Indices, Placement!Tolerance,
           Placement!Unscheduled, Placement!Prescheduled
  <2>4. ASSUME AcceptExplicit \/ Publish PROVE Placement!Next
    <3>1. pc \in {"validate", "place"} /\ pc' = "done"
      BY <2>4 DEF AcceptExplicit, Publish
    <3>2. starts' \in [Indices -> Nat]
      BY <2>0 DEF IInv, TypeOK
    <3>3. Automatic \/ \A i \in Indices : Explicit(i)
      BY <2>4 DEF AcceptExplicit, Publish, IInv, ControlInv
    <3>4. (\A i \in Indices : Explicit(i)) => \A i \in Indices : starts'[i] = blocks[i].start
      <4>1. CASE AcceptExplicit
        BY <4>1 DEF AcceptExplicit
      <4>2. CASE Publish
        BY <4>2 DEF Publish, IInv, ControlInv, TypeOK, Automatic, Indices
      <4>3. QED
        BY <2>4, <4>1, <4>2
    <3>5. \A i \in Indices : starts'[i] >= boundary - Tolerance
                             /\ starts'[i] + blocks[i].duration <= end'
      BY <2>0, <3>1 DEF IInv, ReturnInv, WithinRegion, Returned
    <3>6. \E i \in Indices : starts'[i] + blocks[i].duration = end'
      <4>1. CASE AcceptExplicit
        BY <4>1 DEF AcceptExplicit
      <4>2. CASE Publish
        <5>1. PICK i \in Indices : relative[i] + blocks[i].duration = horizon
          BY <4>2, FinishedLoops DEF Publish
        <5>2. relative[i] \in Nat /\ blocks[i].duration \in Nat /\ boundary \in Nat
          BY BlockTypes, SchedulingAssumption DEF IInv, TypeOK
        <5>3. QED
          BY <4>2, <5>1, <5>2 DEF Publish
      <4>3. QED
        BY <2>4, <4>1, <4>2
    <3>7. Placement!Contained(starts', end')
      BY <2>3, <3>5, <3>6 DEF Placement!Contained
    <3>8. Placement!Exclusive(starts')
      BY <3>1, <3>2, <3>7, PlacedMeetsContract
    <3>9. QED
      BY <2>0, <2>3, <3>1, <3>2, <3>3, <3>4, <3>7, <3>8 DEF Placement!Next, Placement!Place
  <2>5. QED
    BY <2>1, <2>2, <2>4 DEF Next
<1>3. QED
  BY InvHolds, <1>1, <1>2, PTL DEF Spec, PlacementContract, Placement!Spec
=============================================================================
