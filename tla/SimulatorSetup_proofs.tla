----------------------- MODULE SimulatorSetup_proofs -----------------------
(***************************************************************************)
(* What a simulator was given stays what it was given, the map is its      *)
(* edits, no occurrence is noisy twice over, and what validation accepted  *)
(* does not fail for want of a rule: for every set of calls, any number of *)
(* edits and of simulators.                                                *)
(*                                                                         *)
(* The heart is where things lie on the heap.  The user edits the cells of *)
(* the present map and model alone, a copy takes cells that are new, and   *)
(* so no cell of a simulator, or of a map set aside, is ever among those   *)
(* that are edited.  What validation saw is then what lowering reads.      *)
(***************************************************************************)
EXTENDS SimulatorSetup, FiniteSetTheorems, SequenceTheorems, WellFoundedInduction, TLAPS

-----------------------------------------------------------------------------
(* Sequences of cells.                                                     *)

IsSequence(s) == Len(s) \in Nat /\ s = [k \in 1..Len(s) |-> s[k]]

LEMMA SequenceIsSeq ==
    ASSUME NEW s, IsSequence(s)
    PROVE  s \in Seq({s[k] : k \in 1..Len(s)}) /\ DOMAIN s = 1..Len(s)
<1>. DEFINE S == {s[k] : k \in 1..Len(s)}
<1>1. [k \in 1..Len(s) |-> s[k]] \in [1..Len(s) -> S]
    OBVIOUS
<1>2. s \in [1..Len(s) -> S] /\ Len(s) \in Nat
    BY <1>1 DEF IsSequence
<1>. QED BY <1>2, SeqDef

LEMMA SeqIsSequence ==
    ASSUME NEW S, NEW s \in Seq(S)
    PROVE  IsSequence(s)
<1>1. Len(s) \in Nat /\ s \in [1..Len(s) -> S]
    BY LenProperties
<1>. QED BY <1>1 DEF IsSequence

LEMMA WiderSeq ==
    ASSUME NEW S, NEW T, S \subseteq T, NEW s \in Seq(S)
    PROVE  s \in Seq(T)
    BY SeqDef, LenProperties

\* Two sequences one after the other.
Joins(r, s, t) ==
    /\ IsSequence(r) /\ Len(r) = Len(s) + Len(t)
    /\ \A k \in 1..Len(s) : r[k] = s[k]
    /\ \A k \in 1..Len(t) : r[Len(s) + k] = t[k]
LEMMA JoinedCells ==
    ASSUME NEW s, NEW t, IsSequence(s), IsSequence(t)
    PROVE  Joins(s \o t, s, t)
<1>. DEFINE S == {s[k] : k \in 1..Len(s)} \cup {t[k] : k \in 1..Len(t)}
<1>1. s \in Seq(S) /\ t \in Seq(S)
  <2>1. s \in Seq({s[k] : k \in 1..Len(s)}) /\ t \in Seq({t[k] : k \in 1..Len(t)})
      BY SequenceIsSeq
  <2>2. {s[k] : k \in 1..Len(s)} \subseteq S /\ {t[k] : k \in 1..Len(t)} \subseteq S
      OBVIOUS
  <2>. QED BY <2>1, <2>2, WiderSeq
<1>2. Len(s) \in Nat /\ Len(t) \in Nat
    BY DEF IsSequence
<1>. HIDE DEF S
<1>3. s \o t \in Seq(S)
    BY <1>1, ConcatProperties
<1>4. Len(s \o t) = Len(s) + Len(t)
    BY <1>1, ConcatProperties
<1>5. \A k \in 1..(Len(s) + Len(t)) : (s \o t)[k] = IF k <= Len(s) THEN s[k] ELSE t[k - Len(s)]
    BY <1>1, ConcatProperties
<1>6. IsSequence(s \o t)
    BY <1>3, SeqIsSequence
<1>7. \A k \in 1..Len(s) : (s \o t)[k] = s[k]
    BY <1>2, <1>5
<1>8. \A k \in 1..Len(t) : (s \o t)[Len(s) + k] = t[k]
    BY <1>2, <1>5
<1>. QED BY <1>4, <1>6, <1>7, <1>8 DEF Joins

LEMMA AppendedCell ==
    ASSUME NEW s, NEW e, IsSequence(s)
    PROVE  /\ IsSequence(Append(s, e)) /\ Len(Append(s, e)) = Len(s) + 1
           /\ \A k \in 1..Len(s) : Append(s, e)[k] = s[k]
           /\ Append(s, e)[Len(s) + 1] = e
<1>. DEFINE S == {s[k] : k \in 1..Len(s)} \cup {e}
<1>1. s \in Seq(S) /\ e \in S
  <2>1. s \in Seq({s[k] : k \in 1..Len(s)})
      BY SequenceIsSeq
  <2>2. {s[k] : k \in 1..Len(s)} \subseteq S /\ e \in S
      OBVIOUS
  <2>. QED BY <2>1, <2>2, WiderSeq
<1>. HIDE DEF S
<1>2. /\ Append(s, e) \in Seq(S) /\ Len(Append(s, e)) = Len(s) + 1
      /\ \A k \in 1..Len(s) : Append(s, e)[k] = s[k]
      /\ Append(s, e)[Len(s) + 1] = e
    BY <1>1, AppendProperties
<1>3. IsSequence(Append(s, e))
    BY <1>2, SeqIsSequence
<1>. QED BY <1>2, <1>3

LEMMA PairOfCells ==
    ASSUME NEW a, NEW b
    PROVE  /\ IsSequence(<<a, b>>) /\ Len(<<a, b>>) = 2
           /\ <<a, b>>[1] = a /\ <<a, b>>[2] = b
    BY DEF IsSequence

-----------------------------------------------------------------------------
(* Where maps and models lie.                                              *)

Tables(cells, map) == {cells[map.devices][c] : c \in DOMAIN cells[map.devices]}
MapCells(cells, map) == {map.uniform, map.devices} \cup Tables(cells, map)
NoiseCells(model) == {model.noises, model.readouts}
UserCells(cells, model, map) == MapCells(cells, map) \cup NoiseCells(model)

\* The tables of a map by class.
TableContents(cells, map) == [c \in DOMAIN cells[map.devices] |-> cells[cells[map.devices][c]]]

\* A map lies on cells of its own, one for each class with rules for devices.
MapFits(cells, map) ==
    /\ map.uniform \in DOMAIN cells /\ map.devices \in DOMAIN cells
    /\ map.uniform # map.devices
    /\ IsFiniteSet(DOMAIN cells[map.devices])
    /\ \A c \in DOMAIN cells[map.devices] :
          /\ cells[map.devices][c] \in DOMAIN cells
          /\ cells[map.devices][c] # map.uniform /\ cells[map.devices][c] # map.devices
    /\ \A c, d \in DOMAIN cells[map.devices] :
          cells[map.devices][c] = cells[map.devices][d] => c = d
NoiseFits(cells, model) ==
    /\ model.noises \in DOMAIN cells /\ model.readouts \in DOMAIN cells
    /\ model.noises # model.readouts
UserFits(cells, model, map) ==
    /\ MapFits(cells, map) /\ NoiseFits(cells, model)
    /\ MapCells(cells, map) \cap NoiseCells(model) = {}

\* What was set aside lies apart from what the user edits, and says what it said.
HeldFits(cells, model, map, h) ==
    /\ MapFits(cells, h.rules)
    /\ MapCells(cells, h.rules) \cap UserCells(cells, model, map) = {}
    /\ cells[h.rules.uniform] = h.contents.uniform
    /\ TableContents(cells, h.rules) = h.contents.devices
    /\ h.kind # "kept" =>
          /\ NoiseFits(cells, h.noise)
          /\ NoiseCells(h.noise) \cap UserCells(cells, model, map) = {}
          /\ Contents(cells, h.noise, h.rules) = h.contents

\* A step that edits only what the user holds.
EditsItsOwn(cells, model, map, new, model2, map2) ==
    /\ \A a \in DOMAIN cells : a \in DOMAIN new
    /\ \A a \in DOMAIN cells : a \notin UserCells(cells, model, map) => new[a] = cells[a]
    /\ \A a \in UserCells(new, model2, map2) :
          a \in DOMAIN cells => a \in UserCells(cells, model, map)

\* A map none of whose cells changed is the same map.
LEMMA MapKept ==
    ASSUME NEW cells, NEW new, NEW map, MapFits(cells, map),
           \A a \in DOMAIN cells : a \in DOMAIN new,
           \A a \in MapCells(cells, map) : new[a] = cells[a]
    PROVE  /\ MapFits(new, map)
           /\ MapCells(new, map) = MapCells(cells, map)
           /\ new[map.uniform] = cells[map.uniform] /\ new[map.devices] = cells[map.devices]
           /\ TableContents(new, map) = TableContents(cells, map)
<1>1. new[map.uniform] = cells[map.uniform] /\ new[map.devices] = cells[map.devices]
    BY DEF MapCells
<1>2. \A c \in DOMAIN cells[map.devices] : new[cells[map.devices][c]] = cells[cells[map.devices][c]]
    BY DEF MapCells, Tables
<1>3. TableContents(new, map) = TableContents(cells, map)
    BY <1>1, <1>2 DEF TableContents
<1>4. MapCells(new, map) = MapCells(cells, map)
    BY <1>1 DEF MapCells, Tables
<1>5. MapFits(new, map)
    BY <1>1 DEF MapFits
<1>. QED BY <1>1, <1>3, <1>4, <1>5

\* Nothing that is held changes when the user edits what is his.
LEMMA HeldKept ==
    ASSUME NEW cells, NEW model, NEW map, NEW new, NEW model2, NEW map2, NEW h,
           EditsItsOwn(cells, model, map, new, model2, map2), HeldFits(cells, model, map, h)
    PROVE  HeldFits(new, model2, map2, h)
<1>1. MapFits(cells, h.rules) /\ MapCells(cells, h.rules) \cap UserCells(cells, model, map) = {}
    BY DEF HeldFits
<1>2. \A a \in MapCells(cells, h.rules) : a \in DOMAIN cells
    BY <1>1 DEF MapFits, MapCells, Tables
<1>3. \A a \in MapCells(cells, h.rules) : new[a] = cells[a]
    BY <1>1, <1>2 DEF EditsItsOwn
<1>4. \A a \in DOMAIN cells : a \in DOMAIN new
    BY DEF EditsItsOwn
<1>5. /\ MapFits(new, h.rules)
      /\ MapCells(new, h.rules) = MapCells(cells, h.rules)
      /\ new[h.rules.uniform] = cells[h.rules.uniform] /\ new[h.rules.devices] = cells[h.rules.devices]
      /\ TableContents(new, h.rules) = TableContents(cells, h.rules)
    BY <1>1, <1>3, <1>4, MapKept
<1>6. MapCells(new, h.rules) \cap UserCells(new, model2, map2) = {}
    BY <1>1, <1>2, <1>5 DEF EditsItsOwn
<1>7. ASSUME h.kind # "kept"
      PROVE  /\ NoiseFits(new, h.noise)
             /\ NoiseCells(h.noise) \cap UserCells(new, model2, map2) = {}
             /\ Contents(new, h.noise, h.rules) = h.contents
  <2>1. /\ NoiseFits(cells, h.noise)
        /\ NoiseCells(h.noise) \cap UserCells(cells, model, map) = {}
        /\ Contents(cells, h.noise, h.rules) = h.contents
      BY <1>7 DEF HeldFits
  <2>2. \A a \in NoiseCells(h.noise) : a \in DOMAIN cells
      BY <2>1 DEF NoiseFits, NoiseCells
  <2>3. \A a \in NoiseCells(h.noise) : new[a] = cells[a]
      BY <2>1, <2>2 DEF EditsItsOwn
  <2>4. NoiseFits(new, h.noise)
      BY <2>1, <1>4 DEF NoiseFits
  <2>5. NoiseCells(h.noise) \cap UserCells(new, model2, map2) = {}
      BY <2>1, <2>2 DEF EditsItsOwn
  <2>6. Contents(new, h.noise, h.rules) = Contents(cells, h.noise, h.rules)
    <3>1. new[h.noise.noises] = cells[h.noise.noises] /\ new[h.noise.readouts] = cells[h.noise.readouts]
        BY <2>3 DEF NoiseCells
    <3>. QED BY <3>1, <1>5 DEF Contents, TableContents
  <2>. QED BY <2>1, <2>4, <2>5, <2>6
<1>8. new[h.rules.uniform] = h.contents.uniform /\ TableContents(new, h.rules) = h.contents.devices
    BY <1>5 DEF HeldFits
<1>. QED BY <1>5, <1>6, <1>7, <1>8 DEF HeldFits
-----------------------------------------------------------------------------
(* Copies.                                                                 *)

LEMMA FunctionIsSequence ==
    ASSUME NEW n \in Nat, NEW s, s = [k \in 1..n |-> s[k]]
    PROVE  IsSequence(s) /\ Len(s) = n
<1>. DEFINE S == {s[k] : k \in 1..n}
<1>1. [k \in 1..n |-> s[k]] \in [1..n -> S]
    OBVIOUS
<1>2. s \in [1..n -> S]
    BY <1>1
<1>3. s \in Seq(S)
    BY <1>2, SeqDef
<1>4. DOMAIN s = 1..n /\ DOMAIN s = 1..Len(s) /\ Len(s) \in Nat
    BY <1>2, <1>3, LenProperties
<1>5. Len(s) = n
    BY <1>4
<1>. QED BY <1>3, <1>5, SeqIsSequence

\* The tables can be listed, each class at one place.
LEMMA OrderOfTables ==
    ASSUME NEW devices, IsFiniteSet(DOMAIN devices)
    PROVE  /\ Cardinality(DOMAIN devices) \in Nat
           /\ TableOrder(devices) \in [1..Cardinality(DOMAIN devices) -> DOMAIN devices]
           /\ \A c \in DOMAIN devices : \E k \in DOMAIN TableOrder(devices) : TableOrder(devices)[k] = c
<1>. DEFINE S == DOMAIN devices
            n == Cardinality(S)
<1>1. n \in Nat /\ ExistsBijection(1..n, S)
    BY FS_CardinalityType
<1>2. PICK f \in [1..n -> S] : \A c \in S : \E k \in 1..n : f[k] = c
    BY <1>1 DEF ExistsBijection, Bijection, Surjection
<1>3. \E s \in [1..n -> S] : \A c \in S : \E k \in DOMAIN s : s[k] = c
    BY <1>2
<1>. QED BY <1>1, <1>3 DEF TableOrder

\* copy() takes new cells alone, and says what the map said.
LEMMA CopyIsExact ==
    ASSUME NEW cells, NEW map, IsSequence(cells), MapFits(cells, map)
    PROVE  /\ IsSequence(Copied(cells, map)) /\ Len(Copied(cells, map)) >= Len(cells) + 2
           /\ \A a \in DOMAIN cells : /\ a \in DOMAIN Copied(cells, map)
                                      /\ Copied(cells, map)[a] = cells[a]
           /\ MapFits(Copied(cells, map), CopyOf(cells))
           /\ \A a \in MapCells(Copied(cells, map), CopyOf(cells)) : a \notin DOMAIN cells
           /\ Copied(cells, map)[CopyOf(cells).uniform] = cells[map.uniform]
           /\ TableContents(Copied(cells, map), CopyOf(cells)) = TableContents(cells, map)
<1>. DEFINE D == cells[map.devices]
            order == TableOrder(D)
            n == Cardinality(DOMAIN D)
            L == Len(cells)
            place(c) == CHOOSE k \in DOMAIN order : order[k] = c
            copies == CopiedDevices(D, L + 2)
            dicts == <<cells[map.uniform], copies>>
            first == cells \o dicts
            tables == [k \in DOMAIN order |-> cells[D[order[k]]]]
            new == Copied(cells, map)
            copy == CopyOf(cells)
<1>1. L \in Nat /\ DOMAIN cells = 1..L
    BY SequenceIsSeq DEF IsSequence
<1>2. IsFiniteSet(DOMAIN D)
    BY DEF MapFits
<1>3. n \in Nat /\ order \in [1..n -> DOMAIN D] /\ \A c \in DOMAIN D : \E k \in DOMAIN order : order[k] = c
    BY <1>2, OrderOfTables
<1>. HIDE DEF n
<1>4. DOMAIN order = 1..n
    BY <1>3
<1>5. \A c \in DOMAIN D : place(c) \in 1..n /\ order[place(c)] = c
    BY <1>3, <1>4
<1>6. copies = [c \in DOMAIN D |-> L + 2 + place(c)]
    BY DEF CopiedDevices
<1>7. new = first \o tables
    BY DEF Copied
<1>8. copy.uniform = L + 1 /\ copy.devices = L + 2
    BY DEF CopyOf
<1>9. IsSequence(tables) /\ Len(tables) = n /\ \A k \in 1..n : tables[k] = cells[D[order[k]]]
  <2>1. tables = [k \in 1..n |-> tables[k]] /\ \A k \in 1..n : tables[k] = cells[D[order[k]]]
      BY <1>4
  <2>. HIDE DEF tables
  <2>. QED BY <2>1, <1>3, FunctionIsSequence
<1>. HIDE DEF order, place, tables, copies, new, copy
<1>10. /\ IsSequence(first) /\ Len(first) = L + 2
       /\ \A k \in 1..L : first[k] = cells[k]
       /\ first[L + 1] = cells[map.uniform] /\ first[L + 2] = copies
  <2>1. IsSequence(dicts) /\ Len(dicts) = 2 /\ dicts[1] = cells[map.uniform] /\ dicts[2] = copies
      BY PairOfCells
  <2>. HIDE DEF dicts
  <2>2. /\ IsSequence(first) /\ Len(first) = L + 2
        /\ \A k \in 1..L : first[k] = cells[k]
        /\ \A k \in 1..2 : first[L + k] = dicts[k]
    <3>1. Joins(cells \o dicts, cells, dicts)
        BY <2>1, JoinedCells
    <3>. QED BY <2>1, <3>1 DEF Joins
  <2>. QED BY <2>1, <2>2
<1>. HIDE DEF first
<1>11. /\ IsSequence(new) /\ Len(new) = L + 2 + n
       /\ \A k \in 1..(L + 2) : new[k] = first[k]
       /\ \A k \in 1..n : new[L + 2 + k] = tables[k]
  <2>1. Joins(first \o tables, first, tables)
      BY <1>9, <1>10, JoinedCells
  <2>. QED BY <2>1, <1>7, <1>9, <1>10 DEF Joins
<1>12. DOMAIN new = 1..(L + 2 + n)
    BY <1>11, SequenceIsSeq
<1>13. \A k \in 1..L : new[k] = cells[k]
    BY <1>1, <1>10, <1>11
<1>14. new[L + 1] = cells[map.uniform] /\ new[L + 2] = copies
    BY <1>1, <1>10, <1>11
<1>15. \A c \in DOMAIN D : /\ copies[c] = L + 2 + place(c)
                           /\ copies[c] \in (L + 3)..(L + 2 + n)
                           /\ new[copies[c]] = cells[D[c]]
  <2>. SUFFICES ASSUME NEW c \in DOMAIN D
                PROVE  /\ copies[c] = L + 2 + place(c)
                       /\ copies[c] \in (L + 3)..(L + 2 + n)
                       /\ new[copies[c]] = cells[D[c]]
      OBVIOUS
  <2>1. copies[c] = L + 2 + place(c)
      BY <1>6
  <2>2. place(c) \in 1..n /\ order[place(c)] = c
      BY <1>5
  <2>3. new[L + 2 + place(c)] = tables[place(c)] /\ tables[place(c)] = cells[D[order[place(c)]]]
      BY <2>2, <1>9, <1>11
  <2>4. L + 2 + place(c) \in (L + 3)..(L + 2 + n)
      BY <2>2, <1>1, <1>3
  <2>. QED BY <2>1, <2>2, <2>3, <2>4
<1>16. DOMAIN copies = DOMAIN D
    BY <1>6
<1>17. MapFits(new, copy)
  <2>1. copy.uniform \in DOMAIN new /\ copy.devices \in DOMAIN new /\ copy.uniform # copy.devices
      BY <1>1, <1>3, <1>8, <1>12
  <2>2. new[copy.devices] = copies
      BY <1>8, <1>14
  <2>3. IsFiniteSet(DOMAIN copies)
      BY <1>2, <1>16
  <2>4. \A c \in DOMAIN copies : /\ copies[c] \in DOMAIN new
                                 /\ copies[c] # copy.uniform /\ copies[c] # copy.devices
      BY <1>1, <1>3, <1>8, <1>12, <1>15, <1>16
  <2>5. \A c, d \in DOMAIN copies : copies[c] = copies[d] => c = d
    <3>. SUFFICES ASSUME NEW c \in DOMAIN D, NEW d \in DOMAIN D, copies[c] = copies[d]
                  PROVE  c = d
        BY <1>16
    <3>1. place(c) = place(d)
        BY <1>1, <1>5, <1>15
    <3>. QED BY <3>1, <1>5
  <2>. QED BY <2>1, <2>2, <2>3, <2>4, <2>5 DEF MapFits
<1>18. \A a \in MapCells(new, copy) : a \notin DOMAIN cells
  <2>1. new[copy.devices] = copies
      BY <1>8, <1>14
  <2>2. \A a \in MapCells(new, copy) : a = L + 1 \/ a = L + 2 \/ \E c \in DOMAIN D : a = copies[c]
      BY <2>1, <1>8, <1>16 DEF MapCells, Tables
  <2>. QED BY <2>2, <1>1, <1>3, <1>15
<1>19. TableContents(new, copy) = TableContents(cells, map)
    BY <1>8, <1>14, <1>15, <1>16 DEF TableContents
<1>20. new[copy.uniform] = cells[map.uniform]
    BY <1>8, <1>14
<1>21. Len(new) >= L + 2
    BY <1>1, <1>3, <1>11
<1>22. \A a \in DOMAIN cells : a \in DOMAIN new /\ new[a] = cells[a]
    BY <1>1, <1>3, <1>12, <1>13
<1>. QED BY <1>11, <1>17, <1>18, <1>19, <1>20, <1>21, <1>22 DEF new, copy
-----------------------------------------------------------------------------
(* The log of edits.                                                       *)

LEMMA LeastNatural ==
    ASSUME NEW S \in SUBSET Nat, S # {}
    PROVE  \E x \in S : \A y \in S : x <= y
<1>1. PICK R : IsWellFoundedOn(R, Nat) /\ \A a, b \in Nat : a < b => <<a, b>> \in R
  <2>1. \A a, b \in Nat : a < b => <<a, b>> \in OpToRel(<, Nat)
      BY DEF OpToRel
  <2>. QED BY <2>1, NatLessThanWellFounded
<1>2. S \subseteq Nat
    OBVIOUS
<1>3. IsWellFoundedOn(R, Nat)
    BY <1>1
<1>4. \E x \in S : \A y \in S : ~ (<<y, x>> \in R)
    BY <1>2, <1>3, WFMin
<1>5. PICK x \in S : \A y \in S : ~ (<<y, x>> \in R)
    BY <1>4
<1>6. \A y \in S : y \in Nat /\ ~(y < x) /\ x \in Nat
    BY <1>1, <1>5
<1>. QED BY <1>5, <1>6

LEMMA LastPlace ==
    ASSUME NEW n \in Nat, NEW S \in SUBSET (1..n), S # {}
    PROVE  \E x \in S : \A y \in S : y <= x
<1>. DEFINE T == {n - k : k \in S}
<1>1. T \in SUBSET Nat /\ T # {}
  <2>1. \A k \in S : n - k \in Nat
      OBVIOUS
  <2>. QED BY <2>1
<1>2. PICK t \in T : \A y \in T : t <= y
  <2>. HIDE DEF T
  <2>. QED BY <1>1, LeastNatural
<1>3. PICK x \in S : t = n - x
    BY <1>2
<1>4. \A y \in S : y \in 1..n /\ n - x <= n - y
    BY <1>2, <1>3
<1>. QED BY <1>3, <1>4

\* A log read as the map is: the entries since the last removal, and the rule of the last
\* one that covers the operands.
RemovalsIn(lg, class) == {k \in DOMAIN lg : lg[k].class = class /\ lg[k].form = "removed"}
SinceIn(lg, class) ==
    {k \in DOMAIN lg : lg[k].class = class /\ \A j \in RemovalsIn(lg, class) : j < k}
DefaultIn(lg, class) == class \in DefaultRules /\ RemovalsIn(lg, class) = {}
Covers(e, operands) == ~Given(e.operands) \/ operands \in e.operands
Covering(lg, class, operands) == {k \in SinceIn(lg, class) : Covers(lg[k], operands)}
LastOf(S) == CHOOSE k \in S : \A j \in S : j <= k
RuleIn(lg, class, operands) ==
    IF Covering(lg, class, operands) # {} THEN lg[LastOf(Covering(lg, class, operands))].rule
    ELSE IF DefaultIn(lg, class) THEN "builtin" ELSE "none"

\* What one more entry does to the entries since the last removal.
LEMMA SinceStep ==
    ASSUME NEW lg, NEW e, IsSequence(lg), NEW class
    PROVE  /\ e.class # class =>
                 /\ RemovalsIn(Append(lg, e), class) = RemovalsIn(lg, class)
                 /\ SinceIn(Append(lg, e), class) = SinceIn(lg, class)
           /\ e.class = class /\ e.form = "removed" =>
                 RemovalsIn(Append(lg, e), class) # {} /\ SinceIn(Append(lg, e), class) = {}
           /\ e.class = class /\ e.form # "removed" =>
                 /\ RemovalsIn(Append(lg, e), class) = RemovalsIn(lg, class)
                 /\ SinceIn(Append(lg, e), class) = SinceIn(lg, class) \cup {Len(lg) + 1}
<1>. DEFINE n == Len(lg)
            new == Append(lg, e)
<1>1. n \in Nat /\ DOMAIN lg = 1..n
    BY SequenceIsSeq DEF IsSequence
<1>2. IsSequence(new) /\ Len(new) = n + 1 /\ (\A k \in 1..n : new[k] = lg[k]) /\ new[n + 1] = e
    BY AppendedCell
<1>. HIDE DEF new
<1>3. DOMAIN new = 1..(n + 1)
    BY <1>2, SequenceIsSeq
<1>. HIDE DEF n
<1>4. \A k \in 1..(n + 1) : k = n + 1 \/ k \in 1..n
    BY <1>1
<1>5. ASSUME e.class # class
      PROVE  RemovalsIn(new, class) = RemovalsIn(lg, class) /\ SinceIn(new, class) = SinceIn(lg, class)
  <2>1. RemovalsIn(new, class) = RemovalsIn(lg, class)
      BY <1>1, <1>2, <1>3, <1>4, <1>5 DEF RemovalsIn
  <2>. QED BY <2>1, <1>1, <1>2, <1>3, <1>4, <1>5 DEF SinceIn
<1>6. ASSUME e.class = class, e.form = "removed"
      PROVE  RemovalsIn(new, class) # {} /\ SinceIn(new, class) = {}
  <2>1. n + 1 \in RemovalsIn(new, class)
      BY <1>1, <1>2, <1>3, <1>6 DEF RemovalsIn
  <2>2. \A k \in SinceIn(new, class) : k \in 1..(n + 1) /\ n + 1 < k
      BY <2>1, <1>3 DEF SinceIn
  <2>. QED BY <2>1, <2>2, <1>1
<1>7. ASSUME e.class = class, e.form # "removed"
      PROVE  /\ RemovalsIn(new, class) = RemovalsIn(lg, class)
             /\ SinceIn(new, class) = SinceIn(lg, class) \cup {n + 1}
  <2>1. RemovalsIn(new, class) = RemovalsIn(lg, class)
      BY <1>1, <1>2, <1>3, <1>4, <1>7 DEF RemovalsIn
  <2>2. \A j \in RemovalsIn(lg, class) : j \in 1..n /\ j < n + 1
      BY <1>1 DEF RemovalsIn
  <2>3. n + 1 \in SinceIn(new, class)
      BY <2>1, <2>2, <1>1, <1>2, <1>3, <1>7 DEF SinceIn
  <2>4. \A k \in 1..n : k \in SinceIn(new, class) <=> k \in SinceIn(lg, class)
      BY <2>1, <1>1, <1>2, <1>3 DEF SinceIn
  <2>. QED BY <2>1, <2>3, <2>4, <1>1, <1>3, <1>4 DEF SinceIn
<1>. QED BY <1>5, <1>6, <1>7 DEF n, new

\* A rule is that of the last entry that covers its operands.
LEMMA RuleStep ==
    ASSUME NEW lg, NEW e, IsSequence(lg), NEW class, NEW operands
    PROVE  /\ e.class # class => RuleIn(Append(lg, e), class, operands) = RuleIn(lg, class, operands)
           /\ e.class = class /\ e.form = "removed" => RuleIn(Append(lg, e), class, operands) = "none"
           /\ e.class = class /\ e.form # "removed" =>
                 RuleIn(Append(lg, e), class, operands) =
                    IF Covers(e, operands) THEN e.rule ELSE RuleIn(lg, class, operands)
<1>. DEFINE n == Len(lg)
            new == Append(lg, e)
            old == Covering(lg, class, operands)
            now == Covering(new, class, operands)
<1>1. n \in Nat /\ DOMAIN lg = 1..n
    BY SequenceIsSeq DEF IsSequence
<1>2. (\A k \in 1..n : new[k] = lg[k]) /\ new[n + 1] = e
    BY AppendedCell
<1>3. old \in SUBSET (1..n)
    BY <1>1 DEF Covering, SinceIn
<1>4. /\ e.class # class =>
           RemovalsIn(new, class) = RemovalsIn(lg, class) /\ SinceIn(new, class) = SinceIn(lg, class)
      /\ e.class = class /\ e.form = "removed" =>
           RemovalsIn(new, class) # {} /\ SinceIn(new, class) = {}
      /\ e.class = class /\ e.form # "removed" =>
           /\ RemovalsIn(new, class) = RemovalsIn(lg, class)
           /\ SinceIn(new, class) = SinceIn(lg, class) \cup {n + 1}
  <2>. HIDE DEF old, now
  <2>. QED BY SinceStep, ZenonT(30)
<1>5. SinceIn(lg, class) \subseteq 1..n
    BY <1>1 DEF SinceIn
<1>6. now = {k \in SinceIn(new, class) : Covers(new[k], operands)}
    BY DEF Covering
<1>. HIDE DEF n, new
<1>7. ASSUME now = old, RemovalsIn(new, class) = RemovalsIn(lg, class)
      PROVE  RuleIn(new, class, operands) = RuleIn(lg, class, operands)
  <2>1. CASE old = {}
      BY <2>1, <1>7 DEF RuleIn, DefaultIn
  <2>2. CASE old # {}
    <3>1. LastOf(old) \in old
      <4>1. \E x \in old : \A y \in old : y <= x
          BY <2>2, <1>1, <1>3, LastPlace
      <4>. QED BY <4>1 DEF LastOf
    <3>2. new[LastOf(old)] = lg[LastOf(old)]
        BY <3>1, <1>2, <1>3
    <3>3. RuleIn(lg, class, operands) = lg[LastOf(old)].rule
        BY <2>2 DEF RuleIn
    <3>4. RuleIn(new, class, operands) = new[LastOf(now)].rule
        BY <2>2, <1>7 DEF RuleIn
    <3>. QED BY <3>2, <3>3, <3>4, <1>7
  <2>. QED BY <2>1, <2>2
<1>8. CASE e.class # class
  <2>1. now = old
      BY <1>8, <1>2, <1>4, <1>5, <1>6 DEF Covering
  <2>. QED BY <2>1, <1>4, <1>7, <1>8 DEF new
<1>9. CASE e.class = class /\ e.form = "removed"
  <2>1. now = {} /\ ~DefaultIn(new, class)
      BY <1>4, <1>6, <1>9 DEF DefaultIn
  <2>. QED BY <2>1, <1>9 DEF RuleIn, new
<1>10. CASE e.class = class /\ e.form # "removed"
  <2>1. now = IF Covers(e, operands) THEN old \cup {n + 1} ELSE old
      BY <1>2, <1>4, <1>5, <1>6, <1>10 DEF Covering
  <2>2. CASE Covers(e, operands)
    <3>1. now = old \cup {n + 1}
        BY <2>1, <2>2
    <3>. HIDE DEF now, old
    <3>2. \A k \in now : k \in Nat /\ k <= n + 1
        BY <3>1, <1>1, <1>3
    <3>3. LastOf(now) = n + 1
      <4>1. n + 1 \in now /\ \A j \in now : j <= n + 1
          BY <3>1, <3>2
      <4>2. \A k \in now : (\A j \in now : j <= k) => k = n + 1
          BY <4>1, <3>2, <1>1
      <4>. QED BY <4>1, <4>2 DEF LastOf
    <3>4. RuleIn(new, class, operands) = new[LastOf(now)].rule
        BY <3>1 DEF RuleIn, now
    <3>. QED BY <3>3, <3>4, <2>2, <1>2, <1>10 DEF new
  <2>3. CASE ~Covers(e, operands)
      BY <2>1, <2>3, <1>4, <1>7, <1>10 DEF new
  <2>. QED BY <2>2, <2>3
<1>. QED BY <1>8, <1>9, <1>10

-----------------------------------------------------------------------------
(* A map beside its log.                                                   *)

\* implementation_for on the contents of the two dicts.
RuleOf(uniform, tables, class, operands) ==
    IF class \in DOMAIN tables
    THEN IF operands \in DOMAIN tables[class] THEN tables[class][operands] ELSE "none"
    ELSE IF class \in DOMAIN uniform THEN uniform[class] ELSE "none"
LEMMA ReadThroughContents ==
    ASSUME NEW cells, NEW map, NEW class, NEW operands
    PROVE  /\ ImplementationFor(cells, map, class, operands)
                = RuleOf(cells[map.uniform], TableContents(cells, map), class, operands)
           /\ Supports(cells, map, class)
                <=> class \in DOMAIN cells[map.uniform] \/ class \in DOMAIN TableContents(cells, map)
    BY DEF ImplementationFor, RuleOf, TableContents, Supports

\* The map is its log, for every class and all operands there are; a family with rules for
\* devices is one whose entries give operands; and no rule is one of the two words that
\* lowering writes itself.
IsItsLog(lg, uniform, tables) ==
    /\ \A class, operands : RuleOf(uniform, tables, class, operands) = RuleIn(lg, class, operands)
    /\ \A class : class \in DOMAIN uniform \/ class \in DOMAIN tables
                     <=> SinceIn(lg, class) # {} \/ DefaultIn(lg, class)
    /\ \A class : \A k \in SinceIn(lg, class) : Given(lg[k].operands) <=> class \in DOMAIN tables
Reserved == {"none", "generator"}
RulesFit(uniform, tables) ==
    /\ \A class \in DOMAIN uniform : uniform[class] \notin Reserved
    /\ \A class \in DOMAIN tables : \A operands \in DOMAIN tables[class] :
          tables[class][operands] \notin Reserved
-----------------------------------------------------------------------------
(* The edits of the user's cells.                                          *)

EditOf(cells, a, v, new) == new = [cells EXCEPT ![a] = v]
LongerBy(cells, v, new) == new = Append(cells, v)

LEMMA CellSet ==
    ASSUME NEW cells, NEW a, NEW v, NEW new, IsSequence(cells), a \in DOMAIN cells,
           EditOf(cells, a, v, new)
    PROVE  /\ IsSequence(new) /\ DOMAIN new = DOMAIN cells /\ Len(new) = Len(cells)
           /\ new[a] = v
           /\ \A b \in DOMAIN cells : b # a => new[b] = cells[b]
<1>1. Len(cells) \in Nat /\ DOMAIN cells = 1..Len(cells)
    BY SequenceIsSeq DEF IsSequence
<1>2. new = [k \in DOMAIN cells |-> IF k = a THEN v ELSE cells[k]]
    BY DEF EditOf
<1>3. DOMAIN new = DOMAIN cells /\ new[a] = v /\ \A b \in DOMAIN cells : b # a => new[b] = cells[b]
    BY <1>2
<1>4. new = [k \in 1..Len(cells) |-> new[k]]
    BY <1>1, <1>2
<1>5. IsSequence(new) /\ Len(new) = Len(cells)
    BY <1>1, <1>4, FunctionIsSequence
<1>. QED BY <1>3, <1>5

\* An edit of the user's cells that leaves the model and the map where they are.
Edited(cells, model, map, new) ==
    IsSequence(new) /\ UserFits(new, model, map) /\ EditsItsOwn(cells, model, map, new, model, map)
SameNoise(cells, model, new) ==
    new[model.noises] = cells[model.noises] /\ new[model.readouts] = cells[model.readouts]
SameMap(cells, map, new) ==
    new[map.uniform] = cells[map.uniform] /\ TableContents(new, map) = TableContents(cells, map)

OthersSame(cells, set, a, new) == \A b \in set : b # a => new[b] = cells[b]
\* The tables with one more, or another, table for a class.
TablesWith(before, class, table, after) ==
    /\ DOMAIN after = DOMAIN before \cup {class} /\ after[class] = table
    /\ \A c \in DOMAIN before : c # class => after[c] = before[c]

\* add() of the model.
LEMMA NoiseEdit ==
    ASSUME NEW cells, NEW model, NEW map, NEW a, NEW v, NEW new,
           IsSequence(cells), UserFits(cells, model, map), a \in NoiseCells(model),
           EditOf(cells, a, v, new)
    PROVE  /\ Edited(cells, model, map, new) /\ SameMap(cells, map, new)
           /\ new[a] = v /\ OthersSame(cells, NoiseCells(model), a, new)
<1>1. /\ MapFits(cells, map) /\ NoiseFits(cells, model)
      /\ MapCells(cells, map) \cap NoiseCells(model) = {}
    BY DEF UserFits
<1>2. \A b \in NoiseCells(model) : b \in DOMAIN cells
    BY <1>1 DEF NoiseFits, NoiseCells
<1>3. \A b \in MapCells(cells, map) : b \in DOMAIN cells /\ b # a
    BY <1>1 DEF MapFits, MapCells, Tables
<1>4. /\ IsSequence(new) /\ DOMAIN new = DOMAIN cells /\ new[a] = v
      /\ \A b \in DOMAIN cells : b # a => new[b] = cells[b]
    BY <1>2, CellSet
<1>5. /\ MapFits(new, map) /\ MapCells(new, map) = MapCells(cells, map)
      /\ new[map.uniform] = cells[map.uniform]
      /\ TableContents(new, map) = TableContents(cells, map)
  <2>1. \A b \in DOMAIN cells : b \in DOMAIN new
      BY <1>4
  <2>2. \A b \in MapCells(cells, map) : new[b] = cells[b]
      BY <1>3, <1>4
  <2>. QED BY <2>1, <2>2, <1>1, MapKept
<1>6. UserFits(new, model, map)
    BY <1>1, <1>4, <1>5 DEF UserFits, NoiseFits
<1>7. EditsItsOwn(cells, model, map, new, model, map)
    BY <1>4, <1>5 DEF EditsItsOwn, UserCells
<1>. QED BY <1>2, <1>4, <1>5, <1>6, <1>7 DEF Edited, SameMap, OthersSame

\* add() of the map without device operands.
LEMMA UniformEdit ==
    ASSUME NEW cells, NEW model, NEW map, NEW v, NEW new,
           IsSequence(cells), UserFits(cells, model, map), EditOf(cells, map.uniform, v, new)
    PROVE  /\ Edited(cells, model, map, new) /\ SameNoise(cells, model, new)
           /\ new[map.uniform] = v /\ TableContents(new, map) = TableContents(cells, map)
<1>1. /\ MapFits(cells, map) /\ NoiseFits(cells, model)
      /\ MapCells(cells, map) \cap NoiseCells(model) = {}
    BY DEF UserFits
<1>2. map.uniform \in DOMAIN cells
    BY <1>1 DEF MapFits
<1>3. /\ IsSequence(new) /\ DOMAIN new = DOMAIN cells /\ new[map.uniform] = v
      /\ \A b \in DOMAIN cells : b # map.uniform => new[b] = cells[b]
    BY <1>2, CellSet
<1>4. new[map.devices] = cells[map.devices]
    BY <1>1, <1>3 DEF MapFits
<1>5. SameNoise(cells, model, new) /\ NoiseFits(new, model)
  <2>1. model.noises # map.uniform /\ model.readouts # map.uniform
      BY <1>1 DEF MapCells, NoiseCells
  <2>. QED BY <2>1, <1>1, <1>3 DEF NoiseFits, SameNoise
<1>6. \A c \in DOMAIN cells[map.devices] :
         new[cells[map.devices][c]] = cells[cells[map.devices][c]]
    BY <1>1, <1>3 DEF MapFits
<1>7. TableContents(new, map) = TableContents(cells, map) /\ MapCells(new, map) = MapCells(cells, map)
    BY <1>4, <1>6 DEF TableContents, MapCells, Tables
<1>8. MapFits(new, map)
    BY <1>1, <1>3, <1>4 DEF MapFits
<1>9. UserFits(new, model, map)
    BY <1>1, <1>5, <1>7, <1>8 DEF UserFits
<1>10. EditsItsOwn(cells, model, map, new, model, map)
    BY <1>3, <1>7 DEF EditsItsOwn, UserCells, MapCells
<1>. QED BY <1>3, <1>5, <1>7, <1>9, <1>10 DEF Edited

\* add() of the map with device operands, of a class that has a table.
LEMMA TableEdit ==
    ASSUME NEW cells, NEW model, NEW map, NEW class, NEW v, NEW new,
           IsSequence(cells), UserFits(cells, model, map), class \in DOMAIN cells[map.devices],
           EditOf(cells, cells[map.devices][class], v, new)
    PROVE  /\ Edited(cells, model, map, new) /\ SameNoise(cells, model, new)
           /\ new[map.uniform] = cells[map.uniform]
           /\ TablesWith(TableContents(cells, map), class, v, TableContents(new, map))
<1>. DEFINE D == cells[map.devices]
            a == D[class]
<1>1. /\ MapFits(cells, map) /\ NoiseFits(cells, model)
      /\ MapCells(cells, map) \cap NoiseCells(model) = {}
    BY DEF UserFits
<1>2. a \in DOMAIN cells /\ a # map.uniform /\ a # map.devices
    BY <1>1 DEF MapFits
<1>. HIDE DEF a
<1>3. /\ IsSequence(new) /\ DOMAIN new = DOMAIN cells /\ new[a] = v
      /\ \A b \in DOMAIN cells : b # a => new[b] = cells[b]
    BY <1>2, CellSet DEF a
<1>4. new[map.devices] = D /\ new[map.uniform] = cells[map.uniform]
    BY <1>1, <1>2, <1>3 DEF MapFits
<1>5. SameNoise(cells, model, new) /\ NoiseFits(new, model)
  <2>1. model.noises # a /\ model.readouts # a
      BY <1>1 DEF MapCells, NoiseCells, Tables, a
  <2>. QED BY <2>1, <1>1, <1>3 DEF NoiseFits, SameNoise
<1>6. \A c \in DOMAIN D : c # class => new[D[c]] = cells[D[c]]
    BY <1>1, <1>3 DEF MapFits, a
<1>7. TablesWith(TableContents(cells, map), class, v, TableContents(new, map))
    BY <1>3, <1>4, <1>6 DEF TablesWith, TableContents, a
<1>8. MapCells(new, map) = MapCells(cells, map)
    BY <1>4 DEF MapCells, Tables
<1>9. MapFits(new, map)
    BY <1>1, <1>3, <1>4 DEF MapFits
<1>10. UserFits(new, model, map)
    BY <1>1, <1>5, <1>8, <1>9 DEF UserFits
<1>11. EditsItsOwn(cells, model, map, new, model, map)
  <2>1. a \in UserCells(cells, model, map)
      BY DEF UserCells, MapCells, Tables, a
  <2>. QED BY <2>1, <1>3, <1>8 DEF EditsItsOwn, UserCells
<1>. QED BY <1>3, <1>4, <1>5, <1>7, <1>10, <1>11 DEF Edited
\* add() of the map with device operands, of a class that has no table: a new cell.
LEMMA TableAdded ==
    ASSUME NEW cells, NEW model, NEW map, NEW class, NEW table, NEW mid, NEW new,
           IsSequence(cells), UserFits(cells, model, map), class \notin DOMAIN cells[map.devices],
           EditOf(cells, map.devices, Put2(cells[map.devices], class, Len(cells) + 1), mid),
           LongerBy(mid, table, new)
    PROVE  /\ Edited(cells, model, map, new) /\ SameNoise(cells, model, new)
           /\ new[map.uniform] = cells[map.uniform]
           /\ TablesWith(TableContents(cells, map), class, table, TableContents(new, map))
<1>. DEFINE D == cells[map.devices]
            L == Len(cells)
            E == Put2(D, class, L + 1)
<1>1. /\ MapFits(cells, map) /\ NoiseFits(cells, model)
      /\ MapCells(cells, map) \cap NoiseCells(model) = {}
    BY DEF UserFits
<1>2. map.devices \in DOMAIN cells
    BY <1>1 DEF MapFits
<1>3. L \in Nat /\ DOMAIN cells = 1..L
    BY SequenceIsSeq DEF IsSequence
<1>. HIDE DEF E
<1>4. /\ IsSequence(mid) /\ DOMAIN mid = DOMAIN cells /\ Len(mid) = L /\ mid[map.devices] = E
      /\ \A b \in DOMAIN cells : b # map.devices => mid[b] = cells[b]
    BY <1>2, CellSet DEF E
<1>. HIDE DEF L
<1>5. /\ IsSequence(new) /\ Len(new) = L + 1 /\ new[L + 1] = table
      /\ \A b \in 1..L : new[b] = mid[b]
    BY <1>4, AppendedCell DEF LongerBy
<1>6. DOMAIN new = 1..(L + 1)
    BY <1>5, SequenceIsSeq
<1>7. \A b \in DOMAIN cells : b \in DOMAIN new /\ (b # map.devices => new[b] = cells[b])
    BY <1>3, <1>4, <1>5, <1>6
<1>8. new[map.devices] = E /\ new[map.uniform] = cells[map.uniform]
    BY <1>1, <1>2, <1>3, <1>4, <1>5 DEF MapFits
<1>9. /\ DOMAIN E = DOMAIN D \cup {class} /\ E[class] = L + 1
      /\ \A c \in DOMAIN D : E[c] = D[c] /\ c # class
    BY DEF E, Put2, L
<1>10. SameNoise(cells, model, new) /\ NoiseFits(new, model)
  <2>1. model.noises # map.devices /\ model.readouts # map.devices
      BY <1>1 DEF MapCells, NoiseCells
  <2>. QED BY <2>1, <1>1, <1>7 DEF NoiseFits, SameNoise
<1>11. \A c \in DOMAIN D : D[c] \in 1..L /\ D[c] # L + 1 /\ new[D[c]] = cells[D[c]]
    BY <1>1, <1>3, <1>7 DEF MapFits
<1>12. TablesWith(TableContents(cells, map), class, table, TableContents(new, map))
    BY <1>5, <1>8, <1>9, <1>11 DEF TablesWith, TableContents
<1>13. \A a \in MapCells(new, map) : a = L + 1 \/ a \in MapCells(cells, map)
    BY <1>8, <1>9 DEF MapCells, Tables
<1>14. L + 1 \notin DOMAIN cells /\ L + 1 \in DOMAIN new
    BY <1>3, <1>6
<1>15. MapFits(new, map)
  <2>1. IsFiniteSet(DOMAIN E)
      BY <1>1, <1>9, FS_AddElement DEF MapFits
  <2>2. map.uniform \in DOMAIN new /\ map.devices \in DOMAIN new /\ map.uniform # map.devices
      BY <1>1, <1>7 DEF MapFits
  <2>3. \A c \in DOMAIN E : E[c] \in DOMAIN new /\ E[c] # map.uniform /\ E[c] # map.devices
      BY <1>1, <1>7, <1>9, <1>14 DEF MapFits
  <2>4. \A c, d \in DOMAIN E : E[c] = E[d] => c = d
      BY <1>1, <1>9, <1>11 DEF MapFits
  <2>. QED BY <2>1, <2>2, <2>3, <2>4, <1>8 DEF MapFits
<1>16. UserFits(new, model, map)
  <2>1. \A a \in NoiseCells(model) : a \in DOMAIN cells
      BY <1>1 DEF NoiseFits, NoiseCells
  <2>. QED BY <2>1, <1>1, <1>10, <1>13, <1>14, <1>15 DEF UserFits
<1>17. EditsItsOwn(cells, model, map, new, model, map)
  <2>1. map.devices \in UserCells(cells, model, map)
      BY DEF UserCells, MapCells
  <2>. QED BY <2>1, <1>7, <1>13, <1>14 DEF EditsItsOwn, UserCells
<1>. QED BY <1>5, <1>8, <1>10, <1>12, <1>16, <1>17 DEF Edited

\* remove(): out of both dicts.
LEMMA ClassRemoved ==
    ASSUME NEW cells, NEW model, NEW map, NEW class, NEW mid, NEW new,
           IsSequence(cells), UserFits(cells, model, map),
           EditOf(cells, map.uniform, Without(cells[map.uniform], class), mid),
           EditOf(mid, map.devices, Without(cells[map.devices], class), new)
    PROVE  /\ Edited(cells, model, map, new) /\ SameNoise(cells, model, new)
           /\ new[map.uniform] = Without(cells[map.uniform], class)
           /\ TableContents(new, map) = Without(TableContents(cells, map), class)
<1>. DEFINE D == cells[map.devices]
            E == Without(D, class)
            U == Without(cells[map.uniform], class)
<1>1. /\ MapFits(cells, map) /\ NoiseFits(cells, model)
      /\ MapCells(cells, map) \cap NoiseCells(model) = {}
    BY DEF UserFits
<1>2. map.uniform \in DOMAIN cells /\ map.devices \in DOMAIN cells /\ map.uniform # map.devices
    BY <1>1 DEF MapFits
<1>. HIDE DEF E, U
<1>3. /\ IsSequence(mid) /\ DOMAIN mid = DOMAIN cells /\ mid[map.uniform] = U
      /\ \A b \in DOMAIN cells : b # map.uniform => mid[b] = cells[b]
    BY <1>2, CellSet DEF U
<1>4. map.devices \in DOMAIN mid
    BY <1>2, <1>3
<1>5. /\ IsSequence(new) /\ DOMAIN new = DOMAIN mid /\ new[map.devices] = E
      /\ \A b \in DOMAIN mid : b # map.devices => new[b] = mid[b]
    BY <1>3, <1>4, CellSet DEF E
<1>6. new[map.uniform] = U /\ DOMAIN new = DOMAIN cells
    BY <1>2, <1>3, <1>5
<1>7. \A b \in DOMAIN cells : b # map.uniform /\ b # map.devices => new[b] = cells[b]
    BY <1>3, <1>5
<1>8. DOMAIN E = DOMAIN D \ {class} /\ \A c \in DOMAIN E : E[c] = D[c]
    BY DEF E, Without
<1>9. SameNoise(cells, model, new) /\ NoiseFits(new, model)
  <2>1. /\ model.noises # map.uniform /\ model.readouts # map.uniform
        /\ model.noises # map.devices /\ model.readouts # map.devices
      BY <1>1 DEF MapCells, NoiseCells
  <2>. QED BY <2>1, <1>1, <1>6, <1>7 DEF NoiseFits, SameNoise
<1>10. \A c \in DOMAIN D : new[D[c]] = cells[D[c]]
    BY <1>1, <1>7 DEF MapFits
<1>11. TableContents(new, map) = Without(TableContents(cells, map), class)
    BY <1>5, <1>8, <1>10 DEF TableContents, Without
<1>12. MapCells(new, map) \subseteq MapCells(cells, map)
    BY <1>5, <1>8 DEF MapCells, Tables
<1>13. MapFits(new, map)
  <2>1. IsFiniteSet(DOMAIN E)
      BY <1>1, <1>8, FS_Subset DEF MapFits
  <2>. QED BY <2>1, <1>1, <1>5, <1>6, <1>8 DEF MapFits
<1>14. UserFits(new, model, map)
    BY <1>1, <1>9, <1>12, <1>13 DEF UserFits
<1>15. EditsItsOwn(cells, model, map, new, model, map)
    BY <1>6, <1>7, <1>12 DEF EditsItsOwn, UserCells, MapCells
<1>. QED BY <1>5, <1>6, <1>9, <1>11, <1>14, <1>15 DEF Edited, U
-----------------------------------------------------------------------------
(* What is set aside, and what a simulator is given.                       *)

\* The user goes on with a copy, and what he had is held.
LEMMA CopyTaken ==
    ASSUME NEW cells, NEW model, NEW map, NEW h, NEW new, NEW map2,
           IsSequence(cells), UserFits(cells, model, map),
           new = Copied(cells, map), map2 = CopyOf(cells),
           h.kind = "kept", h.rules = map, h.contents = Contents(cells, model, map)
    PROVE  /\ IsSequence(new) /\ UserFits(new, model, map2)
           /\ EditsItsOwn(cells, model, map, new, model, map2)
           /\ SameNoise(cells, model, new)
           /\ new[map2.uniform] = cells[map.uniform]
           /\ TableContents(new, map2) = TableContents(cells, map)
           /\ HeldFits(new, model, map2, h)
<1>1. /\ MapFits(cells, map) /\ NoiseFits(cells, model)
      /\ MapCells(cells, map) \cap NoiseCells(model) = {}
    BY DEF UserFits
<1>2. /\ IsSequence(new)
      /\ \A a \in DOMAIN cells : a \in DOMAIN new /\ new[a] = cells[a]
      /\ MapFits(new, map2)
      /\ \A a \in MapCells(new, map2) : a \notin DOMAIN cells
      /\ new[map2.uniform] = cells[map.uniform]
      /\ TableContents(new, map2) = TableContents(cells, map)
    BY <1>1, CopyIsExact
<1>3. \A a \in NoiseCells(model) : a \in DOMAIN cells
    BY <1>1 DEF NoiseFits, NoiseCells
<1>4. SameNoise(cells, model, new) /\ NoiseFits(new, model)
    BY <1>1, <1>2 DEF NoiseFits, SameNoise
<1>5. UserFits(new, model, map2)
    BY <1>2, <1>3, <1>4 DEF UserFits
<1>6. EditsItsOwn(cells, model, map, new, model, map2)
    BY <1>2, <1>3 DEF EditsItsOwn, UserCells
<1>7. \A a \in MapCells(cells, map) : a \in DOMAIN cells
    BY <1>1 DEF MapFits, MapCells, Tables
<1>8. /\ MapFits(new, map) /\ MapCells(new, map) = MapCells(cells, map)
      /\ new[map.uniform] = cells[map.uniform]
      /\ TableContents(new, map) = TableContents(cells, map)
  <2>1. \A a \in DOMAIN cells : a \in DOMAIN new
      BY <1>2
  <2>2. \A a \in MapCells(cells, map) : new[a] = cells[a]
      BY <1>2, <1>7
  <2>. QED BY <2>1, <2>2, <1>1, MapKept
<1>9. MapCells(new, map) \cap UserCells(new, model, map2) = {}
    BY <1>1, <1>2, <1>7, <1>8 DEF UserCells
<1>10. h.contents.uniform = cells[map.uniform] /\ h.contents.devices = TableContents(cells, map)
    BY DEF Contents, TableContents
<1>. QED BY <1>2, <1>4, <1>5, <1>6, <1>8, <1>9, <1>10 DEF HeldFits

\* A simulator is given copies that lie apart from all that is there.
LEMMA CopiesGiven ==
    ASSUME NEW cells, NEW model, NEW map, NEW h, NEW mid, NEW new,
           IsSequence(cells), UserFits(cells, model, map),
           mid = Copied(cells, map), new = CopiedNoise(mid, model),
           h.noise = NoiseCopyOf(mid), h.rules = CopyOf(cells),
           h.contents = Contents(cells, model, map)
    PROVE  /\ Edited(cells, model, map, new) /\ SameNoise(cells, model, new)
           /\ SameMap(cells, map, new) /\ HeldFits(new, model, map, h)
<1>. DEFINE L == Len(cells)
            M == Len(mid)
            pair == <<mid[model.noises], mid[model.readouts]>>
<1>1. /\ MapFits(cells, map) /\ NoiseFits(cells, model)
      /\ MapCells(cells, map) \cap NoiseCells(model) = {}
    BY DEF UserFits
<1>2. /\ IsSequence(mid) /\ M >= L + 2
      /\ \A a \in DOMAIN cells : a \in DOMAIN mid /\ mid[a] = cells[a]
      /\ MapFits(mid, h.rules)
      /\ \A a \in MapCells(mid, h.rules) : a \notin DOMAIN cells
      /\ mid[h.rules.uniform] = cells[map.uniform]
      /\ TableContents(mid, h.rules) = TableContents(cells, map)
    BY <1>1, CopyIsExact
<1>3. /\ L \in Nat /\ DOMAIN cells = 1..L
      /\ M \in Nat /\ DOMAIN mid = 1..M
    BY <1>2, SequenceIsSeq DEF IsSequence
<1>4. h.noise.noises = M + 1 /\ h.noise.readouts = M + 2
    BY DEF NoiseCopyOf
<1>. HIDE DEF L, M
<1>5. \A a \in NoiseCells(model) : a \in DOMAIN cells
    BY <1>1 DEF NoiseFits, NoiseCells
<1>6. /\ IsSequence(new) /\ Len(new) = M + 2
      /\ \A a \in 1..M : new[a] = mid[a]
      /\ new[M + 1] = mid[model.noises] /\ new[M + 2] = mid[model.readouts]
  <2>1. /\ IsSequence(pair) /\ Len(pair) = 2
        /\ pair[1] = mid[model.noises] /\ pair[2] = mid[model.readouts]
      BY PairOfCells
  <2>2. new = mid \o pair
      BY DEF CopiedNoise
  <2>. HIDE DEF pair
  <2>3. Joins(mid \o pair, mid, pair)
      BY <1>2, <2>1, JoinedCells
  <2>. QED BY <2>1, <2>2, <2>3 DEF Joins, M
<1>7. DOMAIN new = 1..(M + 2)
    BY <1>6, SequenceIsSeq
<1>8. \A a \in DOMAIN mid : a \in DOMAIN new /\ new[a] = mid[a]
    BY <1>3, <1>6, <1>7
<1>9. \A a \in DOMAIN cells : a \in DOMAIN new /\ new[a] = cells[a]
    BY <1>2, <1>8
<1>10. \A a \in MapCells(cells, map) : a \in DOMAIN cells
    BY <1>1 DEF MapFits, MapCells, Tables
<1>11. /\ MapFits(new, map) /\ MapCells(new, map) = MapCells(cells, map)
       /\ new[map.uniform] = cells[map.uniform]
       /\ TableContents(new, map) = TableContents(cells, map)
  <2>1. \A a \in DOMAIN cells : a \in DOMAIN new
      BY <1>9
  <2>2. \A a \in MapCells(cells, map) : new[a] = cells[a]
      BY <1>9, <1>10
  <2>. QED BY <2>1, <2>2, <1>1, MapKept
<1>12. SameNoise(cells, model, new) /\ NoiseFits(new, model)
    BY <1>1, <1>9 DEF NoiseFits, SameNoise
<1>13. UserFits(new, model, map)
    BY <1>1, <1>11, <1>12 DEF UserFits
<1>14. EditsItsOwn(cells, model, map, new, model, map)
    BY <1>9, <1>11 DEF EditsItsOwn, UserCells
<1>15. \A a \in MapCells(mid, h.rules) : a \in DOMAIN mid
    BY <1>2 DEF MapFits, MapCells, Tables
<1>16. /\ MapFits(new, h.rules) /\ MapCells(new, h.rules) = MapCells(mid, h.rules)
       /\ new[h.rules.uniform] = mid[h.rules.uniform]
       /\ TableContents(new, h.rules) = TableContents(mid, h.rules)
  <2>1. \A a \in DOMAIN mid : a \in DOMAIN new
      BY <1>8
  <2>2. \A a \in MapCells(mid, h.rules) : new[a] = mid[a]
      BY <1>8, <1>15
  <2>. QED BY <2>1, <2>2, <1>2, MapKept
<1>17. UserCells(new, model, map) \subseteq DOMAIN cells
    BY <1>5, <1>10, <1>11 DEF UserCells
<1>18. MapCells(new, h.rules) \cap UserCells(new, model, map) = {}
    BY <1>2, <1>16, <1>17
<1>19. NoiseFits(new, h.noise) /\ NoiseCells(h.noise) \cap UserCells(new, model, map) = {}
  <2>1. NoiseFits(new, h.noise)
      BY <1>3, <1>4, <1>7 DEF NoiseFits
  <2>2. \A a \in NoiseCells(h.noise) : a \notin DOMAIN cells
      BY <1>2, <1>3, <1>4 DEF NoiseCells
  <2>. QED BY <2>1, <2>2, <1>17
<1>20. Contents(new, h.noise, h.rules) = h.contents
  <2>1. new[h.noise.noises] = cells[model.noises] /\ new[h.noise.readouts] = cells[model.readouts]
      BY <1>1, <1>2, <1>4, <1>6 DEF NoiseFits
  <2>2. new[h.rules.uniform] = cells[map.uniform]
      BY <1>2, <1>16
  <2>3. TableContents(new, h.rules) = TableContents(cells, map)
      BY <1>2, <1>16
  <2>. QED BY <2>1, <2>2, <2>3 DEF Contents, TableContents
<1>21. new[h.rules.uniform] = h.contents.uniform /\ TableContents(new, h.rules) = h.contents.devices
    BY <1>2, <1>16 DEF Contents, TableContents
<1>. QED BY <1>6, <1>11, <1>12, <1>13, <1>14, <1>16, <1>18, <1>19, <1>20, <1>21
         DEF Edited, SameMap, HeldFits
\* The three edits of the map, beside the entry that each leaves in the log.
LEMMA UniformLogged ==
    ASSUME NEW lg, NEW U, NEW T, NEW U2, NEW e, IsSequence(lg), IsItsLog(lg, U, T), RulesFit(U, T),
           ~Given(e.operands), e.form # "removed", e.rule \notin Reserved,
           e.class \notin DOMAIN T, U2 = Put2(U, e.class, e.rule)
    PROVE  IsItsLog(Append(lg, e), U2, T) /\ RulesFit(U2, T)
<1>. DEFINE new == Append(lg, e)
<1>1. /\ DOMAIN U2 = DOMAIN U \cup {e.class} /\ U2[e.class] = e.rule
      /\ \A c \in DOMAIN U : c # e.class => U2[c] = U[c]
    BY DEF Put2
<1>2. Len(lg) \in Nat /\ DOMAIN lg = 1..Len(lg)
    BY SequenceIsSeq DEF IsSequence
<1>3. (\A k \in 1..Len(lg) : new[k] = lg[k]) /\ new[Len(lg) + 1] = e
    BY AppendedCell
<1>. HIDE DEF new
<1>4. ASSUME NEW c, NEW o PROVE RuleOf(U2, T, c, o) = RuleIn(new, c, o)
  <2>1. RuleOf(U, T, c, o) = RuleIn(lg, c, o)
      BY DEF IsItsLog
  <2>2. CASE c = e.class
    <3>1. RuleIn(new, c, o) = e.rule
        BY <2>2, RuleStep DEF new, Covers
    <3>. QED BY <3>1, <2>2, <1>1 DEF RuleOf
  <2>3. CASE c # e.class
    <3>1. RuleIn(new, c, o) = RuleIn(lg, c, o)
        BY <2>3, RuleStep DEF new
    <3>. QED BY <3>1, <2>1, <2>3, <1>1 DEF RuleOf
  <2>. QED BY <2>2, <2>3
<1>5. ASSUME NEW c
      PROVE  /\ c \in DOMAIN U2 \/ c \in DOMAIN T <=> SinceIn(new, c) # {} \/ DefaultIn(new, c)
             /\ \A k \in SinceIn(new, c) : Given(new[k].operands) <=> c \in DOMAIN T
  <2>1. /\ c \in DOMAIN U \/ c \in DOMAIN T <=> SinceIn(lg, c) # {} \/ DefaultIn(lg, c)
        /\ \A k \in SinceIn(lg, c) : k \in 1..Len(lg) /\ (Given(lg[k].operands) <=> c \in DOMAIN T)
      BY <1>2 DEF IsItsLog, SinceIn
  <2>2. CASE c = e.class
    <3>1. SinceIn(new, c) = SinceIn(lg, c) \cup {Len(lg) + 1}
        BY <2>2, SinceStep DEF new
    <3>. QED BY <3>1, <2>1, <2>2, <1>1, <1>3
  <2>3. CASE c # e.class
    <3>1. SinceIn(new, c) = SinceIn(lg, c) /\ RemovalsIn(new, c) = RemovalsIn(lg, c)
        BY <2>3, SinceStep DEF new
    <3>. QED BY <3>1, <2>1, <2>3, <1>1, <1>3 DEF DefaultIn
  <2>. QED BY <2>2, <2>3
<1>6. IsItsLog(new, U2, T)
    BY <1>4, <1>5 DEF IsItsLog
<1>7. RulesFit(U2, T)
    BY <1>1 DEF RulesFit
<1>. QED BY <1>6, <1>7 DEF new

LEMMA DeviceLogged ==
    ASSUME NEW lg, NEW U, NEW T, NEW T2, NEW e, IsSequence(lg), IsItsLog(lg, U, T), RulesFit(U, T),
           Given(e.operands), \A x, y \in e.operands : x = y,
           e.form # "removed", e.rule \notin Reserved, e.class \notin DOMAIN U,
           TablesWith(T, e.class, Put2(IF e.class \in DOMAIN T THEN T[e.class] ELSE <<>>,
                                       ValueOf(e.operands), e.rule), T2)
    PROVE  IsItsLog(Append(lg, e), U, T2) /\ RulesFit(U, T2)
<1>. DEFINE new == Append(lg, e)
            given == ValueOf(e.operands)
            before == IF e.class \in DOMAIN T THEN T[e.class] ELSE <<>>
            after == T2[e.class]
<1>0. /\ DOMAIN T2 = DOMAIN T \cup {e.class} /\ after = Put2(before, given, e.rule)
      /\ \A c \in DOMAIN T : c # e.class => T2[c] = T[c]
    BY DEF TablesWith
<1>1. /\ DOMAIN after = DOMAIN before \cup {given} /\ after[given] = e.rule
      /\ \A o \in DOMAIN before : o # given => after[o] = before[o]
    BY <1>0 DEF Put2
<1>2. \A o : o \in e.operands <=> o = given
    BY DEF Given, ValueOf
<1>3. Len(lg) \in Nat /\ DOMAIN lg = 1..Len(lg)
    BY SequenceIsSeq DEF IsSequence
<1>4. (\A k \in 1..Len(lg) : new[k] = lg[k]) /\ new[Len(lg) + 1] = e
    BY AppendedCell
<1>5. DOMAIN before = IF e.class \in DOMAIN T THEN DOMAIN T[e.class] ELSE {}
    OBVIOUS
<1>. HIDE DEF new, given, after
<1>6. ASSUME NEW c, NEW o PROVE RuleOf(U, T2, c, o) = RuleIn(new, c, o)
  <2>1. RuleOf(U, T, c, o) = RuleIn(lg, c, o)
      BY DEF IsItsLog
  <2>2. CASE c = e.class
    <3>1. RuleIn(new, c, o) = IF o = given THEN e.rule ELSE RuleIn(lg, c, o)
        BY <2>2, <1>2, RuleStep DEF new, Covers
    <3>2. RuleOf(U, T2, c, o) = IF o \in DOMAIN after THEN after[o] ELSE "none"
        BY <2>2, <1>0 DEF RuleOf, after
    <3>3. RuleOf(U, T, c, o) = IF o \in DOMAIN before THEN before[o] ELSE "none"
        BY <2>2, <1>5 DEF RuleOf
    <3>. HIDE DEF before
    <3>. QED BY <3>1, <3>2, <3>3, <2>1, <1>1
  <2>3. CASE c # e.class
    <3>1. RuleIn(new, c, o) = RuleIn(lg, c, o)
        BY <2>3, RuleStep DEF new
    <3>. QED BY <3>1, <2>1, <2>3, <1>0 DEF RuleOf
  <2>. QED BY <2>2, <2>3
<1>7. ASSUME NEW c
      PROVE  /\ c \in DOMAIN U \/ c \in DOMAIN T2 <=> SinceIn(new, c) # {} \/ DefaultIn(new, c)
             /\ \A k \in SinceIn(new, c) : Given(new[k].operands) <=> c \in DOMAIN T2
  <2>1. /\ c \in DOMAIN U \/ c \in DOMAIN T <=> SinceIn(lg, c) # {} \/ DefaultIn(lg, c)
        /\ \A k \in SinceIn(lg, c) : k \in 1..Len(lg) /\ (Given(lg[k].operands) <=> c \in DOMAIN T)
      BY <1>3 DEF IsItsLog, SinceIn
  <2>2. CASE c = e.class
    <3>1. SinceIn(new, c) = SinceIn(lg, c) \cup {Len(lg) + 1}
        BY <2>2, SinceStep DEF new
    <3>. QED BY <3>1, <2>1, <2>2, <1>0, <1>4
  <2>3. CASE c # e.class
    <3>1. SinceIn(new, c) = SinceIn(lg, c) /\ RemovalsIn(new, c) = RemovalsIn(lg, c)
        BY <2>3, SinceStep DEF new
    <3>. QED BY <3>1, <2>1, <2>3, <1>0, <1>4 DEF DefaultIn
  <2>. QED BY <2>2, <2>3
<1>8. IsItsLog(new, U, T2)
    BY <1>6, <1>7 DEF IsItsLog
<1>9. RulesFit(U, T2)
  <2>1. \A o \in DOMAIN before : before[o] \notin Reserved
      BY DEF RulesFit
  <2>. HIDE DEF before
  <2>2. \A o \in DOMAIN after : after[o] \notin Reserved
      BY <2>1, <1>1
  <2>. QED BY <2>2, <1>0 DEF RulesFit, after
<1>. QED BY <1>8, <1>9 DEF new

LEMMA RemovalLogged ==
    ASSUME NEW lg, NEW U, NEW T, NEW e, IsSequence(lg), IsItsLog(lg, U, T), RulesFit(U, T),
           e.form = "removed"
    PROVE  /\ IsItsLog(Append(lg, e), Without(U, e.class), Without(T, e.class))
           /\ RulesFit(Without(U, e.class), Without(T, e.class))
<1>. DEFINE new == Append(lg, e)
            U2 == Without(U, e.class)
            T2 == Without(T, e.class)
<1>1. /\ \A c : c \in DOMAIN U2 <=> c \in DOMAIN U /\ c # e.class
      /\ \A c \in DOMAIN U2 : U2[c] = U[c]
      /\ \A c : c \in DOMAIN T2 <=> c \in DOMAIN T /\ c # e.class
      /\ \A c \in DOMAIN T2 : T2[c] = T[c]
    BY DEF Without
<1>2. Len(lg) \in Nat /\ DOMAIN lg = 1..Len(lg)
    BY SequenceIsSeq DEF IsSequence
<1>3. (\A k \in 1..Len(lg) : new[k] = lg[k]) /\ new[Len(lg) + 1] = e
    BY AppendedCell
<1>. HIDE DEF new, U2, T2
<1>4. ASSUME NEW c, NEW o PROVE RuleOf(U2, T2, c, o) = RuleIn(new, c, o)
  <2>1. RuleOf(U, T, c, o) = RuleIn(lg, c, o)
      BY DEF IsItsLog
  <2>2. CASE c = e.class
    <3>1. RuleIn(new, c, o) = "none"
        BY <2>2, RuleStep DEF new
    <3>. QED BY <3>1, <2>2, <1>1 DEF RuleOf
  <2>3. CASE c # e.class
    <3>1. RuleIn(new, c, o) = RuleIn(lg, c, o)
        BY <2>3, RuleStep DEF new
    <3>. QED BY <3>1, <2>1, <2>3, <1>1 DEF RuleOf
  <2>. QED BY <2>2, <2>3
<1>5. ASSUME NEW c
      PROVE  /\ c \in DOMAIN U2 \/ c \in DOMAIN T2 <=> SinceIn(new, c) # {} \/ DefaultIn(new, c)
             /\ \A k \in SinceIn(new, c) : Given(new[k].operands) <=> c \in DOMAIN T2
  <2>1. /\ c \in DOMAIN U \/ c \in DOMAIN T <=> SinceIn(lg, c) # {} \/ DefaultIn(lg, c)
        /\ \A k \in SinceIn(lg, c) : k \in 1..Len(lg) /\ (Given(lg[k].operands) <=> c \in DOMAIN T)
      BY <1>2 DEF IsItsLog, SinceIn
  <2>2. CASE c = e.class
    <3>1. SinceIn(new, c) = {} /\ RemovalsIn(new, c) # {}
        BY <2>2, SinceStep DEF new
    <3>. QED BY <3>1, <2>2, <1>1 DEF DefaultIn
  <2>3. CASE c # e.class
    <3>1. SinceIn(new, c) = SinceIn(lg, c) /\ RemovalsIn(new, c) = RemovalsIn(lg, c)
        BY <2>3, SinceStep DEF new
    <3>. QED BY <3>1, <2>1, <2>3, <1>1, <1>3 DEF DefaultIn
  <2>. QED BY <2>2, <2>3
<1>6. IsItsLog(new, U2, T2)
    BY <1>4, <1>5 DEF IsItsLog
<1>7. RulesFit(U2, T2)
    BY <1>1 DEF RulesFit
<1>. QED BY <1>6, <1>7 DEF new, U2, T2
-----------------------------------------------------------------------------
(* What a model accepts.                                                   *)

RegistrationFits(r) ==
    /\ r.decl.type \in NoiseTypes \ {"ReadoutConfusion"}
    /\ r.decl.type \in DualForm => (Given(r.decl.p) <=> ~Given(r.decl.rate))
    /\ r.decl.type = "ThermalRelaxation" => ~Given(r.decl.p)
    /\ Given(r.positions) => ValueOf(r.positions) \in Seq(Nat)
    /\ r.op = "background" => ~Given(r.positions) /\ Width(r.decl) = 1
NoisesFit(noises) ==
    /\ IsSequence(noises)
    /\ \A k \in DOMAIN noises : RegistrationFits(noises[k])
    /\ \A j, k \in DOMAIN noises : j < k => ~RegistrationsConflict(noises[j], noises[k])
ReadoutsFit(readouts) ==
    /\ IsSequence(readouts)
    /\ \A k \in DOMAIN readouts :
          readouts[k].selector = <<>> \/ readouts[k].selector = <<readouts[k].selector[1]>>

\* Of the two strengths that are kept, exactly one is given.
LEMMA OneOfTwo ==
    ASSUME NEW d, OneStrength(d), d.tPhi = {}
    PROVE  Given(d.p) <=> ~Given(d.rate)
<1>. DEFINE S == {f \in {"p", "rate", "tPhi"} : Given(d[f])}
<1>1. Cardinality(S) = 1
    BY DEF OneStrength
<1>2. IsFiniteSet(S)
  <2>1. IsFiniteSet({"p", "rate", "tPhi"})
    <3>1. IsFiniteSet({}) /\ IsFiniteSet({"p"}) /\ IsFiniteSet({"p", "rate"})
      <4>1. IsFiniteSet({})
          BY FS_EmptySet
      <4>2. {"p"} = {} \cup {"p"} /\ {"p", "rate"} = {"p"} \cup {"rate"}
          OBVIOUS
      <4>3. IsFiniteSet({"p"})
          BY <4>1, <4>2, FS_AddElement
      <4>. QED BY <4>1, <4>2, <4>3, FS_AddElement
    <3>2. {"p", "rate", "tPhi"} = {"p", "rate"} \cup {"tPhi"}
        OBVIOUS
    <3>. QED BY <3>1, <3>2, FS_AddElement
  <2>2. S \subseteq {"p", "rate", "tPhi"}
      OBVIOUS
  <2>. HIDE DEF S
  <2>. QED BY <2>1, <2>2, FS_Subset
<1>3. PICK x : S = {x}
  <2>. HIDE DEF S
  <2>. QED BY <1>1, <1>2, FS_Singleton
<1>4. \A f : f \in S <=> f \in {"p", "rate", "tPhi"} /\ Given(d[f])
    OBVIOUS
<1>5. ~Given(d["tPhi"])
    BY DEF Given
<1>6. ("p" \in S <=> Given(d["p"])) /\ ("rate" \in S <=> Given(d["rate"])) /\ "tPhi" \notin S
    BY <1>4, <1>5
<1>7. x = "p" \/ x = "rate"
    BY <1>3, <1>4, <1>6
<1>8. "p" \in S <=> ~("rate" \in S)
  <2>. HIDE DEF S
  <2>. QED BY <1>3, <1>7
<1>9. Given(d["p"]) <=> ~Given(d["rate"])
  <2>. HIDE DEF S
  <2>. QED BY <1>6, <1>8
<1>. QED BY <1>9

LEMMA NoiseListed ==
    ASSUME NEW noises, NEW call \in NoiseCalls, NoisesFit(noises), ~IsReadout(call),
           NoiseAccepted(noises, call)
    PROVE  NoisesFit(Append(noises, RegistrationOf(call)))
<1>. DEFINE r == RegistrationOf(call)
            new == Append(noises, r)
            d == call.decl
<1>1. /\ \A p \in call.positions : p \in Seq(Int)
      /\ d.type \in NoiseTypes /\ Declared(d) /\ d.tPhi = {}
      /\ d.type = "ThermalRelaxation" => d.p = {}
    BY NoiseCallsAssumption
<1>2. /\ r.decl = d /\ r.op = (IF IsBackground(call) THEN "background" ELSE call.op)
      /\ r.positions = IF IsBackground(call) THEN {}
                       ELSE NormalPositions(call.op, SelectorOf(call), call.positions)
    BY DEF RegistrationOf
<1>. HIDE DEF r
<1>3. RegistrationFits(r)
  <2>1. r.decl.type \in NoiseTypes \ {"ReadoutConfusion"}
      BY <1>1, <1>2 DEF IsReadout
  <2>2. r.decl.type \in DualForm => (Given(r.decl.p) <=> ~Given(r.decl.rate))
    <3>. SUFFICES ASSUME d.type \in DualForm PROVE Given(d.p) <=> ~Given(d.rate)
        BY <1>2
    <3>1. OneStrength(d)
        BY <1>1 DEF Declared, DualForm, TransitionsAccepted
    <3>. QED BY <3>1, <1>1, OneOfTwo
  <2>3. r.decl.type = "ThermalRelaxation" => ~Given(r.decl.p)
      BY <1>1, <1>2 DEF Given
  <2>4. Given(r.positions) => ValueOf(r.positions) \in Seq(Nat)
    <3>. SUFFICES ASSUME Given(r.positions) PROVE ValueOf(r.positions) \in Seq(Nat)
        OBVIOUS
    <3>1. ~IsBackground(call) /\ r.positions = call.positions /\ Given(call.positions)
        BY <1>2 DEF Given, NormalPositions
    <3>2. ValueOf(call.positions) \in Seq(Int)
        BY <3>1, <1>1 DEF Given, ValueOf
    <3>3. \A k \in DOMAIN ValueOf(call.positions) : ValueOf(call.positions)[k] >= 0
        BY <3>1 DEF NoiseAccepted, OccurrenceCallAccepted, PositionsAccepted
    <3>. DEFINE p == ValueOf(call.positions)
    <3>. HIDE DEF p
    <3>4. Len(p) \in Nat /\ p \in [1..Len(p) -> Nat]
      <4>1. p \in Seq(Int) /\ \A k \in DOMAIN p : p[k] >= 0
          BY <3>2, <3>3 DEF p
      <4>2. Len(p) \in Nat /\ p \in [1..Len(p) -> Int]
          BY <4>1, LenProperties
      <4>3. \A k \in 1..Len(p) : p[k] \in Nat
          BY <4>1, <4>2
      <4>. QED BY <4>2, <4>3
    <3>5. p \in Seq(Nat)
        BY <3>4, SeqDef
    <3>. QED BY <3>1, <3>5 DEF p
  <2>5. r.op = "background" => ~Given(r.positions) /\ Width(r.decl) = 1
    <3>. SUFFICES ASSUME r.op = "background" PROVE ~Given(r.positions) /\ Width(r.decl) = 1
        OBVIOUS
    <3>1. IsBackground(call)
        BY <1>2 DEF IsBackground
    <3>2. BackgroundCallAccepted(call)
        BY <3>1 DEF NoiseAccepted
    <3>. QED BY <3>1, <3>2, <1>2 DEF Given, BackgroundCallAccepted
  <2>. QED BY <2>1, <2>2, <2>3, <2>4, <2>5 DEF RegistrationFits
<1>4. IsSequence(noises) /\ Len(noises) \in Nat /\ DOMAIN noises = 1..Len(noises)
    BY SequenceIsSeq DEF NoisesFit, IsSequence
<1>5. /\ IsSequence(new) /\ Len(new) = Len(noises) + 1 /\ new[Len(noises) + 1] = r
      /\ \A k \in 1..Len(noises) : new[k] = noises[k]
    BY <1>4, AppendedCell
<1>. HIDE DEF new
<1>6. DOMAIN new = 1..(Len(noises) + 1)
    BY <1>5, SequenceIsSeq
<1>7. \A k \in DOMAIN new : RegistrationFits(new[k])
    BY <1>3, <1>4, <1>5, <1>6 DEF NoisesFit
<1>8. \A j, k \in DOMAIN new : j < k => ~RegistrationsConflict(new[j], new[k])
  <2>1. \A k \in DOMAIN noises : ~RegistrationsConflict(noises[k], r)
      BY DEF NoiseAccepted, r
  <2>. QED BY <2>1, <1>4, <1>5, <1>6 DEF NoisesFit
<1>. QED BY <1>5, <1>7, <1>8 DEF NoisesFit, new, r

LEMMA ReadoutListed ==
    ASSUME NEW readouts, NEW call \in NoiseCalls, ReadoutsFit(readouts),
           ReadoutCallAccepted(readouts, call)
    PROVE  ReadoutsFit(Append(readouts, [selector |-> SelectorOf(call), decl |-> call.decl]))
<1>. DEFINE r == [selector |-> SelectorOf(call), decl |-> call.decl]
            new == Append(readouts, r)
<1>1. call.arg.form = "scalar" => call.arg.items = <<call.arg.items[1]>>
    BY NoiseCallsAssumption
<1>2. r.selector = <<>> \/ r.selector = <<r.selector[1]>>
    BY <1>1 DEF ReadoutCallAccepted, ReadoutAccepted, SelectorOf
<1>. HIDE DEF r
<1>3. IsSequence(readouts) /\ Len(readouts) \in Nat /\ DOMAIN readouts = 1..Len(readouts)
    BY SequenceIsSeq DEF ReadoutsFit, IsSequence
<1>4. /\ IsSequence(new) /\ Len(new) = Len(readouts) + 1 /\ new[Len(readouts) + 1] = r
      /\ \A k \in 1..Len(readouts) : new[k] = readouts[k]
    BY <1>3, AppendedCell
<1>. HIDE DEF new
<1>5. DOMAIN new = 1..(Len(readouts) + 1)
    BY <1>4, SequenceIsSeq
<1>6. \A k \in DOMAIN new : new[k].selector = <<>> \/ new[k].selector = <<new[k].selector[1]>>
    BY <1>2, <1>3, <1>4, <1>5 DEF ReadoutsFit
<1>. QED BY <1>4, <1>6 DEF ReadoutsFit, new, r
-----------------------------------------------------------------------------
(* What a model answers.                                                   *)

\* The targets of an operation: refs, each once.
Refs == {[kind |-> "ref", id |-> k] : k \in DOMAIN Layout}
TargetsFit(targets) ==
    /\ targets \in Seq(Refs) /\ targets # <<>>
    /\ \A j, k \in DOMAIN targets : j # k => targets[j] # targets[k]

\* Declarations with their extents: of one kind at most one on a subsystem, each as wide
\* as it was declared, each one that was registered.
ActOnce(list) ==
    \A j, k \in DOMAIN list :
       j # k /\ list[j].decl.type = list[k].decl.type /\ list[j].decl.type # "TransitionRelaxation"
       => \A m \in DOMAIN list[j].extent : \A n \in DOMAIN list[k].extent :
             list[j].extent[m] # list[k].extent[n]
ActAsWide(list) == \A k \in DOMAIN list : Width(list[k].decl) \in {0, Len(list[k].extent)}
AreFrom(list, noises) == \A k \in DOMAIN list : k \in DOMAIN noises /\ list[k].decl = noises[k].decl
AnswerFits(list, noises) == ActOnce(list) /\ ActAsWide(list) /\ AreFrom(list, noises)

LEMMA NoAnswer ==
    ASSUME NEW noises
    PROVE  AnswerFits(<<>>, noises)
    BY DEF AnswerFits, ActOnce, ActAsWide, AreFrom

LEMMA SameEntries ==
    ASSUME NEW list, NEW channels, NEW noises, AnswerFits(list, noises),
           DOMAIN channels = DOMAIN list,
           \A k \in DOMAIN list : channels[k].decl = list[k].decl /\ channels[k].extent = list[k].extent
    PROVE  AnswerFits(channels, noises)
<1>1. ActOnce(channels)
    BY DEF AnswerFits, ActOnce
<1>2. ActAsWide(channels)
    BY DEF AnswerFits, ActAsWide
<1>3. AreFrom(channels, noises)
    BY DEF AnswerFits, AreFrom
<1>. QED BY <1>1, <1>2, <1>3 DEF AnswerFits

\* What no two matches conflict in.
LEMMA MatchesApart ==
    ASSUME NEW noises, NEW matches, NEW j \in matches, NEW k \in matches,
           NoisesFit(noises), matches \subseteq DOMAIN noises, ~Ambiguous(noises, matches),
           j # k, noises[j].decl.type = noises[k].decl.type,
           noises[j].decl.type # "TransitionRelaxation", noises[j].op = noises[k].op
    PROVE  ~PositionsOverlap(noises[j].positions, noises[k].positions)
<1>1. j \in Nat /\ k \in Nat
    BY SequenceIsSeq DEF NoisesFit, IsSequence
<1>2. j < k \/ k < j
    BY <1>1
<1>3. CASE j < k
    BY <1>3 DEF Ambiguous, MatchesConflict
<1>4. CASE k < j
  <2>1. ~PositionsOverlap(noises[k].positions, noises[j].positions)
      BY <1>4 DEF Ambiguous, MatchesConflict
  <2>. QED BY <2>1 DEF PositionsOverlap
<1>. QED BY <1>2, <1>3, <1>4

\* The extents of two registrations whose positions are apart.
LEMMA ExtentsApart ==
    ASSUME NEW left, NEW right, NEW targets, TargetsFit(targets),
           RegistrationFits(left), RegistrationFits(right),
           ~OutOfRange(left, targets), ~OutOfRange(right, targets),
           ~PositionsOverlap(left.positions, right.positions),
           NEW m \in DOMAIN Extent(left, targets), NEW n \in DOMAIN Extent(right, targets)
    PROVE  Extent(left, targets)[m] # Extent(right, targets)[n]
<1>. DEFINE p == ValueOf(left.positions)
            q == ValueOf(right.positions)
<1>1. /\ Given(left.positions) /\ Given(right.positions)
      /\ Elements(p) \cap Elements(q) = {}
    BY DEF PositionsOverlap
<1>2. p \in Seq(Nat) /\ q \in Seq(Nat)
    BY <1>1 DEF RegistrationFits
<1>3. /\ Extent(left, targets) = [i \in DOMAIN p |-> targets[p[i] + 1]]
      /\ Extent(right, targets) = [i \in DOMAIN q |-> targets[q[i] + 1]]
    BY <1>1 DEF Extent
<1>4. (\A i \in DOMAIN p : ~(p[i] >= Len(targets))) /\ (\A i \in DOMAIN q : ~(q[i] >= Len(targets)))
    BY <1>1 DEF OutOfRange
<1>. HIDE DEF p, q
<1>5. m \in DOMAIN p /\ n \in DOMAIN q
    BY <1>3
<1>6. p[m] \in Nat /\ q[n] \in Nat /\ p[m] < Len(targets) /\ q[n] < Len(targets)
  <2>1. Len(targets) \in Nat
      BY LenProperties DEF TargetsFit
  <2>2. p[m] \in Nat /\ q[n] \in Nat
      BY <1>2, <1>5, LenProperties
  <2>. QED BY <2>1, <2>2, <1>4, <1>5
<1>7. p[m] # q[n]
    BY <1>1, <1>5 DEF Elements
<1>8. DOMAIN targets = 1..Len(targets) /\ Len(targets) \in Nat
    BY LenProperties DEF TargetsFit
<1>9. targets[p[m] + 1] # targets[q[n] + 1]
    BY <1>6, <1>7, <1>8 DEF TargetsFit
<1>. QED BY <1>3, <1>5, <1>9

\* Two registrations that add() let through and that conflict nevertheless: one names refs,
\* the other device labels.
LEMMA RefAgainstLabel ==
    ASSUME NEW noises, NEW op, NEW targets, NoisesFit(noises), TargetsFit(targets),
           Ambiguous(noises, Matching(noises, op, targets, Layout))
    PROVE  \E j, k \in Matching(noises, op, targets, Layout) :
              IsRefSelector(noises[j].selector) /\ ~IsRefSelector(noises[k].selector)
<1>. DEFINE matches == Matching(noises, op, targets, Layout)
            labels == LabelsOf(targets, Layout)
<1>1. PICK j \in matches, k \in matches : j < k /\ MatchesConflict(noises[j], noises[k])
    BY DEF Ambiguous
<1>2. /\ j \in DOMAIN noises /\ k \in DOMAIN noises
      /\ noises[j].selector \in {<<>>, targets, labels} /\ noises[k].selector \in {<<>>, targets, labels}
    BY DEF Matching, Matches
<1>3. ~SelectorsCanOverlap(noises[j].selector, noises[k].selector)
    BY <1>1, <1>2 DEF NoisesFit, RegistrationsConflict
<1>4. \/ noises[j].selector = targets /\ noises[k].selector = labels
      \/ noises[j].selector = labels /\ noises[k].selector = targets
    BY <1>2, <1>3 DEF SelectorsCanOverlap
<1>5. 1 \in DOMAIN targets /\ targets[1] \in Refs
  <2>1. Len(targets) \in Nat /\ targets \in [1..Len(targets) -> Refs] /\ Len(targets) # 0
      BY LenProperties, EmptySeq DEF TargetsFit
  <2>. QED BY <2>1
<1>6. IsRefSelector(targets)
    BY <1>5 DEF IsRefSelector, IsRef, Refs, TargetsFit
<1>7. ~IsRefSelector(labels)
  <2>1. labels[1] = [kind |-> "label", id |-> Layout[targets[1].id]]
      BY <1>5 DEF LabelsOf
  <2>. QED BY <2>1 DEF IsRefSelector, IsRef
<1>. QED BY <1>4, <1>6, <1>7

\* _noise_for_occurrence.
LEMMA OccurrenceAnswer ==
    ASSUME NEW noises, NEW op, NEW targets, NEW answer, NoisesFit(noises), TargetsFit(targets),
           answer = NoiseForOccurrence(noises, op, targets, Layout)
    PROVE  /\ answer.error \in {"none", "ambiguous", "extent"}
           /\ AnswerFits(answer.noise, noises)
           /\ answer.error = "ambiguous" => Ambiguous(noises, Matching(noises, op, targets, Layout))
           /\ \A k \in DOMAIN answer.noise : noises[k].op = op
<1>. DEFINE matches == Matching(noises, op, targets, Layout)
            list == [k \in matches |-> [decl |-> noises[k].decl, extent |-> Extent(noises[k], targets)]]
<1>1. CASE Ambiguous(noises, matches)
  <2>1. answer = [error |-> "ambiguous", noise |-> <<>>]
      BY <1>1 DEF NoiseForOccurrence
  <2>. QED BY <2>1, <1>1, NoAnswer
<1>2. CASE \E k \in matches : OutOfRange(noises[k], targets) \/ WrongWidth(noises[k], targets)
  <2>1. CASE ~Ambiguous(noises, matches)
    <3>1. answer = [error |-> "extent", noise |-> <<>>]
        BY <1>2, <2>1 DEF NoiseForOccurrence
    <3>. QED BY <3>1, NoAnswer
  <2>. QED BY <2>1, <1>1
<1>3. CASE /\ ~Ambiguous(noises, matches)
           /\ \A k \in matches : ~OutOfRange(noises[k], targets) /\ ~WrongWidth(noises[k], targets)
  <2>1. answer = [error |-> "none", noise |-> list]
      BY <1>3 DEF NoiseForOccurrence
  <2>2. DOMAIN list = matches /\ \A k \in matches : /\ list[k].decl = noises[k].decl
                                                   /\ list[k].extent = Extent(noises[k], targets)
      OBVIOUS
  <2>3. \A k \in matches : k \in DOMAIN noises /\ noises[k].op = op
      BY DEF Matching
  <2>. HIDE DEF list, matches
  <2>4. ActOnce(list)
    <3>. SUFFICES ASSUME NEW j \in matches, NEW k \in matches, j # k,
                         noises[j].decl.type = noises[k].decl.type,
                         noises[j].decl.type # "TransitionRelaxation",
                         NEW m \in DOMAIN list[j].extent, NEW n \in DOMAIN list[k].extent
                  PROVE  list[j].extent[m] # list[k].extent[n]
        BY <2>2 DEF ActOnce
    <3>1. ~PositionsOverlap(noises[j].positions, noises[k].positions)
        BY <2>3, <1>3, MatchesApart
    <3>2. RegistrationFits(noises[j]) /\ RegistrationFits(noises[k])
        BY <2>3 DEF NoisesFit
    <3>3. ~OutOfRange(noises[j], targets) /\ ~OutOfRange(noises[k], targets)
        BY <1>3
    <3>4. m \in DOMAIN Extent(noises[j], targets) /\ n \in DOMAIN Extent(noises[k], targets)
        BY <2>2
    <3>5. Extent(noises[j], targets)[m] # Extent(noises[k], targets)[n]
        BY <3>1, <3>2, <3>3, <3>4, ExtentsApart
    <3>. QED BY <3>5, <2>2
  <2>5. ActAsWide(list)
      BY <2>2, <1>3 DEF ActAsWide, WrongWidth
  <2>6. AreFrom(list, noises)
      BY <2>2, <2>3 DEF AreFrom
  <2>. QED BY <2>1, <2>2, <2>3, <2>4, <2>5, <2>6 DEF AnswerFits
<1>. QED BY <1>1, <1>2, <1>3

\* _background_noise_for, on one subsystem.
LEMMA BackgroundAnswered ==
    ASSUME NEW cells, NEW emulator, NEW ref, NEW noises, NEW answer,
           noises = cells[emulator.noise.noises], NoisesFit(noises),
           answer = BackgroundAnswer(cells, emulator, ref)
    PROVE  /\ answer.error \in {"none", "ambiguous"}
           /\ AnswerFits(answer.noise, noises)
<1>. DEFINE matches == {k \in DOMAIN noises :
                          /\ noises[k].op = "background"
                          /\ noises[k].selector \in {<<ref>>, LabelsOf(<<ref>>, Layout)}}
            found == BackgroundNoiseFor(noises, ref, Layout)
            list == answer.noise
<1>1. /\ answer.error = found.error
      /\ list = [k \in DOMAIN found.noise |-> [decl |-> found.noise[k], extent |-> <<ref>>]]
    BY DEF BackgroundAnswer
<1>2. found = IF Ambiguous(noises, matches) THEN [error |-> "ambiguous", noise |-> <<>>]
              ELSE [error |-> "none", noise |-> [k \in matches |-> noises[k].decl]]
    BY DEF BackgroundNoiseFor
<1>3. matches \subseteq DOMAIN noises /\ \A k \in matches : noises[k].op = "background"
    OBVIOUS
<1>. HIDE DEF matches, found
<1>4. CASE Ambiguous(noises, matches)
  <2>1. found.error = "ambiguous" /\ DOMAIN found.noise = {}
      BY <1>2, <1>4
  <2>2. DOMAIN list = {}
      BY <1>1, <2>1
  <2>3. AnswerFits(list, noises)
      BY <2>2 DEF AnswerFits, ActOnce, ActAsWide, AreFrom
  <2>. QED BY <2>1, <2>3, <1>1
<1>5. CASE ~Ambiguous(noises, matches)
  <2>1. found.error = "none" /\ found.noise = [k \in matches |-> noises[k].decl]
      BY <1>2, <1>5
  <2>2. DOMAIN list = matches /\ \A k \in matches : list[k].decl = noises[k].decl /\ list[k].extent = <<ref>>
      BY <1>1, <2>1
  <2>. HIDE DEF list
  <2>3. \A k \in matches : ~Given(noises[k].positions) /\ Width(noises[k].decl) = 1
      BY <1>3 DEF NoisesFit, RegistrationFits
  <2>4. ActOnce(list)
    <3>. SUFFICES ASSUME NEW j \in matches, NEW k \in matches, j # k,
                         noises[j].decl.type = noises[k].decl.type,
                         noises[j].decl.type # "TransitionRelaxation"
                  PROVE  FALSE
        BY <2>2 DEF ActOnce
    <3>1. ~PositionsOverlap(noises[j].positions, noises[k].positions)
        BY <1>3, <1>5, MatchesApart
    <3>. QED BY <3>1, <2>3 DEF PositionsOverlap
  <2>5. ActAsWide(list)
      BY <2>2, <2>3 DEF ActAsWide
  <2>6. AreFrom(list, noises)
      BY <1>3, <2>2 DEF AreFrom
  <2>. QED BY <2>1, <2>4, <2>5, <2>6, <1>1 DEF AnswerFits, list
<1>. QED BY <1>4, <1>5
-----------------------------------------------------------------------------
(* What lowering makes of it.                                              *)

\* What a simulator passed validation with: said of the contents it was given.
RunsOnMatrices(contents, r) ==
    /\ r.decl.type \notin {"Loss", "ThermalRelaxation"} /\ r.op # "background"
    /\ r.decl.type \in DOMAIN contents.uniform \/ r.decl.type \in DOMAIN contents.devices
    /\ r.decl.type \in DualForm => ~Given(r.decl.rate)
HolderFits(h) ==
    h.kind # "kept" =>
       /\ h.kind \in {"simulator"} \cup DOMAIN Families
       /\ NoisesFit(h.contents.noises) /\ ReadoutsFit(h.contents.readouts)
       /\ RulesFit(h.contents.uniform, h.contents.devices)
       /\ h.kind = "simulator" =>
             \A k \in DOMAIN h.contents.noises : RunsOnMatrices(h.contents, h.contents.noises[k])
       /\ h.kind # "simulator" =>
             \A k \in DOMAIN h.contents.noises :
                ~GeneratorRejected(Families[h.kind], h.contents.noises[k])
\* The heap says of it what it was given.
ReadsAs(cells, h) ==
    /\ cells[h.noise.noises] = h.contents.noises /\ cells[h.noise.readouts] = h.contents.readouts
    /\ cells[h.rules.uniform] = h.contents.uniform /\ TableContents(cells, h.rules) = h.contents.devices
LEMMA HeldReads ==
    ASSUME NEW cells, NEW model, NEW map, NEW h, HeldFits(cells, model, map, h), h.kind # "kept"
    PROVE  ReadsAs(cells, h)
<1>1. Contents(cells, h.noise, h.rules) = h.contents
    BY DEF HeldFits
<1>2. Contents(cells, h.noise, h.rules) =
         [noises |-> cells[h.noise.noises], readouts |-> cells[h.noise.readouts],
          uniform |-> cells[h.rules.uniform], devices |-> TableContents(cells, h.rules)]
    BY DEF Contents, TableContents
<1>. HIDE DEF Contents
<1>. QED BY <1>1, <1>2 DEF ReadsAs

\* The strength a rule is found for.
StrengthsFit(channels) ==
    \A k \in DOMAIN channels :
       channels[k].rule = "generator"
          <=> ~Given(channels[k].decl.p) /\ channels[k].decl.type # "PauliChannel"
LEMMA MatrixStrength ==
    ASSUME NEW contents, NEW r, RegistrationFits(r), RunsOnMatrices(contents, r)
    PROVE  Given(r.decl.p) \/ r.decl.type = "PauliChannel"
    BY DEF RegistrationFits, RunsOnMatrices, NoiseTypes, MatrixTypes, PulseTypes, DualForm
LEMMA PulseStrength ==
    ASSUME NEW name \in DOMAIN Families, NEW r, RegistrationFits(r),
           ~GeneratorRejected(Families[name], r)
    PROVE  ~Given(r.decl.p) /\ r.decl.type # "PauliChannel"
<1>1. r.decl.type \in PulseTypes
    BY DEF GeneratorRejected, Families
<1>2. r.decl.type \in DualForm => ~Given(r.decl.p)
    BY DEF GeneratorRejected
<1>. HIDE DEF Families, GeneratorRejected
<1>. QED BY <1>1, <1>2 DEF RegistrationFits, PulseTypes, DualForm

\* The records that lowering fills in.
Outcome(occurrence, error, rule, channels) ==
    [occurrence |-> occurrence, error |-> error, rule |-> rule, channels |-> channels]
LEMMA OutcomesWritten ==
    ASSUME NEW occurrence, NEW error, NEW rule, NEW channels, NEW new
    PROVE  /\ Nothing = Outcome(<<>>, "none", "none", <<>>)
           /\ Failed(new) = Outcome(<<>>, new, "none", <<>>)
           /\ [Nothing EXCEPT !.channels = new] = Outcome(<<>>, "none", "none", new)
           /\ [Outcome(occurrence, error, rule, channels) EXCEPT !.rule = new]
                 = Outcome(occurrence, error, new, channels)
           /\ [Outcome(occurrence, error, rule, channels) EXCEPT !.occurrence = new]
                 = Outcome(new, error, rule, channels)
    BY DEF Outcome, Failed, Nothing

\* An outcome whose channels are those of the model, with the rules their strengths ask for.
IsOutcome(r) == r = Outcome(r.occurrence, r.error, r.rule, r.channels)
ChannelsFit(r, noises) ==
    IsOutcome(r) /\ AnswerFits(r.channels, noises) /\ StrengthsFit(r.channels)
LEMMA RefusalFits ==
    ASSUME NEW error, NEW noises
    PROVE  ChannelsFit(Failed(error), noises) /\ Failed(error).error = error
<1>1. Failed(error) = Outcome(<<>>, error, "none", <<>>)
    BY OutcomesWritten
<1>2. AnswerFits(<<>>, noises)
    BY NoAnswer
<1>. QED BY <1>1, <1>2 DEF ChannelsFit, IsOutcome, Outcome, StrengthsFit

\* The generators of an emulator.
LEMMA GeneratorsLowered ==
    ASSUME NEW answer, NEW noises, NEW name \in DOMAIN Families, NEW r,
           AnswerFits(answer.noise, noises), NoisesFit(noises),
           \A k \in DOMAIN noises : ~GeneratorRejected(Families[name], noises[k]),
           r = LowerGenerators(answer, Families[name])
    PROVE  /\ ChannelsFit(r, noises)
           /\ r.error \in {"none", answer.error, "extent", "rule"}
<1>. DEFINE channels == [k \in DOMAIN answer.noise |-> [decl |-> answer.noise[k].decl,
                                                       extent |-> answer.noise[k].extent,
                                                       rule |-> "generator"]]
<1>1. \/ r = Failed(answer.error) \/ r = Failed("extent") \/ r = Failed("rule")
      \/ r = [Nothing EXCEPT !.channels = channels]
    BY DEF LowerGenerators
<1>2. /\ DOMAIN channels = DOMAIN answer.noise
      /\ \A k \in DOMAIN answer.noise : /\ channels[k].decl = answer.noise[k].decl
                                        /\ channels[k].extent = answer.noise[k].extent
                                        /\ channels[k].rule = "generator"
    OBVIOUS
<1>. HIDE DEF channels
<1>3. CASE r = [Nothing EXCEPT !.channels = channels]
  <2>1. r = Outcome(<<>>, "none", "none", channels)
      BY <1>3, OutcomesWritten
  <2>2. AnswerFits(channels, noises)
      BY <1>2, SameEntries
  <2>3. StrengthsFit(channels)
    <3>. SUFFICES ASSUME NEW k \in DOMAIN channels
                  PROVE  ~Given(channels[k].decl.p) /\ channels[k].decl.type # "PauliChannel"
        BY <1>2 DEF StrengthsFit
    <3>1. k \in DOMAIN noises /\ channels[k].decl = noises[k].decl
        BY <2>2 DEF AnswerFits, AreFrom
    <3>2. RegistrationFits(noises[k]) /\ ~GeneratorRejected(Families[name], noises[k])
        BY <3>1 DEF NoisesFit
    <3>3. ~Given(noises[k].decl.p) /\ noises[k].decl.type # "PauliChannel"
        BY <3>2, PulseStrength
    <3>. QED BY <3>1, <3>3
  <2>. QED BY <2>1, <2>2, <2>3 DEF ChannelsFit, IsOutcome, Outcome
<1>4. ChannelsFit(Failed(answer.error), noises) /\ Failed(answer.error).error = answer.error
    BY RefusalFits
<1>5. ChannelsFit(Failed("extent"), noises) /\ Failed("extent").error = "extent"
    BY RefusalFits
<1>6. ChannelsFit(Failed("rule"), noises) /\ Failed("rule").error = "rule"
    BY RefusalFits
<1>. HIDE DEF Failed
<1>. QED BY <1>1, <1>3, <1>4, <1>5, <1>6
\* The channels of a simulator: each has a rule, unless it has rules for devices alone.
LEMMA ChannelsLowered ==
    ASSUME NEW cells, NEW h, NEW op, NEW targets, NEW r, TargetsFit(targets),
           h.kind = "simulator", HolderFits(h), ReadsAs(cells, h),
           r = LowerChannels(cells, h, op, targets)
    PROVE  /\ ChannelsFit(r, h.contents.noises)
           /\ r.error = "ambiguous" =>
                 Ambiguous(h.contents.noises, Matching(h.contents.noises, op, targets, Layout))
           /\ r.error = "no channel rule" =>
                 \E k \in DOMAIN h.contents.noises :
                    h.contents.noises[k].decl.type \in DOMAIN h.contents.devices
<1>. DEFINE noises == h.contents.noises
            found == NoiseForOccurrence(noises, op, targets, Layout)
            rule(n) == ImplementationFor(cells, h.rules, n.decl.type, OperandsOf(n.extent))
            refused(n) == \/ rule(n) = "bad"
                          \/ rule(n) = "builtin" /\ MatrixRuleRefuses(n.decl, DimsOf(n.extent))
            channels == [k \in DOMAIN found.noise |-> [decl |-> found.noise[k].decl,
                                                       extent |-> found.noise[k].extent,
                                                       rule |-> rule(found.noise[k])]]
<1>1. /\ NoisesFit(noises) /\ RulesFit(h.contents.uniform, h.contents.devices)
      /\ \A k \in DOMAIN noises : RunsOnMatrices(h.contents, noises[k])
    BY DEF HolderFits
<1>2. /\ found.error \in {"none", "ambiguous", "extent"} /\ AnswerFits(found.noise, noises)
      /\ found.error = "ambiguous" => Ambiguous(noises, Matching(noises, op, targets, Layout))
    BY <1>1, OccurrenceAnswer
<1>3. r = IF found.error # "none" THEN Failed(found.error)
          ELSE IF \E k \in DOMAIN found.noise : rule(found.noise[k]) = "none"
          THEN Failed("no channel rule")
          ELSE IF \E k \in DOMAIN found.noise : refused(found.noise[k]) THEN Failed("rule")
          ELSE [Nothing EXCEPT !.channels = channels]
    BY DEF LowerChannels, ReadsAs
<1>4. \A n : rule(n) = RuleOf(h.contents.uniform, h.contents.devices, n.decl.type, OperandsOf(n.extent))
    BY ReadThroughContents DEF ReadsAs
<1>5. \A k \in DOMAIN found.noise : k \in DOMAIN noises /\ found.noise[k].decl = noises[k].decl
    BY <1>2 DEF AnswerFits, AreFrom
<1>6. /\ DOMAIN channels = DOMAIN found.noise
      /\ \A k \in DOMAIN found.noise : /\ channels[k].decl = found.noise[k].decl
                                       /\ channels[k].extent = found.noise[k].extent
                                       /\ channels[k].rule = rule(found.noise[k])
    OBVIOUS
<1>. HIDE DEF found, rule, refused, channels, noises
<1>7. CASE found.error # "none"
  <2>1. r = Failed(found.error)
      BY <1>3, <1>7
  <2>2. ChannelsFit(r, noises) /\ r.error = found.error
      BY <2>1, RefusalFits
  <2>. QED BY <2>2, <1>2 DEF noises
<1>8. CASE found.error = "none" /\ \E k \in DOMAIN found.noise : rule(found.noise[k]) = "none"
  <2>1. r = Failed("no channel rule")
      BY <1>3, <1>8
  <2>2. ChannelsFit(r, noises) /\ r.error = "no channel rule"
      BY <2>1, RefusalFits
  <2>3. PICK k \in DOMAIN found.noise : rule(found.noise[k]) = "none"
      BY <1>8
  <2>4. k \in DOMAIN noises /\ found.noise[k].decl = noises[k].decl
      BY <1>5
  <2>5. \/ noises[k].decl.type \in DOMAIN h.contents.uniform
        \/ noises[k].decl.type \in DOMAIN h.contents.devices
      BY <2>4, <1>1 DEF RunsOnMatrices
  <2>6. noises[k].decl.type \in DOMAIN h.contents.devices
    <3>1. RuleOf(h.contents.uniform, h.contents.devices, noises[k].decl.type,
                 OperandsOf(found.noise[k].extent)) = "none"
        BY <2>3, <2>4, <1>4
    <3>. QED BY <3>1, <2>5, <1>1 DEF RuleOf, RulesFit, Reserved
  <2>. QED BY <2>2, <2>4, <2>6 DEF noises
<1>9. CASE /\ found.error = "none" /\ \A k \in DOMAIN found.noise : rule(found.noise[k]) # "none"
           /\ \E k \in DOMAIN found.noise : refused(found.noise[k])
  <2>1. r = Failed("rule")
      BY <1>3, <1>9
  <2>2. ChannelsFit(r, noises) /\ r.error = "rule"
      BY <2>1, RefusalFits
  <2>. QED BY <2>2 DEF noises
<1>10. CASE /\ found.error = "none" /\ \A k \in DOMAIN found.noise : rule(found.noise[k]) # "none"
            /\ \A k \in DOMAIN found.noise : ~refused(found.noise[k])
  <2>1. r = Outcome(<<>>, "none", "none", channels)
    <3>1. r = [Nothing EXCEPT !.channels = channels]
        BY <1>3, <1>10
    <3>. QED BY <3>1, OutcomesWritten
  <2>2. AnswerFits(channels, noises)
      BY <1>2, <1>6, SameEntries
  <2>3. StrengthsFit(channels)
    <3>. SUFFICES ASSUME NEW k \in DOMAIN channels
                  PROVE  /\ channels[k].rule # "generator"
                         /\ Given(channels[k].decl.p) \/ channels[k].decl.type = "PauliChannel"
        BY DEF StrengthsFit
    <3>1. k \in DOMAIN noises /\ channels[k].decl = noises[k].decl
        BY <1>5, <1>6
    <3>2. channels[k].rule = RuleOf(h.contents.uniform, h.contents.devices,
                                    found.noise[k].decl.type, OperandsOf(found.noise[k].extent))
        BY <1>4, <1>6
    <3>3. channels[k].rule # "generator"
        BY <3>2, <1>1 DEF RuleOf, RulesFit, Reserved
    <3>4. RegistrationFits(noises[k]) /\ RunsOnMatrices(h.contents, noises[k])
        BY <3>1, <1>1 DEF NoisesFit
    <3>5. Given(noises[k].decl.p) \/ noises[k].decl.type = "PauliChannel"
        BY <3>4, MatrixStrength
    <3>. QED BY <3>1, <3>3, <3>5
  <2>. QED BY <2>1, <2>2, <2>3 DEF ChannelsFit, IsOutcome, Outcome, noises
<1>. QED BY <1>7, <1>8, <1>9, <1>10

LEMMA GateLowered ==
    ASSUME NEW cells, NEW h, NEW op, NEW targets, NEW r, TargetsFit(targets),
           h.kind = "simulator", HolderFits(h), ReadsAs(cells, h),
           r = LowerGate(cells, h, op, targets)
    PROVE  /\ ChannelsFit(r, h.contents.noises)
           /\ r.error = "ambiguous" =>
                 Ambiguous(h.contents.noises, Matching(h.contents.noises, op, targets, Layout))
           /\ r.error = "no channel rule" =>
                 \E k \in DOMAIN h.contents.noises :
                    h.contents.noises[k].decl.type \in DOMAIN h.contents.devices
<1>. DEFINE rule == ImplementationFor(cells, h.rules, op, OperandsOf(targets))
            channels == LowerChannels(cells, h, op, targets)
            noises == h.contents.noises
<1>1. \/ r = Failed("no rule") \/ r = Failed("rule")
      \/ r = [channels EXCEPT !.rule = rule]
    BY DEF LowerGate
<1>2. /\ ChannelsFit(channels, noises)
      /\ channels.error = "ambiguous" => Ambiguous(noises, Matching(noises, op, targets, Layout))
      /\ channels.error = "no channel rule" =>
            \E k \in DOMAIN noises : noises[k].decl.type \in DOMAIN h.contents.devices
    BY ChannelsLowered
<1>. HIDE DEF rule, channels, noises
<1>3. ChannelsFit(Failed("no rule"), noises) /\ Failed("no rule").error = "no rule"
    BY RefusalFits
<1>4. ChannelsFit(Failed("rule"), noises) /\ Failed("rule").error = "rule"
    BY RefusalFits
<1>5. CASE r = [channels EXCEPT !.rule = rule]
  <2>1. channels = Outcome(channels.occurrence, channels.error, channels.rule, channels.channels)
      BY <1>2 DEF ChannelsFit, IsOutcome
  <2>2. r = Outcome(channels.occurrence, channels.error, rule, channels.channels)
      BY <1>5, <2>1, OutcomesWritten
  <2>3. IsOutcome(r) /\ r.error = channels.error /\ r.channels = channels.channels
      BY <2>2 DEF IsOutcome, Outcome
  <2>. QED BY <2>3, <1>2 DEF ChannelsFit, noises
<1>. QED BY <1>1, <1>3, <1>4, <1>5 DEF noises

\* The declarations of readout that reach a target.
ReadoutsOf(readouts, target) ==
    {m \in DOMAIN readouts :
       \/ readouts[m].selector = <<>> \/ target = readouts[m].selector[1]
       \/ readouts[m].selector[1] = [kind |-> "label", id |-> Layout[target.id]]}
LEMMA ReadoutAnswer ==
    ASSUME NEW readouts, NEW target, ReadoutsFit(readouts), NEW answer,
           answer = ReadoutFor(readouts, target, Layout), answer.error = "none"
    PROVE  /\ answer.confusion = {readouts[m].decl : m \in ReadoutsOf(readouts, target)}
           /\ Cardinality(answer.confusion) <= 1
<1>. DEFINE matches == {k \in DOMAIN readouts : Matches(readouts[k], <<target>>, Layout)}
            label == [kind |-> "label", id |-> Layout[target.id]]
<1>1. LabelsOf(<<target>>, Layout) = <<label>>
    BY DEF LabelsOf
<1>2. matches = ReadoutsOf(readouts, target)
  <2>1. ASSUME NEW k \in DOMAIN readouts
        PROVE  Matches(readouts[k], <<target>>, Layout)
                  <=> \/ readouts[k].selector = <<>> \/ target = readouts[k].selector[1]
                      \/ readouts[k].selector[1] = label
    <3>1. Matches(readouts[k], <<target>>, Layout)
             <=> readouts[k].selector \in {<<>>, <<target>>, <<label>>}
        BY <1>1 DEF Matches
    <3>2. readouts[k].selector = <<>> \/ readouts[k].selector = <<readouts[k].selector[1]>>
        BY DEF ReadoutsFit
    <3>3. <<target>>[1] = target /\ <<label>>[1] = label
        OBVIOUS
    <3>. HIDE DEF label
    <3>. QED BY <3>1, <3>2, <3>3
  <2>. QED BY <2>1 DEF ReadoutsOf
<1>3. /\ \A j, k \in matches : j = k
      /\ answer = [error |-> "none", confusion |-> {readouts[k].decl : k \in matches}]
    BY DEF ReadoutFor
<1>. HIDE DEF matches
<1>4. answer.confusion = {readouts[k].decl : k \in matches}
    BY <1>3
<1>5. Cardinality(answer.confusion) <= 1
  <2>1. CASE matches = {}
    <3>1. answer.confusion = {}
        BY <2>1, <1>4
    <3>. QED BY <3>1, FS_EmptySet
  <2>2. CASE matches # {}
    <3>1. PICK k \in matches : TRUE
        BY <2>2
    <3>2. answer.confusion = {readouts[k].decl}
        BY <3>1, <1>3, <1>4
    <3>3. Cardinality({readouts[k].decl}) = 1
        BY FS_Singleton
    <3>. QED BY <3>2, <3>3
  <2>. QED BY <2>1, <2>2
<1>. QED BY <1>2, <1>4, <1>5

ReadoutsSound(r, readouts, targets) ==
    \A k \in DOMAIN targets :
       LET given == {readouts[m].decl : m \in ReadoutsOf(readouts, targets[k])}
       IN  /\ Cardinality(given) <= 1
           /\ (IF r.channels = <<>> THEN {} ELSE r.channels[k]) = given

\* _resolve_confusions.
LEMMA MeasurementLowered ==
    ASSUME NEW cells, NEW h, NEW targets, NEW dims, NEW r, TargetsFit(targets),
           h.kind # "kept", HolderFits(h), ReadsAs(cells, h),
           r = LowerMeasurement(cells, h, targets, dims)
    PROVE  /\ IsOutcome(r) /\ r.error # "no channel rule"
           /\ r.error = "none" => ReadoutsSound(r, h.contents.readouts, targets)
<1>. DEFINE readouts == h.contents.readouts
            found(k) == ReadoutFor(readouts, targets[k], Layout)
            given(k) == {readouts[m].decl : m \in ReadoutsOf(readouts, targets[k])}
            channels == [k \in DOMAIN targets |-> found(k).confusion]
<1>1. ReadoutsFit(readouts)
    BY DEF HolderFits
<1>2. r = IF \E k \in DOMAIN targets : found(k).error # "none" THEN Failed("ambiguous")
          ELSE IF \E k \in DOMAIN targets : \E c \in found(k).confusion : Len(c.terms) # dims[k]
          THEN Failed("confusion shape")
          ELSE IF \A k \in DOMAIN targets : found(k).confusion = {} THEN Nothing
          ELSE [Nothing EXCEPT !.channels = channels]
    BY DEF LowerMeasurement, ReadsAs
<1>3. \A k : found(k).error = "none" => found(k).confusion = given(k) /\ Cardinality(given(k)) <= 1
    BY <1>1, ReadoutAnswer
<1>4. DOMAIN channels = DOMAIN targets /\ \A k \in DOMAIN targets : channels[k] = found(k).confusion
    OBVIOUS
<1>. HIDE DEF readouts, found, given, channels
<1>5. IsOutcome(Failed("ambiguous")) /\ Failed("ambiguous").error = "ambiguous"
    BY RefusalFits DEF ChannelsFit
<1>6. IsOutcome(Failed("confusion shape")) /\ Failed("confusion shape").error = "confusion shape"
    BY RefusalFits DEF ChannelsFit
<1>. HIDE DEF Failed
<1>7. CASE \E k \in DOMAIN targets : found(k).error # "none"
  <2>1. r = Failed("ambiguous")
      BY <1>2, <1>7
  <2>. QED BY <2>1, <1>5
<1>8. CASE /\ \A k \in DOMAIN targets : found(k).error = "none"
           /\ \E k \in DOMAIN targets : \E c \in found(k).confusion : Len(c.terms) # dims[k]
  <2>1. r = Failed("confusion shape")
      BY <1>2, <1>8
  <2>. QED BY <2>1, <1>6
<1>9. CASE /\ \A k \in DOMAIN targets : found(k).error = "none"
           /\ ~\E k \in DOMAIN targets : \E c \in found(k).confusion : Len(c.terms) # dims[k]
           /\ \A k \in DOMAIN targets : found(k).confusion = {}
  <2>1. r = Nothing
      BY <1>2, <1>9
  <2>2. r = Outcome(<<>>, "none", "none", <<>>)
      BY <2>1, OutcomesWritten
  <2>3. IsOutcome(r) /\ r.error = "none" /\ r.channels = <<>>
      BY <2>2 DEF IsOutcome, Outcome
  <2>4. \A k \in DOMAIN targets : given(k) = {} /\ Cardinality(given(k)) <= 1
      BY <1>3, <1>9
  <2>. QED BY <2>3, <2>4 DEF ReadoutsSound, given, readouts
<1>10. CASE /\ \A k \in DOMAIN targets : found(k).error = "none"
            /\ ~\E k \in DOMAIN targets : \E c \in found(k).confusion : Len(c.terms) # dims[k]
            /\ ~\A k \in DOMAIN targets : found(k).confusion = {}
  <2>1. r = [Nothing EXCEPT !.channels = channels]
      BY <1>2, <1>10
  <2>2. r = Outcome(<<>>, "none", "none", channels)
      BY <2>1, OutcomesWritten
  <2>3. IsOutcome(r) /\ r.error = "none" /\ r.channels = channels
      BY <2>2 DEF IsOutcome, Outcome
  <2>4. channels # <<>>
      BY <1>4, <1>10
  <2>5. \A k \in DOMAIN targets : channels[k] = given(k) /\ Cardinality(given(k)) <= 1
      BY <1>3, <1>4, <1>10
  <2>. QED BY <2>3, <2>4, <2>5 DEF ReadoutsSound, given, readouts
<1>. QED BY <1>7, <1>8, <1>9, <1>10
\* What a run may rely on when an occurrence is lowered for a simulator.
LoweredIn(cells, holder, occurrence) ==
    LET op == occurrence.op
        targets == occurrence.targets
        digits == IF holder.kind = "simulator" THEN DimsOf(targets)
                  ELSE [k \in DOMAIN targets |-> 2]
        labels == {Layout[r] : r \in DOMAIN Layout}
    IN  IF ~ValidFor(cells[holder.noise.noises], cells[holder.noise.readouts], DOMAIN Layout, labels)
        THEN Failed("foreign selector")
        ELSE CASE op = "measure" -> LowerMeasurement(cells, holder, targets, digits)
          [] op = "background" /\ holder.kind # "simulator" ->
               LowerGenerators(BackgroundAnswer(cells, holder, targets[1]), Families[holder.kind])
          [] op \notin {"measure", "background"} /\ holder.kind = "simulator" ->
               LowerGate(cells, holder, op, targets)
          [] op \notin {"measure", "background"} /\ holder.kind # "simulator" ->
               LowerGenerators(NoiseForOccurrence(cells[holder.noise.noises], op, targets, Layout),
                               Families[holder.kind])
          [] OTHER -> Nothing
LoweringSound(h, occurrence, r) ==
    LET noises == h.contents.noises
    IN  /\ IsOutcome(r)
        /\ occurrence.op # "measure" => ChannelsFit(r, noises)
        /\ occurrence.op \notin {"measure", "background"} /\ r.error = "ambiguous" =>
              Ambiguous(noises, Matching(noises, occurrence.op, occurrence.targets, Layout))
        /\ occurrence.op = "measure" /\ r.error = "none" =>
              ReadoutsSound(r, h.contents.readouts, occurrence.targets)
        /\ r.error = "no channel rule" =>
              \E k \in DOMAIN noises : noises[k].decl.type \in DOMAIN h.contents.devices

LEMMA LoweringIsSound ==
    ASSUME NEW cells, NEW h, NEW occurrence \in Occurrences, NEW r,
           h.kind # "kept", HolderFits(h), ReadsAs(cells, h), r = LoweredIn(cells, h, occurrence)
    PROVE  LoweringSound(h, occurrence, r)
<1>. DEFINE op == occurrence.op
            targets == occurrence.targets
            noises == h.contents.noises
            digits == IF h.kind = "simulator" THEN DimsOf(targets) ELSE [k \in DOMAIN targets |-> 2]
            background == BackgroundAnswer(cells, h, targets[1])
            answer == NoiseForOccurrence(noises, op, targets, Layout)
<1>1. TargetsFit(targets)
    BY OccurrencesAssumption DEF TargetsFit, Refs
<1>2. NoisesFit(noises) /\ cells[h.noise.noises] = noises
    BY DEF HolderFits, ReadsAs
<1>3. \/ r = Failed("foreign selector")
      \/ op = "measure" /\ r = LowerMeasurement(cells, h, targets, digits)
      \/ op = "background" /\ h.kind # "simulator" /\ r = LowerGenerators(background, Families[h.kind])
      \/ op \notin {"measure", "background"} /\ h.kind = "simulator" /\ r = LowerGate(cells, h, op, targets)
      \/ /\ op \notin {"measure", "background"} /\ h.kind # "simulator"
         /\ r = LowerGenerators(answer, Families[h.kind])
      \/ op = "background" /\ r = Nothing
    BY <1>2 DEF LoweredIn
<1>4. h.kind # "simulator" =>
         /\ h.kind \in DOMAIN Families
         /\ \A k \in DOMAIN noises : ~GeneratorRejected(Families[h.kind], noises[k])
    BY DEF HolderFits
<1>. HIDE DEF op, targets, noises, digits, background, answer
<1>5. CASE r = Failed("foreign selector")
  <2>1. ChannelsFit(r, noises) /\ r.error = "foreign selector"
      BY <1>5, RefusalFits
  <2>. QED BY <2>1 DEF LoweringSound, ChannelsFit, noises
<1>6. CASE op = "measure" /\ r = LowerMeasurement(cells, h, targets, digits)
  <2>1. /\ IsOutcome(r) /\ r.error # "no channel rule"
        /\ r.error = "none" => ReadoutsSound(r, h.contents.readouts, targets)
      BY <1>1, <1>6, MeasurementLowered
  <2>. QED BY <2>1, <1>6 DEF LoweringSound, op, targets
<1>7. CASE op = "background" /\ h.kind # "simulator" /\ r = LowerGenerators(background, Families[h.kind])
  <2>1. background.error \in {"none", "ambiguous"} /\ AnswerFits(background.noise, noises)
      BY <1>2, BackgroundAnswered DEF background
  <2>2. ChannelsFit(r, noises) /\ r.error \in {"none", background.error, "extent", "rule"}
      BY <1>2, <1>4, <1>7, <2>1, GeneratorsLowered
  <2>. QED BY <2>1, <2>2, <1>7 DEF LoweringSound, ChannelsFit, op, noises
<1>8. CASE op \notin {"measure", "background"} /\ h.kind = "simulator" /\ r = LowerGate(cells, h, op, targets)
  <2>1. /\ ChannelsFit(r, noises)
        /\ r.error = "ambiguous" => Ambiguous(noises, Matching(noises, op, targets, Layout))
        /\ r.error = "no channel rule" =>
              \E k \in DOMAIN noises : noises[k].decl.type \in DOMAIN h.contents.devices
      BY <1>1, <1>8, GateLowered DEF noises
  <2>. QED BY <2>1, <1>8 DEF LoweringSound, ChannelsFit, op, noises, targets
<1>9. CASE /\ op \notin {"measure", "background"} /\ h.kind # "simulator"
           /\ r = LowerGenerators(answer, Families[h.kind])
  <2>1. /\ answer.error \in {"none", "ambiguous", "extent"} /\ AnswerFits(answer.noise, noises)
        /\ answer.error = "ambiguous" => Ambiguous(noises, Matching(noises, op, targets, Layout))
      BY <1>1, <1>2, OccurrenceAnswer DEF answer
  <2>2. ChannelsFit(r, noises) /\ r.error \in {"none", answer.error, "extent", "rule"}
      BY <1>2, <1>4, <1>9, <2>1, GeneratorsLowered
  <2>. QED BY <2>1, <2>2, <1>9 DEF LoweringSound, ChannelsFit, op, noises, targets
<1>10. CASE op = "background" /\ r = Nothing
  <2>1. r = Outcome(<<>>, "none", "none", <<>>)
      BY <1>10, OutcomesWritten
  <2>2. IsOutcome(r) /\ r.error = "none" /\ r.channels = <<>>
      BY <2>1 DEF IsOutcome, Outcome
  <2>3. AnswerFits(r.channels, noises)
      BY <2>2, NoAnswer
  <2>4. StrengthsFit(r.channels)
      BY <2>2 DEF StrengthsFit
  <2>. QED BY <2>2, <2>3, <2>4, <1>10 DEF LoweringSound, ChannelsFit, op, noises
<1>. QED BY <1>3, <1>5, <1>6, <1>7, <1>8, <1>9, <1>10

-----------------------------------------------------------------------------
(* The invariant.                                                          *)

\* The user's own: where it lies, what it accepted, and that the map is its log.
UserSound(cells, model, map, lg) ==
    /\ IsSequence(cells) /\ IsSequence(lg)
    /\ UserFits(cells, model, map)
    /\ NoisesFit(cells[model.noises]) /\ ReadoutsFit(cells[model.readouts])
    /\ RulesFit(cells[map.uniform], TableContents(cells, map))
    /\ IsItsLog(lg, cells[map.uniform], TableContents(cells, map))
HeldSound(cells, model, map, hs) ==
    /\ IsSequence(hs)
    /\ \A k \in DOMAIN hs : HeldFits(cells, model, map, hs[k]) /\ HolderFits(hs[k])
\* The last occurrence lowered is that of a simulator on the heap as it is.
LoweredFits(cells, hs, l) ==
    \/ l.occurrence = <<>>
    \/ \E k \in DOMAIN hs, o \in Occurrences :
          /\ hs[k].kind # "kept"
          /\ l = [LoweredIn(cells, hs[k], o) EXCEPT !.occurrence = <<hs[k], o>>]
SetupInv ==
    /\ UserSound(heap, noise, rules, log)
    /\ HeldSound(heap, noise, rules, held)
    /\ LoweredFits(heap, held, lowered)

LEMMA AllKept ==
    ASSUME NEW cells, NEW model, NEW map, NEW new, NEW model2, NEW map2, NEW hs,
           HeldSound(cells, model, map, hs), EditsItsOwn(cells, model, map, new, model2, map2)
    PROVE  HeldSound(new, model2, map2, hs)
<1>1. ASSUME NEW k \in DOMAIN hs PROVE HeldFits(new, model2, map2, hs[k]) /\ HolderFits(hs[k])
  <2>1. HeldFits(cells, model, map, hs[k]) /\ HolderFits(hs[k])
      BY DEF HeldSound
  <2>. QED BY <2>1, HeldKept
<1>. QED BY <1>1 DEF HeldSound

LEMMA OneMoreHeld ==
    ASSUME NEW cells, NEW model, NEW map, NEW hs, NEW h, HeldSound(cells, model, map, hs),
           HeldFits(cells, model, map, h), HolderFits(h)
    PROVE  HeldSound(cells, model, map, Append(hs, h))
<1>. DEFINE new == Append(hs, h)
<1>1. IsSequence(hs) /\ Len(hs) \in Nat /\ DOMAIN hs = 1..Len(hs)
    BY SequenceIsSeq DEF HeldSound, IsSequence
<1>2. /\ IsSequence(new) /\ Len(new) = Len(hs) + 1 /\ new[Len(hs) + 1] = h
      /\ \A k \in 1..Len(hs) : new[k] = hs[k]
    BY <1>1, AppendedCell
<1>. HIDE DEF new
<1>3. DOMAIN new = 1..(Len(hs) + 1)
    BY <1>2, SequenceIsSeq
<1>4. \A k \in DOMAIN new : k = Len(hs) + 1 \/ k \in DOMAIN hs
    BY <1>1, <1>3
<1>. QED BY <1>1, <1>2, <1>4 DEF HeldSound, new

LEMMA LoweredIsIn ==
    ASSUME NEW h, NEW o
    PROVE  Lowered(h, o) = LoweredIn(heap, h, o)
    BY DEF Lowered, LoweredIn
LEMMA SetupHoldsAtFirst ==
    ASSUME Init
    PROVE  SetupInv
<1>. DEFINE U == [c \in DefaultRules |-> "builtin"]
            T == TableContents(heap, rules)
<1>1. heap = <<<<>>, <<>>, U, <<>>>> /\ log = <<>> /\ held = <<>> /\ lowered.occurrence = <<>>
    BY DEF Init, Nothing
<1>2. /\ IsSequence(heap) /\ DOMAIN heap = 1..4
      /\ heap[1] = <<>> /\ heap[2] = <<>> /\ heap[3] = U /\ heap[4] = <<>>
  <2>. HIDE DEF U
  <2>. QED BY <1>1 DEF IsSequence
<1>3. noise.noises = 1 /\ noise.readouts = 2 /\ rules.uniform = 3 /\ rules.devices = 4
    BY DEF Init
<1>4. IsSequence(<<>>) /\ DOMAIN <<>> = {}
    BY DEF IsSequence
<1>5. heap[rules.uniform] = U /\ DOMAIN heap[rules.devices] = {}
    BY <1>2, <1>3
<1>6. DOMAIN T = {}
    BY <1>5 DEF TableContents
<1>. HIDE DEF T
<1>7. UserFits(heap, noise, rules)
  <2>1. MapFits(heap, rules)
    <3>1. IsFiniteSet(DOMAIN heap[rules.devices])
        BY <1>5, FS_EmptySet
    <3>. QED BY <3>1, <1>2, <1>3, <1>5 DEF MapFits
  <2>2. MapCells(heap, rules) = {3, 4}
      BY <1>3, <1>5 DEF MapCells, Tables
  <2>. QED BY <2>1, <2>2, <1>2, <1>3 DEF UserFits, NoiseFits, NoiseCells
<1>8. NoisesFit(heap[noise.noises]) /\ ReadoutsFit(heap[noise.readouts])
    BY <1>2, <1>3, <1>4 DEF NoisesFit, ReadoutsFit
<1>9. RulesFit(U, T)
    BY <1>6 DEF RulesFit, Reserved
<1>10. IsItsLog(<<>>, U, T)
  <2>1. \A c : RemovalsIn(<<>>, c) = {} /\ SinceIn(<<>>, c) = {}
      BY <1>4 DEF RemovalsIn, SinceIn
  <2>2. \A c, o : RuleIn(<<>>, c, o) = IF c \in DefaultRules THEN "builtin" ELSE "none"
      BY <2>1 DEF RuleIn, Covering, DefaultIn
  <2>3. \A c, o : RuleOf(U, T, c, o) = IF c \in DefaultRules THEN "builtin" ELSE "none"
      BY <1>6 DEF RuleOf
  <2>4. \A c : DefaultIn(<<>>, c) <=> c \in DOMAIN U
      BY <2>1 DEF DefaultIn
  <2>. HIDE DEF U
  <2>. QED BY <2>1, <2>2, <2>3, <2>4, <1>6 DEF IsItsLog
<1>11. UserSound(heap, noise, rules, log)
    BY <1>1, <1>2, <1>4, <1>5, <1>7, <1>8, <1>9, <1>10 DEF UserSound, T
<1>12. HeldSound(heap, noise, rules, held)
    BY <1>1, <1>4 DEF HeldSound
<1>. QED BY <1>1, <1>11, <1>12 DEF SetupInv, LoweredFits

LEMMA AddReadoutStep ==
    ASSUME SetupInv, NEW call \in NoiseCalls, AddReadout(call)
    PROVE  SetupInv'
<1>. DEFINE r == [selector |-> SelectorOf(call), decl |-> call.decl]
            v == Append(heap[noise.readouts], r)
<1>1. /\ ReadoutCallAccepted(heap[noise.readouts], call)
      /\ heap' = [heap EXCEPT ![noise.readouts] = v]
      /\ noise' = noise /\ rules' = rules /\ held' = held /\ log' = log /\ lowered'.occurrence = <<>>
    BY DEF AddReadout, Edit, Nothing
<1>2. UserSound(heap, noise, rules, log) /\ HeldSound(heap, noise, rules, held)
    BY DEF SetupInv
<1>3. /\ IsSequence(heap) /\ UserFits(heap, noise, rules)
      /\ NoisesFit(heap[noise.noises]) /\ ReadoutsFit(heap[noise.readouts])
    BY <1>2 DEF UserSound
<1>4. EditOf(heap, noise.readouts, v, heap')
    BY <1>1 DEF EditOf
<1>5. ReadoutsFit(v)
    BY <1>1, <1>3, ReadoutListed
<1>6. noise.readouts \in NoiseCells(noise) /\ noise.noises \in NoiseCells(noise)
      /\ noise.noises # noise.readouts
    BY <1>3 DEF NoiseCells, UserFits, NoiseFits
<1>. HIDE DEF v
<1>7. /\ Edited(heap, noise, rules, heap') /\ SameMap(heap, rules, heap')
      /\ heap'[noise.readouts] = v /\ heap'[noise.noises] = heap[noise.noises]
  <2>1. /\ Edited(heap, noise, rules, heap') /\ SameMap(heap, rules, heap')
        /\ heap'[noise.readouts] = v
        /\ OthersSame(heap, NoiseCells(noise), noise.readouts, heap')
      BY <1>3, <1>4, <1>6, NoiseEdit
  <2>. QED BY <2>1, <1>6 DEF OthersSame
<1>8. UserSound(heap', noise, rules, log)
    BY <1>2, <1>3, <1>5, <1>7 DEF UserSound, Edited, SameMap
<1>9. HeldSound(heap', noise, rules, held)
    BY <1>2, <1>7, AllKept DEF Edited
<1>. QED BY <1>1, <1>8, <1>9 DEF SetupInv, LoweredFits

LEMMA AddNoiseStep ==
    ASSUME SetupInv, NEW call \in NoiseCalls, AddNoise(call)
    PROVE  SetupInv'
<1>. DEFINE v == Append(heap[noise.noises], RegistrationOf(call))
<1>1. /\ ~IsReadout(call) /\ NoiseAccepted(heap[noise.noises], call)
      /\ heap' = [heap EXCEPT ![noise.noises] = v]
      /\ noise' = noise /\ rules' = rules /\ held' = held /\ log' = log /\ lowered'.occurrence = <<>>
    BY DEF AddNoise, Edit, Nothing
<1>2. UserSound(heap, noise, rules, log) /\ HeldSound(heap, noise, rules, held)
    BY DEF SetupInv
<1>3. /\ IsSequence(heap) /\ UserFits(heap, noise, rules)
      /\ NoisesFit(heap[noise.noises]) /\ ReadoutsFit(heap[noise.readouts])
    BY <1>2 DEF UserSound
<1>4. EditOf(heap, noise.noises, v, heap')
    BY <1>1 DEF EditOf
<1>5. NoisesFit(v)
    BY <1>1, <1>3, NoiseListed
<1>6. noise.readouts \in NoiseCells(noise) /\ noise.noises \in NoiseCells(noise)
      /\ noise.noises # noise.readouts
    BY <1>3 DEF NoiseCells, UserFits, NoiseFits
<1>. HIDE DEF v
<1>7. /\ Edited(heap, noise, rules, heap') /\ SameMap(heap, rules, heap')
      /\ heap'[noise.noises] = v /\ heap'[noise.readouts] = heap[noise.readouts]
  <2>1. /\ Edited(heap, noise, rules, heap') /\ SameMap(heap, rules, heap')
        /\ heap'[noise.noises] = v
        /\ OthersSame(heap, NoiseCells(noise), noise.noises, heap')
      BY <1>3, <1>4, <1>6, NoiseEdit
  <2>. QED BY <2>1, <1>6 DEF OthersSame
<1>8. UserSound(heap', noise, rules, log)
    BY <1>2, <1>3, <1>5, <1>7 DEF UserSound, Edited, SameMap
<1>9. HeldSound(heap', noise, rules, held)
    BY <1>2, <1>7, AllKept DEF Edited
<1>. QED BY <1>1, <1>8, <1>9 DEF SetupInv, LoweredFits

LEMMA AcceptedForm ==
    ASSUME NEW call, RuleAccepted(call)
    PROVE  call.form # "removed"
    BY DEF RuleAccepted, RuleFormAccepted

LEMMA AddUniformStep ==
    ASSUME SetupInv, NEW call \in RuleCalls, AddUniform(call)
    PROVE  SetupInv'
<1>. DEFINE U == heap[rules.uniform]
            T == TableContents(heap, rules)
            v == Put2(U, call.class, call.rule)
            longer == Append(log, call)
<1>1. /\ ~Given(call.operands) /\ RuleAccepted(call)
      /\ heap' = [heap EXCEPT ![rules.uniform] = v]
      /\ noise' = noise /\ rules' = rules /\ held' = held /\ log' = longer /\ lowered'.occurrence = <<>>
    BY DEF AddUniform, Edit, Nothing
<1>2. UserSound(heap, noise, rules, log) /\ HeldSound(heap, noise, rules, held)
    BY DEF SetupInv
<1>3. /\ IsSequence(heap) /\ UserFits(heap, noise, rules) /\ IsSequence(log)
      /\ RulesFit(U, T) /\ IsItsLog(log, U, T)
    BY <1>2 DEF UserSound
<1>4. EditOf(heap, rules.uniform, v, heap')
    BY <1>1 DEF EditOf
<1>5. call.rule \notin Reserved /\ call.form # "removed"
    BY <1>1, RuleCallsAssumption, AcceptedForm DEF Reserved
<1>6. call.class \notin DOMAIN T
    BY <1>1 DEF RuleAccepted, TableContents
<1>. HIDE DEF U, T, longer
<1>7. IsItsLog(longer, v, T) /\ RulesFit(v, T)
    BY <1>1, <1>3, <1>5, <1>6, UniformLogged DEF longer
<1>8. IsSequence(longer)
    BY <1>3, AppendedCell DEF longer
<1>. HIDE DEF v
<1>9. /\ Edited(heap, noise, rules, heap') /\ SameNoise(heap, noise, heap')
      /\ heap'[rules.uniform] = v /\ TableContents(heap', rules) = T
    BY <1>3, <1>4, UniformEdit DEF T
<1>10. UserSound(heap', noise, rules, longer)
    BY <1>2, <1>7, <1>8, <1>9 DEF UserSound, Edited, SameNoise
<1>11. HeldSound(heap', noise, rules, held)
    BY <1>2, <1>9, AllKept DEF Edited
<1>. QED BY <1>1, <1>10, <1>11 DEF SetupInv, LoweredFits

LEMMA AddDeviceStep ==
    ASSUME SetupInv, NEW call \in RuleCalls, AddDevice(call)
    PROVE  SetupInv'
<1>. DEFINE U == heap[rules.uniform]
            D == heap[rules.devices]
            T == TableContents(heap, rules)
            T2 == TableContents(heap', rules)
            given == ValueOf(call.operands)
            table == Put2(IF call.class \in DOMAIN T THEN T[call.class] ELSE <<>>, given, call.rule)
            longer == Append(log, call)
<1>1. /\ Given(call.operands) /\ RuleAccepted(call)
      /\ heap' = IF call.class \in DOMAIN D
                 THEN [heap EXCEPT ![D[call.class]] = Put2(heap[D[call.class]], given, call.rule)]
                 ELSE Append([heap EXCEPT ![rules.devices] = Put2(D, call.class, Len(heap) + 1)],
                             Put2(<<>>, given, call.rule))
      /\ noise' = noise /\ rules' = rules /\ held' = held /\ log' = longer /\ lowered'.occurrence = <<>>
    BY DEF AddDevice, Edit, Nothing
<1>2. UserSound(heap, noise, rules, log) /\ HeldSound(heap, noise, rules, held)
    BY DEF SetupInv
<1>3. /\ IsSequence(heap) /\ UserFits(heap, noise, rules) /\ IsSequence(log)
      /\ RulesFit(U, T) /\ IsItsLog(log, U, T)
    BY <1>2 DEF UserSound
<1>4. DOMAIN T = DOMAIN D /\ \A c \in DOMAIN D : T[c] = heap[D[c]]
    BY DEF TableContents
<1>5. /\ call.rule \notin Reserved /\ call.form # "removed"
      /\ \A x, y \in call.operands : x = y
    BY <1>1, RuleCallsAssumption, AcceptedForm DEF Reserved
<1>6. call.class \notin DOMAIN U
    BY <1>1 DEF RuleAccepted
<1>. HIDE DEF U, T, T2, given, longer
<1>7. /\ Edited(heap, noise, rules, heap') /\ SameNoise(heap, noise, heap')
      /\ heap'[rules.uniform] = U /\ TablesWith(T, call.class, table, T2)
  <2>1. CASE call.class \in DOMAIN D
    <3>1. table = Put2(heap[D[call.class]], given, call.rule)
        BY <2>1, <1>4
    <3>2. EditOf(heap, D[call.class], table, heap')
        BY <2>1, <3>1, <1>1 DEF EditOf
    <3>. HIDE DEF table
    <3>. QED BY <2>1, <3>2, <1>3, TableEdit DEF U, T, T2
  <2>2. CASE call.class \notin DOMAIN D
    <3>. DEFINE E == Put2(D, call.class, Len(heap) + 1)
                mid == [heap EXCEPT ![rules.devices] = E]
    <3>1. table = Put2(<<>>, given, call.rule)
        BY <2>2, <1>4
    <3>2. EditOf(heap, rules.devices, E, mid) /\ LongerBy(mid, table, heap')
        BY <2>2, <3>1, <1>1 DEF EditOf, LongerBy
    <3>. HIDE DEF table, mid
    <3>. QED BY <2>2, <3>2, <1>3, TableAdded DEF U, T, T2
  <2>. QED BY <2>1, <2>2
<1>8. IsItsLog(longer, U, T2) /\ RulesFit(U, T2)
    BY <1>1, <1>3, <1>5, <1>6, <1>7, DeviceLogged DEF longer, given
<1>9. IsSequence(longer)
    BY <1>3, AppendedCell DEF longer
<1>10. UserSound(heap', noise, rules, longer)
    BY <1>2, <1>7, <1>8, <1>9 DEF UserSound, Edited, SameNoise, T2
<1>11. HeldSound(heap', noise, rules, held)
    BY <1>2, <1>7, AllKept DEF Edited
<1>. QED BY <1>1, <1>10, <1>11 DEF SetupInv, LoweredFits

LEMMA RemoveStep ==
    ASSUME SetupInv, NEW class \in Removable, Remove(class)
    PROVE  SetupInv'
<1>. DEFINE U == heap[rules.uniform]
            D == heap[rules.devices]
            T == TableContents(heap, rules)
            e == [class |-> class, form |-> "removed", operands |-> {}, rule |-> "none"]
            mid == [heap EXCEPT ![rules.uniform] = Without(U, class)]
            longer == Append(log, e)
<1>1. /\ heap' = [heap EXCEPT ![rules.uniform] = Without(@, class), ![rules.devices] = Without(@, class)]
      /\ noise' = noise /\ rules' = rules /\ held' = held /\ log' = longer /\ lowered'.occurrence = <<>>
    BY DEF Remove, Edit, Nothing
<1>2. UserSound(heap, noise, rules, log) /\ HeldSound(heap, noise, rules, held)
    BY DEF SetupInv
<1>3. /\ IsSequence(heap) /\ UserFits(heap, noise, rules) /\ IsSequence(log)
      /\ RulesFit(U, T) /\ IsItsLog(log, U, T)
    BY <1>2 DEF UserSound
<1>4. rules.uniform # rules.devices
    BY <1>3 DEF UserFits, MapFits
<1>5. EditOf(heap, rules.uniform, Without(U, class), mid)
    BY DEF EditOf
<1>6. EditOf(mid, rules.devices, Without(D, class), heap')
    BY <1>1, <1>4 DEF EditOf
<1>. HIDE DEF U, T, mid, longer
<1>7. /\ Edited(heap, noise, rules, heap') /\ SameNoise(heap, noise, heap')
      /\ heap'[rules.uniform] = Without(U, class)
      /\ TableContents(heap', rules) = Without(T, class)
    BY <1>3, <1>5, <1>6, ClassRemoved DEF U, T
<1>8. e.class = class /\ e.form = "removed"
    OBVIOUS
<1>. HIDE DEF e
<1>9. IsItsLog(longer, Without(U, class), Without(T, class))
      /\ RulesFit(Without(U, class), Without(T, class))
    BY <1>3, <1>8, RemovalLogged DEF longer
<1>10. IsSequence(longer)
    BY <1>3, AppendedCell DEF longer
<1>11. UserSound(heap', noise, rules, longer)
    BY <1>2, <1>7, <1>9, <1>10 DEF UserSound, Edited, SameNoise
<1>12. HeldSound(heap', noise, rules, held)
    BY <1>2, <1>7, AllKept DEF Edited
<1>. QED BY <1>1, <1>11, <1>12 DEF SetupInv, LoweredFits
LEMMA KeepOriginalStep ==
    ASSUME SetupInv, KeepOriginal
    PROVE  SetupInv'
<1>. DEFINE h == [kind |-> "kept", noise |-> noise, rules |-> rules,
                  contents |-> Contents(heap, noise, rules)]
            map2 == CopyOf(heap)
            more == Append(held, h)
<1>1. /\ heap' = Copied(heap, rules) /\ rules' = map2 /\ held' = more
      /\ noise' = noise /\ log' = log /\ lowered'.occurrence = <<>>
    BY DEF KeepOriginal, Nothing
<1>2. UserSound(heap, noise, rules, log) /\ HeldSound(heap, noise, rules, held)
    BY DEF SetupInv
<1>3. IsSequence(heap) /\ UserFits(heap, noise, rules)
    BY <1>2 DEF UserSound
<1>4. h.kind = "kept" /\ h.rules = rules /\ h.contents = Contents(heap, noise, rules)
    OBVIOUS
<1>. HIDE DEF h, map2
<1>5. /\ IsSequence(heap') /\ UserFits(heap', noise, map2)
      /\ EditsItsOwn(heap, noise, rules, heap', noise, map2) /\ SameNoise(heap, noise, heap')
      /\ heap'[map2.uniform] = heap[rules.uniform]
      /\ TableContents(heap', map2) = TableContents(heap, rules)
      /\ HeldFits(heap', noise, map2, h)
    BY <1>1, <1>3, <1>4, CopyTaken DEF map2
<1>6. UserSound(heap', noise, map2, log)
    BY <1>2, <1>5 DEF UserSound, SameNoise
<1>7. HeldSound(heap', noise, map2, held)
    BY <1>2, <1>5, AllKept
<1>8. HolderFits(h)
    BY <1>4 DEF HolderFits
<1>9. HeldSound(heap', noise, map2, more)
    BY <1>5, <1>7, <1>8, OneMoreHeld
<1>. QED BY <1>1, <1>6, <1>9 DEF SetupInv, LoweredFits

LEMMA HoldStep ==
    ASSUME SetupInv, NEW kind, Hold(kind),
           \A h : h.kind = kind /\ h.contents = Contents(heap, noise, rules) => HolderFits(h)
    PROVE  SetupInv'
<1>. DEFINE mid == Copied(heap, rules)
            h == [kind |-> kind, noise |-> NoiseCopyOf(mid), rules |-> CopyOf(heap),
                  contents |-> Contents(heap, noise, rules)]
            more == Append(held, h)
<1>1. /\ heap' = CopiedNoise(mid, noise) /\ held' = more /\ rules' = rules
      /\ noise' = noise /\ log' = log /\ lowered'.occurrence = <<>>
    BY DEF Hold, Nothing
<1>2. UserSound(heap, noise, rules, log) /\ HeldSound(heap, noise, rules, held)
    BY DEF SetupInv
<1>3. IsSequence(heap) /\ UserFits(heap, noise, rules)
    BY <1>2 DEF UserSound
<1>4. /\ h.kind = kind /\ h.noise = NoiseCopyOf(mid) /\ h.rules = CopyOf(heap)
      /\ h.contents = Contents(heap, noise, rules)
    OBVIOUS
<1>. HIDE DEF h
<1>5. /\ Edited(heap, noise, rules, heap') /\ SameNoise(heap, noise, heap')
      /\ SameMap(heap, rules, heap') /\ HeldFits(heap', noise, rules, h)
    BY <1>1, <1>3, <1>4, CopiesGiven
<1>6. UserSound(heap', noise, rules, log)
    BY <1>2, <1>5 DEF UserSound, Edited, SameNoise, SameMap
<1>7. HeldSound(heap', noise, rules, held)
    BY <1>2, <1>5, AllKept DEF Edited
<1>8. HolderFits(h)
    BY <1>4
<1>9. HeldSound(heap', noise, rules, more)
    BY <1>5, <1>7, <1>8, OneMoreHeld
<1>. QED BY <1>1, <1>6, <1>9 DEF SetupInv, LoweredFits

\* What a constructor gives is what the user has, and validation read it.
LEMMA ContentsAre ==
    ASSUME NEW h, h.contents = Contents(heap, noise, rules)
    PROVE  /\ h.contents.noises = heap[noise.noises] /\ h.contents.readouts = heap[noise.readouts]
           /\ h.contents.uniform = heap[rules.uniform]
           /\ h.contents.devices = TableContents(heap, rules)
    BY DEF Contents, TableContents

LEMMA ConstructStep ==
    ASSUME SetupInv, Construct
    PROVE  SetupInv'
<1>1. /\ NoisesFit(heap[noise.noises]) /\ ReadoutsFit(heap[noise.readouts])
      /\ RulesFit(heap[rules.uniform], TableContents(heap, rules))
    BY DEF SetupInv, UserSound
<1>2. \A k \in DOMAIN heap[noise.noises] : ~Rejected(heap, rules, heap[noise.noises][k])
    BY DEF Construct
<1>3. ASSUME NEW h, h.kind = "simulator", h.contents = Contents(heap, noise, rules)
      PROVE  HolderFits(h)
  <2>1. /\ h.contents.noises = heap[noise.noises] /\ h.contents.readouts = heap[noise.readouts]
        /\ h.contents.uniform = heap[rules.uniform]
        /\ h.contents.devices = TableContents(heap, rules)
      BY <1>3, ContentsAre
  <2>2. ASSUME NEW k \in DOMAIN h.contents.noises
        PROVE  RunsOnMatrices(h.contents, h.contents.noises[k])
    <3>. DEFINE r == heap[noise.noises][k]
    <3>1. ~Rejected(heap, rules, r)
        BY <1>2, <2>1
    <3>2. Supports(heap, rules, r.decl.type)
             <=> r.decl.type \in DOMAIN heap[rules.uniform]
                 \/ r.decl.type \in DOMAIN TableContents(heap, rules)
        BY ReadThroughContents
    <3>. HIDE DEF r
    <3>3. RunsOnMatrices(h.contents, r)
        BY <2>1, <3>1, <3>2 DEF Rejected, RunsOnMatrices
    <3>. QED BY <2>1, <3>3 DEF r
  <2>. QED BY <1>1, <1>3, <2>1, <2>2 DEF HolderFits
<1>. QED BY <1>3, HoldStep DEF Construct

LEMMA ConstructEmulatorStep ==
    ASSUME SetupInv, NEW name \in DOMAIN Families, ConstructEmulator(name)
    PROVE  SetupInv'
<1>1. /\ NoisesFit(heap[noise.noises]) /\ ReadoutsFit(heap[noise.readouts])
      /\ RulesFit(heap[rules.uniform], TableContents(heap, rules))
    BY DEF SetupInv, UserSound
<1>2. \A k \in DOMAIN heap[noise.noises] : ~GeneratorRejected(Families[name], heap[noise.noises][k])
    BY DEF ConstructEmulator
<1>3. name # "kept" /\ name # "simulator"
    BY DEF Families
<1>4. ASSUME NEW h, h.kind = name, h.contents = Contents(heap, noise, rules)
      PROVE  HolderFits(h)
  <2>1. /\ h.contents.noises = heap[noise.noises] /\ h.contents.readouts = heap[noise.readouts]
        /\ h.contents.uniform = heap[rules.uniform]
        /\ h.contents.devices = TableContents(heap, rules)
      BY <1>4, ContentsAre
  <2>. QED BY <1>1, <1>2, <1>3, <1>4, <2>1 DEF HolderFits
<1>. QED BY <1>4, HoldStep DEF ConstructEmulator

LEMMA LowerStep ==
    ASSUME SetupInv, NEW k \in DOMAIN held, NEW occurrence \in Occurrences, Lower(k, occurrence)
    PROVE  SetupInv'
<1>1. /\ held[k].kind # "kept"
      /\ lowered' = [LoweredIn(heap, held[k], occurrence) EXCEPT !.occurrence = <<held[k], occurrence>>]
      /\ heap' = heap /\ noise' = noise /\ rules' = rules /\ held' = held /\ log' = log
    BY LoweredIsIn DEF Lower
<1>2. LoweredFits(heap', held', lowered')
    BY <1>1 DEF LoweredFits
<1>. QED BY <1>1, <1>2 DEF SetupInv

\* The invariant of every state: the user's cells are his alone, what is held says what it
\* said, the map is its log, and an occurrence was lowered on the heap as it is.
THEOREM SetupInvariant == Spec => []SetupInv
<1>1. Init => SetupInv
    BY SetupHoldsAtFirst
<1>2. SetupInv /\ [Next]_vars => SetupInv'
  <2>. SUFFICES ASSUME SetupInv, [Next]_vars PROVE SetupInv'
      OBVIOUS
  <2>1. CASE UNCHANGED vars
      BY <2>1 DEF vars, SetupInv
  <2>2. ASSUME NEW call \in NoiseCalls, AddReadout(call) PROVE SetupInv'
      BY <2>2, AddReadoutStep
  <2>3. ASSUME NEW call \in NoiseCalls, AddNoise(call) PROVE SetupInv'
      BY <2>3, AddNoiseStep
  <2>4. ASSUME NEW call \in RuleCalls, AddUniform(call) PROVE SetupInv'
      BY <2>4, AddUniformStep
  <2>5. ASSUME NEW call \in RuleCalls, AddDevice(call) PROVE SetupInv'
      BY <2>5, AddDeviceStep
  <2>6. ASSUME NEW class \in Removable, Remove(class) PROVE SetupInv'
      BY <2>6, RemoveStep
  <2>7. CASE KeepOriginal
      BY <2>7, KeepOriginalStep
  <2>8. CASE Construct
      BY <2>8, ConstructStep
  <2>9. ASSUME NEW name \in DOMAIN Families, ConstructEmulator(name) PROVE SetupInv'
      BY <2>9, ConstructEmulatorStep
  <2>10. ASSUME NEW k \in DOMAIN held, NEW occurrence \in Occurrences, Lower(k, occurrence)
         PROVE  SetupInv'
      BY <2>10, LowerStep
  <2>. QED BY <2>1, <2>2, <2>3, <2>4, <2>5, <2>6, <2>7, <2>8, <2>9, <2>10 DEF Next
<1>. QED BY <1>1, <1>2, PTL DEF Spec
-----------------------------------------------------------------------------
(* What the invariant says of maps and runs.                               *)

LEMMA LogRead ==
    ASSUME NEW class, NEW operands
    PROVE  /\ Since(class) = SinceIn(log, class) /\ (StillDefault(class) <=> DefaultIn(log, class))
           /\ RuleByLog(class, operands) = RuleIn(log, class, operands)
<1>1. Removals(class) = RemovalsIn(log, class)
    BY DEF Removals, RemovalsIn
<1>2. Since(class) = SinceIn(log, class)
    BY <1>1 DEF Since, SinceIn
<1>3. StillDefault(class) <=> DefaultIn(log, class)
    BY <1>1 DEF StillDefault, DefaultIn
<1>4. {k \in Since(class) : ~Given(log[k].operands) \/ operands \in log[k].operands}
         = Covering(log, class, operands)
    BY <1>2 DEF Covering, Covers
<1>5. RuleByLog(class, operands) = RuleIn(log, class, operands)
  <2>. DEFINE C == {k \in Since(class) : ~Given(log[k].operands) \/ operands \in log[k].operands}
  <2>1. RuleByLog(class, operands) =
           IF C # {} THEN log[LastOf(C)].rule
           ELSE IF StillDefault(class) THEN "builtin" ELSE "none"
      BY DEF RuleByLog, LastOf
  <2>2. C = Covering(log, class, operands)
      BY <1>4
  <2>. HIDE DEF C
  <2>. QED BY <2>1, <2>2, <1>3 DEF RuleIn
<1>. QED BY <1>2, <1>3, <1>5

LEMMA EditsFromInvariant ==
    ASSUME SetupInv
    PROVE  MapsAreTheirEdits
<1>1. UserSound(heap, noise, rules, log) /\ HeldSound(heap, noise, rules, held)
    BY DEF SetupInv
<1>2. HeldStayFrozen
  <2>. SUFFICES ASSUME NEW k \in DOMAIN held
                PROVE  LET now == Contents(heap, held[k].noise, held[k].rules)
                       IN  /\ now.uniform = held[k].contents.uniform
                           /\ now.devices = held[k].contents.devices
                           /\ held[k].kind # "kept" => now = held[k].contents
      BY DEF HeldStayFrozen
  <2>. DEFINE h == held[k]
              now == Contents(heap, h.noise, h.rules)
  <2>1. HeldFits(heap, noise, rules, h)
      BY <1>1 DEF HeldSound
  <2>2. now.uniform = heap[h.rules.uniform] /\ now.devices = TableContents(heap, h.rules)
      BY DEF Contents, TableContents
  <2>. HIDE DEF h
  <2>3. /\ heap[h.rules.uniform] = h.contents.uniform
        /\ TableContents(heap, h.rules) = h.contents.devices
        /\ h.kind # "kept" => now = h.contents
      BY <2>1 DEF HeldFits
  <2>. HIDE DEF now
  <2>. QED BY <2>2, <2>3 DEF h, now
<1>3. MapIsItsEdits
  <2>. DEFINE U == heap[rules.uniform]
              T == TableContents(heap, rules)
  <2>1. IsItsLog(log, U, T)
      BY <1>1 DEF UserSound
  <2>. HIDE DEF U, T
  <2>2. ASSUME NEW c, NEW o PROVE ImplementationFor(heap, rules, c, o) = RuleByLog(c, o)
    <3>1. ImplementationFor(heap, rules, c, o) = RuleOf(U, T, c, o)
        BY ReadThroughContents DEF U, T
    <3>2. RuleOf(U, T, c, o) = RuleIn(log, c, o)
        BY <2>1 DEF IsItsLog
    <3>3. RuleByLog(c, o) = RuleIn(log, c, o)
        BY LogRead
    <3>. QED BY <3>1, <3>2, <3>3
  <2>3. ASSUME NEW c
        PROVE  /\ Supports(heap, rules, c) <=> Since(c) # {} \/ StillDefault(c)
               /\ \A j, k \in Since(c) : Given(log[j].operands) <=> Given(log[k].operands)
    <3>1. Supports(heap, rules, c) <=> c \in DOMAIN U \/ c \in DOMAIN T
        BY ReadThroughContents DEF U, T
    <3>2. /\ c \in DOMAIN U \/ c \in DOMAIN T <=> SinceIn(log, c) # {} \/ DefaultIn(log, c)
          /\ \A k \in SinceIn(log, c) : Given(log[k].operands) <=> c \in DOMAIN T
        BY <2>1 DEF IsItsLog
    <3>3. Since(c) = SinceIn(log, c) /\ (StillDefault(c) <=> DefaultIn(log, c))
        BY LogRead
    <3>. QED BY <3>1, <3>2, <3>3
  <2>. QED BY <2>2, <2>3 DEF MapIsItsEdits
<1>. QED BY <1>2, <1>3 DEF MapsAreTheirEdits

\* The occurrence that was lowered last, and what was made of it.
LEMMA LastLowered ==
    ASSUME SetupInv, IsLowered
    PROVE  \E h, o, r :
              /\ h.kind # "kept" /\ HolderFits(h) /\ ReadsAs(heap, h) /\ o \in Occurrences
              /\ lowered.occurrence[1] = h /\ lowered.occurrence[2] = o
              /\ LoweringSound(h, o, r)
              /\ lowered.error = r.error /\ lowered.channels = r.channels
<1>1. PICK k \in DOMAIN held, o \in Occurrences :
         /\ held[k].kind # "kept"
         /\ lowered = [LoweredIn(heap, held[k], o) EXCEPT !.occurrence = <<held[k], o>>]
    BY DEF SetupInv, LoweredFits, IsLowered
<1>. DEFINE h == held[k]
            r == LoweredIn(heap, h, o)
<1>2. HeldFits(heap, noise, rules, h) /\ HolderFits(h)
    BY DEF SetupInv, HeldSound
<1>3. ReadsAs(heap, h)
    BY <1>1, <1>2, HeldReads
<1>4. LoweringSound(h, o, r)
    BY <1>1, <1>2, <1>3, LoweringIsSound
<1>5. lowered = [r EXCEPT !.occurrence = <<h, o>>]
    BY <1>1
<1>. HIDE DEF h, r
<1>6. r = Outcome(r.occurrence, r.error, r.rule, r.channels)
    BY <1>4 DEF LoweringSound, IsOutcome
<1>7. lowered = Outcome(<<h, o>>, r.error, r.rule, r.channels)
  <2>1. [Outcome(r.occurrence, r.error, r.rule, r.channels) EXCEPT !.occurrence = <<h, o>>]
           = Outcome(<<h, o>>, r.error, r.rule, r.channels)
      BY DEF Outcome
  <2>. QED BY <2>1, <1>5, <1>6
<1>8. /\ lowered.occurrence = <<h, o>> /\ lowered.error = r.error /\ lowered.channels = r.channels
    BY <1>7 DEF Outcome
<1>9. lowered.occurrence[1] = h /\ lowered.occurrence[2] = o
    BY <1>8
<1>10. h.kind # "kept"
    BY <1>1 DEF h
<1>. QED BY <1>2, <1>3, <1>4, <1>8, <1>9, <1>10

LEMMA DeclarationsFromInvariant ==
    ASSUME SetupInv
    PROVE  DeclarationsUnambiguous
<1>1. CASE ~IsLowered
    BY <1>1 DEF DeclarationsUnambiguous, NoiseUnambiguous, ReadoutsUnambiguous
<1>2. CASE IsLowered
  <2>1. PICK h, o, r :
           /\ h.kind # "kept" /\ HolderFits(h) /\ ReadsAs(heap, h) /\ o \in Occurrences
           /\ lowered.occurrence[1] = h /\ lowered.occurrence[2] = o
           /\ LoweringSound(h, o, r)
           /\ lowered.error = r.error /\ lowered.channels = r.channels
      BY <1>2, LastLowered
  <2>. DEFINE noises == h.contents.noises
              readouts == h.contents.readouts
              targets == o.targets
  <2>2. /\ heap[lowered.occurrence[1].noise.noises] = noises
        /\ heap[lowered.occurrence[1].noise.readouts] = readouts
      BY <2>1 DEF ReadsAs
  <2>3. TargetsFit(targets)
      BY <2>1, OccurrencesAssumption DEF TargetsFit, Refs
  <2>4. NoisesFit(noises)
      BY <2>1 DEF HolderFits
  <2>. HIDE DEF noises, readouts, targets
  <2>5. NoiseUnambiguous
    <3>. SUFFICES ASSUME o.op # "measure" PROVE NoiseUnambiguous
        BY <2>1 DEF NoiseUnambiguous
    <3>1. AnswerFits(lowered.channels, noises)
        BY <2>1 DEF LoweringSound, ChannelsFit, noises
    <3>2. ActOnce(lowered.channels) /\ ActAsWide(lowered.channels)
        BY <3>1 DEF AnswerFits
    <3>3. ASSUME lowered.error = "ambiguous", o.op # "background"
          PROVE  \E j, k \in Matching(noises, o.op, targets, Layout) :
                    IsRefSelector(noises[j].selector) /\ ~IsRefSelector(noises[k].selector)
      <4>1. Ambiguous(noises, Matching(noises, o.op, targets, Layout))
          BY <3>3, <2>1 DEF LoweringSound, noises, targets
      <4>. QED BY <4>1, <2>3, <2>4, RefAgainstLabel
    <3>. QED BY <3>2, <3>3, <2>1, <2>2 DEF NoiseUnambiguous, ActOnce, ActAsWide, targets
  <2>6. ReadoutsUnambiguous
    <3>. DEFINE R == heap[lowered.occurrence[1].noise.readouts]
                t == lowered.occurrence[2].targets
                given(k) == {R[m].decl : m \in
                               {n \in DOMAIN R :
                                  R[n].selector = <<>> \/ t[k] = R[n].selector[1]
                                  \/ R[n].selector[1] = LabelsOf(t, Layout)[k]}}
    <3>1. R = readouts /\ t = targets
        BY <2>1, <2>2 DEF targets
    <3>2. ASSUME o.op = "measure", lowered.error = "none", NEW k \in DOMAIN t
          PROVE  /\ Cardinality(given(k)) <= 1
                 /\ (IF lowered.channels = <<>> THEN {} ELSE lowered.channels[k]) = given(k)
      <4>. HIDE DEF R, t
      <4>1. ReadoutsSound(lowered, R, t)
        <5>1. ReadoutsSound(r, R, t)
            BY <2>1, <3>1, <3>2 DEF LoweringSound, readouts, targets
        <5>. QED BY <5>1, <2>1 DEF ReadoutsSound
      <4>2. LabelsOf(t, Layout)[k] = [kind |-> "label", id |-> Layout[t[k].id]]
          BY <3>2 DEF LabelsOf
      <4>3. given(k) = {R[m].decl : m \in ReadoutsOf(R, t[k])}
          BY <4>2 DEF ReadoutsOf
      <4>. HIDE DEF given
      <4>. QED BY <4>1, <4>3, <3>2 DEF ReadoutsSound
    <3>3. IsLowered /\ lowered.occurrence[2].op = "measure" /\ lowered.error = "none" =>
             \A k \in DOMAIN t :
                /\ Cardinality(given(k)) <= 1
                /\ (IF lowered.channels = <<>> THEN {} ELSE lowered.channels[k]) = given(k)
      <4>. HIDE DEF given, t
      <4>. QED BY <2>1, <3>2
    <3>. QED BY <3>3, Zenon DEF ReadoutsUnambiguous
  <2>. QED BY <2>5, <2>6 DEF DeclarationsUnambiguous
<1>. QED BY <1>1, <1>2

LEMMA ValidationFromInvariant ==
    ASSUME SetupInv
    PROVE  ValidationSuffices
<1>1. CASE ~IsLowered
    BY <1>1 DEF ValidationSuffices
<1>2. CASE IsLowered
  <2>1. PICK h, o, r :
           /\ h.kind # "kept" /\ HolderFits(h) /\ ReadsAs(heap, h) /\ o \in Occurrences
           /\ lowered.occurrence[1] = h /\ lowered.occurrence[2] = o
           /\ LoweringSound(h, o, r)
           /\ lowered.error = r.error /\ lowered.channels = r.channels
      BY <1>2, LastLowered
  <2>2. /\ heap[h.noise.noises] = h.contents.noises
        /\ DOMAIN heap[h.rules.devices] = DOMAIN h.contents.devices
      BY <2>1 DEF ReadsAs, TableContents
  <2>3. lowered.error = "no channel rule" =>
           \E k \in DOMAIN h.contents.noises :
              h.contents.noises[k].decl.type \in DOMAIN h.contents.devices
      BY <2>1 DEF LoweringSound
  <2>4. o.op # "measure" => StrengthsFit(lowered.channels)
      BY <2>1 DEF LoweringSound, ChannelsFit
  <2>. QED BY <2>1, <2>2, <2>3, <2>4 DEF ValidationSuffices, StrengthsFit
<1>. QED BY <1>1, <1>2

\* What a simulator or a map set aside was given it keeps, whatever is edited afterwards, and
\* the user's map is its edits: the rule of every class and operands is that of the last add
\* that covers them since the last remove (copy() of base_map.py and of model.py).
THEOREM MapsStayTheirEdits == Spec => []MapsAreTheirEdits
    BY SetupInvariant, EditsFromInvariant, PTL

\* No occurrence is noisy twice over: of one kind at most one channel acts on a subsystem,
\* each as wide as it was declared; what is refused as ambiguous is a registration by ref
\* beside one by label; and a measured target is confused by the one matrix declared for it
\* (the conflicts add() refuses, and what is left for the answers to refuse).
THEOREM NoDoubleNoise == Spec => []DeclarationsUnambiguous
    BY SetupInvariant, DeclarationsFromInvariant, PTL

\* What a constructor accepted is not refused later for want of a rule, unless the channel
\* has rules for devices alone, and its strength is the one the rules ask for.
THEOREM ValidationIsEnough == Spec => []ValidationSuffices
    BY SetupInvariant, ValidationFromInvariant, PTL
=============================================================================
