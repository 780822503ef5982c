---------------------- MODULE ProgramAuthoring_proofs ----------------------
(***************************************************************************)
(* Programs hold what their calls asked for, grouped operations never act  *)
(* on one slot twice and sweeps bind every column to its parameter, for    *)
(* registers and grids of every size and any calls.                        *)
(***************************************************************************)
EXTENDS ProgramAuthoring, SequenceTheorems, FiniteSetTheorems, FunctionTheorems,
        WellFoundedInduction, TLAPS

----------------------------------------------------------------------------
(* The row-major numbering of a grid.                                      *)

\* A cell of a grid has a number within the grid.
LEMMA CellInRange ==
    ASSUME NEW rows \in Nat, NEW cols \in Nat,
           NEW r \in 0..(rows - 1), NEW c \in 0..(cols - 1)
    PROVE  r * cols + c \in 0..(rows * cols - 1)
<1>. DEFINE x == r * cols
            y == rows * cols
            z == (rows - 1 - r) * cols
<1>1. z >= 0 /\ x >= 0 /\ x \in Int /\ y \in Int /\ z \in Int
  <2>1. rows - 1 - r >= 0
      OBVIOUS
  <2>. QED BY <2>1
<1>2. y = z + x + cols
    OBVIOUS
<1>. HIDE DEF x, y, z
<1>3. x + c \in 0..(y - 1)
    BY <1>1, <1>2
<1>. QED BY <1>3 DEF x, y

\* Different cells have different numbers.
LEMMA CellIsUnique ==
    ASSUME NEW cols \in Nat, NEW r \in Int, NEW s \in Int,
           NEW c \in 0..(cols - 1), NEW d \in 0..(cols - 1),
           r * cols + c = s * cols + d
    PROVE  r = s /\ c = d
OBVIOUS

\* The cell of the k-th member of a block.
LEMMA CellOfMember ==
    ASSUME NEW width \in Nat \ {0}, NEW height \in Nat, NEW k \in 0..(height * width - 1)
    PROVE  /\ k \div width \in 0..(height - 1) /\ k % width \in 0..(width - 1)
           /\ k = (k \div width) * width + (k % width)
<1>1. k \in Nat /\ k < height * width
    OBVIOUS
<1>2. k \div width \in Nat /\ k % width \in 0..(width - 1)
      /\ k = (k \div width) * width + (k % width)
    BY <1>1
<1>3. k \div width < height
    BY <1>1
<1>. QED BY <1>2, <1>3
----------------------------------------------------------------------------
(* Views.                                                                  *)

\* A view of an existing register, its ranges integers.
IsSelection(v) ==
    /\ v.reg \in DOMAIN Registers /\ ViewExists(v)
    /\ v.kind = "block" => \A i \in 1..4 : v.at[i] \in Int

\* Members are slots of the view's register, each once.
GoodMembers(v) ==
    LET m == Members(v) IN
    /\ IsList(m)
    /\ \A k \in DOMAIN m : m[k] = Ref(v.reg, m[k].index) /\ m[k].index \in 0..(Size(v.reg) - 1)
    /\ \A k, l \in DOMAIN m : k # l => m[k] # m[l]

LEMMA AllMembers ==
    ASSUME NEW v, v.kind = "all"
    PROVE  Members(v) = [k \in 1..Size(v.reg) |-> Ref(v.reg, k - 1)]
BY DEF Members

LEMMA RowMembers ==
    ASSUME NEW v, v.kind = "row"
    PROVE  Members(v) = [k \in 1..Registers[v.reg].cols |->
                           Ref(v.reg, v.at * Registers[v.reg].cols + k - 1)]
BY DEF Members

LEMMA ColumnMembers ==
    ASSUME NEW v, v.kind = "column"
    PROVE  Members(v) = [k \in 1..Registers[v.reg].rows |->
                           Ref(v.reg, (k - 1) * Registers[v.reg].cols + v.at)]
BY DEF Members

LEMMA BlockMembers ==
    ASSUME NEW v, v.kind = "block"
    PROVE  Members(v) =
             [k \in 1..((v.at[2] - v.at[1]) * (v.at[4] - v.at[3])) |->
                Ref(v.reg, (v.at[1] + (k - 1) \div (v.at[4] - v.at[3])) * Registers[v.reg].cols
                           + v.at[3] + ((k - 1) % (v.at[4] - v.at[3])))]
BY DEF Members
\* A function on 1..n is a list of length n.
LEMMA FunctionIsList ==
    ASSUME NEW n \in Nat, NEW q, q = [k \in 1..n |-> q[k]]
    PROVE  IsList(q) /\ Len(q) = n /\ DOMAIN q = 1..n /\ q \in Seq({q[k] : k \in 1..n})
<1>. DEFINE S == {q[k] : k \in 1..n}
<1>1. q \in [1..n -> S]
    OBVIOUS
<1>2. q \in Seq(S)
    BY <1>1 DEF Seq
<1>3. Len(q) = n
    BY <1>1, <1>2
<1>. QED BY <1>1, <1>2, <1>3 DEF IsList

\* Slots numbered without repetition within a register.
LEMMA NumberedMembers ==
    ASSUME NEW v, NEW n \in Nat, NEW place,
           Members(v) = [k \in 1..n |-> Ref(v.reg, place[k])],
           \A k \in 1..n : place[k] \in 0..(Size(v.reg) - 1),
           \A k, l \in 1..n : place[k] = place[l] => k = l
    PROVE  GoodMembers(v) /\ DOMAIN Members(v) = 1..n
<1>. DEFINE m == Members(v)
<1>1. m = [k \in 1..n |-> m[k]]
    OBVIOUS
<1>2. \A k \in 1..n : m[k] = Ref(v.reg, place[k]) /\ m[k].index = place[k]
    BY DEF Ref
<1>. HIDE DEF m
<1>3. IsList(m) /\ DOMAIN m = 1..n
    BY <1>1, FunctionIsList
<1>4. \A k \in 1..n : m[k] = Ref(v.reg, m[k].index) /\ m[k].index \in 0..(Size(v.reg) - 1)
    BY <1>2
<1>5. \A k, l \in 1..n : k # l => m[k] # m[l]
    BY <1>2
<1>. QED BY <1>3, <1>4, <1>5 DEF GoodMembers, m

LEMMA RegisterShape ==
    ASSUME NEW reg \in DOMAIN Registers
    PROVE  /\ Registers[reg].rows \in Nat \ {0} /\ Registers[reg].cols \in Nat \ {0}
           /\ Size(reg) = Registers[reg].rows * Registers[reg].cols /\ Size(reg) \in Nat
<1>1. Registers[reg].rows \in Nat \ {0} /\ Registers[reg].cols \in Nat \ {0}
    BY AuthoringAssumption
<1>. DEFINE r == Registers[reg].rows
            c == Registers[reg].cols
<1>2. Size(reg) = r * c
    BY DEF Size
<1>. HIDE DEF r, c
<1>3. r \in Nat /\ c \in Nat
    BY <1>1 DEF r, c
<1>4. r * c \in Nat
    BY <1>3
<1>. QED BY <1>1, <1>2, <1>4 DEF r, c

\* The cell of the k-th member of a block.
BlockRow(v, k) == v.at[1] + (k - 1) \div (v.at[4] - v.at[3])
BlockColumn(v, k) == v.at[3] + ((k - 1) % (v.at[4] - v.at[3]))

\* The members of a block lie within its ranges, each in a cell of its own.
LEMMA BlockCells ==
    ASSUME NEW v, IsSelection(v), v.kind = "block"
    PROVE  LET rows == Registers[v.reg].rows
               cols == Registers[v.reg].cols
               n == (v.at[2] - v.at[1]) * (v.at[4] - v.at[3])
           IN  /\ n \in Nat
               /\ Members(v) = [k \in 1..n |->
                                  Ref(v.reg, BlockRow(v, k) * cols + BlockColumn(v, k))]
               /\ \A k \in 1..n : /\ BlockRow(v, k) \in v.at[1]..(v.at[2] - 1)
                                   /\ BlockColumn(v, k) \in v.at[3]..(v.at[4] - 1)
                                   /\ BlockRow(v, k) \in 0..(rows - 1)
                                   /\ BlockColumn(v, k) \in 0..(cols - 1)
               /\ \A k, l \in 1..n :
                     BlockRow(v, k) = BlockRow(v, l) /\ BlockColumn(v, k) = BlockColumn(v, l)
                       => k = l
<1>. DEFINE rows == Registers[v.reg].rows
            cols == Registers[v.reg].cols
            width == v.at[4] - v.at[3]
            height == v.at[2] - v.at[1]
            n == height * width
            r(k) == v.at[1] + (k - 1) \div width
            c(k) == v.at[3] + ((k - 1) % width)
<1>0. rows \in Nat \ {0} /\ cols \in Nat \ {0}
    BY RegisterShape DEF IsSelection
<1>1. /\ v.at[1] \in Int /\ v.at[2] \in Int /\ v.at[3] \in Int /\ v.at[4] \in Int
      /\ 0 <= v.at[1] /\ v.at[1] < v.at[2] /\ v.at[2] <= rows
      /\ 0 <= v.at[3] /\ v.at[3] < v.at[4] /\ v.at[4] <= cols
    BY DEF IsSelection, ViewExists, InRange
<1>. HIDE DEF rows, cols
<1>2. width \in Nat \ {0} /\ height \in Nat /\ n \in Nat
    BY <1>1
<1>3. Members(v) = [k \in 1..n |-> Ref(v.reg, r(k) * cols + c(k))]
  <2>1. \A k \in 1..n : r(k) * cols + c(k) = r(k) * cols + v.at[3] + ((k - 1) % width)
    <3>. SUFFICES ASSUME NEW k \in 1..n
                  PROVE  r(k) * cols + c(k) = r(k) * cols + v.at[3] + ((k - 1) % width)
        OBVIOUS
    <3>1. r(k) \in Int /\ (k - 1) % width \in Int
        BY <1>1, <1>2
    <3>. DEFINE x == r(k) * cols
                y == (k - 1) % width
    <3>2. x \in Int /\ y \in Int
        BY <1>0, <3>1
    <3>. HIDE DEF x, y
    <3>3. x + (v.at[3] + y) = x + v.at[3] + y
        BY <1>1, <3>2
    <3>. QED BY <3>3 DEF x, y
  <2>. QED BY <2>1, BlockMembers DEF cols
<1>4. \A k \in 1..n :
         /\ (k - 1) \div width \in 0..(height - 1) /\ (k - 1) % width \in 0..(width - 1)
         /\ k - 1 = ((k - 1) \div width) * width + ((k - 1) % width)
  <2>1. \A k \in 1..n : k - 1 \in 0..(n - 1)
      BY <1>2
  <2>. HIDE DEF width, height
  <2>. QED BY <1>2, <2>1, CellOfMember DEF n
<1>5. \A k \in 1..n : /\ r(k) \in v.at[1]..(v.at[2] - 1) /\ c(k) \in v.at[3]..(v.at[4] - 1)
                      /\ r(k) \in 0..(rows - 1) /\ c(k) \in 0..(cols - 1)
  <2>. SUFFICES ASSUME NEW k \in 1..n
                PROVE  /\ r(k) \in v.at[1]..(v.at[2] - 1) /\ c(k) \in v.at[3]..(v.at[4] - 1)
                       /\ r(k) \in 0..(rows - 1) /\ c(k) \in 0..(cols - 1)
      OBVIOUS
  <2>. DEFINE x == (k - 1) \div width
              y == (k - 1) % width
  <2>1. x \in 0..(height - 1) /\ y \in 0..(width - 1)
      BY <1>4
  <2>. HIDE DEF x, y
  <2>2. /\ v.at[1] + x \in v.at[1]..(v.at[2] - 1) /\ v.at[3] + y \in v.at[3]..(v.at[4] - 1)
        /\ v.at[1] + x \in 0..(rows - 1) /\ v.at[3] + y \in 0..(cols - 1)
      BY <1>0, <1>1, <2>1
  <2>. QED BY <2>2 DEF x, y
<1>6. \A k, l \in 1..n : r(k) = r(l) /\ c(k) = c(l) => k = l
  <2>. SUFFICES ASSUME NEW k \in 1..n, NEW l \in 1..n, r(k) = r(l), c(k) = c(l)
                PROVE  k = l
      OBVIOUS
  <2>. DEFINE x == (k - 1) \div width
              y == (k - 1) % width
              x2 == (l - 1) \div width
              y2 == (l - 1) % width
  <2>1. x \in Int /\ y \in Int /\ x2 \in Int /\ y2 \in Int
        /\ k - 1 = x * width + y /\ l - 1 = x2 * width + y2
      BY <1>2, <1>4
  <2>2. v.at[1] + x = v.at[1] + x2 /\ v.at[3] + y = v.at[3] + y2
      OBVIOUS
  <2>. HIDE DEF x, y, x2, y2
  <2>3. x = x2 /\ y = y2
      BY <1>1, <2>1, <2>2
  <2>4. k - 1 = l - 1
      BY <2>1, <2>3
  <2>. QED BY <1>2, <2>4
<1>. QED BY <1>2, <1>3, <1>5, <1>6 DEF BlockRow, BlockColumn, rows, cols

\* Every view selects slots of its register, each once.
LEMMA MembersAreGood ==
    ASSUME NEW v, IsSelection(v)
    PROVE  GoodMembers(v)
<1>. DEFINE rows == Registers[v.reg].rows
            cols == Registers[v.reg].cols
<1>1. /\ rows \in Nat \ {0} /\ cols \in Nat \ {0}
      /\ Size(v.reg) = rows * cols /\ Size(v.reg) \in Nat
    BY RegisterShape DEF IsSelection
<1>. HIDE DEF rows, cols
<1>2. CASE v.kind = "all"
  <2>. DEFINE n == Size(v.reg)
              place == [k \in 1..n |-> k - 1]
  <2>1. Members(v) = [k \in 1..n |-> Ref(v.reg, place[k])]
      BY <1>2, AllMembers
  <2>2. n \in Nat
      BY <1>1
  <2>. HIDE DEF n
  <2>3. /\ \A k \in 1..n : place[k] \in 0..(n - 1)
        /\ \A k, l \in 1..n : place[k] = place[l] => k = l
      BY <2>2
  <2>. HIDE DEF place
  <2>. QED BY <2>1, <2>2, <2>3, NumberedMembers DEF n
<1>3. CASE v.kind = "row"
  <2>. DEFINE place == [k \in 1..cols |-> v.at * cols + k - 1]
  <2>1. Members(v) = [k \in 1..cols |-> Ref(v.reg, place[k])]
      BY <1>3, RowMembers DEF cols
  <2>2. v.at \in 0..(rows - 1)
      BY <1>3 DEF IsSelection, ViewExists, rows
  <2>3. \A k \in 1..cols : k - 1 \in 0..(cols - 1) /\ place[k] = v.at * cols + (k - 1)
      BY <1>1, <2>2
  <2>. HIDE DEF place
  <2>4. \A k \in 1..cols : place[k] \in 0..(rows * cols - 1)
      BY <1>1, <2>2, <2>3, CellInRange
  <2>5. \A k, l \in 1..cols : place[k] = place[l] => k = l
      BY <1>1, <2>2, <2>3
  <2>. QED BY <1>1, <2>1, <2>4, <2>5, NumberedMembers
<1>4. CASE v.kind = "column"
  <2>. DEFINE place == [k \in 1..rows |-> (k - 1) * cols + v.at]
  <2>1. Members(v) = [k \in 1..rows |-> Ref(v.reg, place[k])]
      BY <1>4, ColumnMembers DEF cols, rows
  <2>2. v.at \in 0..(cols - 1)
      BY <1>4 DEF IsSelection, ViewExists, cols
  <2>3. \A k \in 1..rows : k - 1 \in 0..(rows - 1) /\ place[k] = (k - 1) * cols + v.at
      BY <1>1, <2>2
  <2>. HIDE DEF place
  <2>4. \A k \in 1..rows : place[k] \in 0..(rows * cols - 1)
      BY <1>1, <2>2, <2>3, CellInRange
  <2>5. \A k, l \in 1..rows : place[k] = place[l] => k = l
    <3>. SUFFICES ASSUME NEW k \in 1..rows, NEW l \in 1..rows, place[k] = place[l]
                  PROVE  k = l
        OBVIOUS
    <3>1. k - 1 \in Int /\ l - 1 \in Int /\ (k - 1) * cols + v.at = (l - 1) * cols + v.at
        BY <1>1, <2>3
    <3>2. k - 1 = l - 1
        BY <1>1, <2>2, <3>1, CellIsUnique
    <3>. QED BY <1>1, <3>2
  <2>. QED BY <1>1, <2>1, <2>4, <2>5, NumberedMembers
<1>5. CASE v.kind = "block"
  <2>. DEFINE n == (v.at[2] - v.at[1]) * (v.at[4] - v.at[3])
              place == [k \in 1..n |-> BlockRow(v, k) * cols + BlockColumn(v, k)]
  <2>1. /\ n \in Nat
        /\ Members(v) = [k \in 1..n |-> Ref(v.reg, BlockRow(v, k) * cols + BlockColumn(v, k))]
        /\ \A k \in 1..n : /\ BlockRow(v, k) \in v.at[1]..(v.at[2] - 1)
                            /\ BlockColumn(v, k) \in v.at[3]..(v.at[4] - 1)
                            /\ BlockRow(v, k) \in 0..(rows - 1)
                            /\ BlockColumn(v, k) \in 0..(cols - 1)
        /\ \A k, l \in 1..n :
              BlockRow(v, k) = BlockRow(v, l) /\ BlockColumn(v, k) = BlockColumn(v, l) => k = l
      BY <1>5, BlockCells DEF rows, cols
  <2>2. Members(v) = [k \in 1..n |-> Ref(v.reg, place[k])]
      BY <2>1
  <2>3. \A k \in 1..n : place[k] = BlockRow(v, k) * cols + BlockColumn(v, k)
      OBVIOUS
  <2>. HIDE DEF place, n
  <2>4. ASSUME NEW k \in 1..n PROVE place[k] \in 0..(rows * cols - 1)
    <3>. DEFINE r == BlockRow(v, k)
                c == BlockColumn(v, k)
    <3>1. r \in 0..(rows - 1) /\ c \in 0..(cols - 1) /\ place[k] = r * cols + c
        BY <2>1, <2>3
    <3>. HIDE DEF r, c
    <3>. QED BY <1>1, <3>1, CellInRange
  <2>5. \A k, l \in 1..n : place[k] = place[l] => k = l
    <3>. SUFFICES ASSUME NEW k \in 1..n, NEW l \in 1..n, place[k] = place[l]
                  PROVE  k = l
        OBVIOUS
    <3>. DEFINE r == BlockRow(v, k)
                c == BlockColumn(v, k)
                s == BlockRow(v, l)
                d == BlockColumn(v, l)
    <3>1. r \in Int /\ s \in Int /\ c \in 0..(cols - 1) /\ d \in 0..(cols - 1)
          /\ r * cols + c = s * cols + d
        BY <1>1, <2>1, <2>3
    <3>. HIDE DEF r, c, s, d
    <3>2. r = s /\ c = d
        BY <1>1, <3>1, CellIsUnique
    <3>. QED BY <2>1, <3>2 DEF r, c, s, d
  <2>. QED BY <1>1, <2>1, <2>2, <2>4, <2>5, NumberedMembers
<1>. QED BY <1>2, <1>3, <1>4, <1>5 DEF IsSelection, ViewExists
\* The rows and columns a row, a column or a block covers.
Box(v) ==
    CASE v.kind = "row"    -> [r |-> {v.at}, c |-> 0..(Registers[v.reg].cols - 1)]
      [] v.kind = "column" -> [r |-> 0..(Registers[v.reg].rows - 1), c |-> {v.at}]
      [] v.kind = "block"  -> [r |-> v.at[1]..(v.at[2] - 1), c |-> v.at[3]..(v.at[4] - 1)]

LEMMA MembersInBox ==
    ASSUME NEW v, IsSelection(v), v.kind # "all", NEW k \in DOMAIN Members(v)
    PROVE  \E r \in Box(v).r, c \in Box(v).c :
              /\ r \in Int /\ c \in 0..(Registers[v.reg].cols - 1)
              /\ Members(v)[k] = Ref(v.reg, r * Registers[v.reg].cols + c)
<1>. DEFINE rows == Registers[v.reg].rows
            cols == Registers[v.reg].cols
<1>1. rows \in Nat \ {0} /\ cols \in Nat \ {0}
    BY RegisterShape DEF IsSelection
<1>2. CASE v.kind = "row"
  <2>1. k \in 1..cols /\ Members(v)[k] = Ref(v.reg, v.at * cols + k - 1)
      BY <1>2, RowMembers
  <2>2. v.at \in 0..(rows - 1)
      BY <1>2 DEF IsSelection, ViewExists
  <2>3. Box(v).r = {v.at} /\ Box(v).c = 0..(cols - 1)
      BY <1>2 DEF Box
  <2>. HIDE DEF rows, cols
  <2>4. k - 1 \in 0..(cols - 1) /\ v.at * cols + k - 1 = v.at * cols + (k - 1) /\ v.at \in Int
      BY <1>1, <2>1, <2>2
  <2>. QED BY <2>1, <2>3, <2>4 DEF cols
<1>3. CASE v.kind = "column"
  <2>1. k \in 1..rows /\ Members(v)[k] = Ref(v.reg, (k - 1) * cols + v.at)
      BY <1>3, ColumnMembers
  <2>2. v.at \in 0..(cols - 1)
      BY <1>3 DEF IsSelection, ViewExists
  <2>3. Box(v).r = 0..(rows - 1) /\ Box(v).c = {v.at}
      BY <1>3 DEF Box
  <2>. HIDE DEF rows, cols
  <2>4. k - 1 \in 0..(rows - 1) /\ k - 1 \in Int
      BY <1>1, <2>1
  <2>. QED BY <2>1, <2>2, <2>3, <2>4 DEF cols
<1>4. CASE v.kind = "block"
  <2>. DEFINE n == (v.at[2] - v.at[1]) * (v.at[4] - v.at[3])
  <2>1. /\ n \in Nat
        /\ Members(v) = [j \in 1..n |-> Ref(v.reg, BlockRow(v, j) * cols + BlockColumn(v, j))]
        /\ \A j \in 1..n : /\ BlockRow(v, j) \in v.at[1]..(v.at[2] - 1)
                           /\ BlockColumn(v, j) \in v.at[3]..(v.at[4] - 1)
                           /\ BlockRow(v, j) \in 0..(rows - 1)
                           /\ BlockColumn(v, j) \in 0..(cols - 1)
      BY <1>4, BlockCells
  <2>2. Box(v).r = v.at[1]..(v.at[2] - 1) /\ Box(v).c = v.at[3]..(v.at[4] - 1)
      BY <1>4 DEF Box
  <2>3. k \in 1..n
      BY <2>1
  <2>. HIDE DEF n, rows
  <2>. QED BY <2>1, <2>2, <2>3
<1>. QED BY <1>2, <1>3, <1>4 DEF IsSelection, ViewExists

\* Views that may be operands of one grouped operation have as many members
\* each, and none in common.
LEMMA PairIsApart ==
    ASSUME NEW v, NEW w, IsSelection(v), IsSelection(w), PairOf(v, w)
    PROVE  /\ DOMAIN Members(v) = DOMAIN Members(w)
           /\ \A k \in DOMAIN Members(v), l \in DOMAIN Members(w) :
                 Members(v)[k] # Members(w)[l]
<1>1. GoodMembers(v) /\ GoodMembers(w)
    BY MembersAreGood
<1>2. DOMAIN Members(v) = DOMAIN Members(w)
    BY <1>1 DEF GoodMembers, IsList, PairOf
<1>3. ASSUME NEW k \in DOMAIN Members(v), NEW l \in DOMAIN Members(w),
             Members(v)[k] = Members(w)[l]
      PROVE  FALSE
  <2>1. v.reg = w.reg
      BY <1>1, <1>3 DEF GoodMembers, Ref
  <2>2. v.kind = w.kind /\ ~ Overlap(v, w)
      BY <2>1 DEF PairOf
  <2>3. v.kind # "all" /\ w.kind # "all"
      BY <2>2 DEF Overlap
  <2>4. PICK r \in Box(v).r : \E c \in Box(v).c :
           /\ r \in Int /\ c \in 0..(Registers[v.reg].cols - 1)
           /\ Members(v)[k] = Ref(v.reg, r * Registers[v.reg].cols + c)
      BY <2>3, MembersInBox
  <2>5. PICK c \in Box(v).c :
           /\ r \in Int /\ c \in 0..(Registers[v.reg].cols - 1)
           /\ Members(v)[k] = Ref(v.reg, r * Registers[v.reg].cols + c)
      BY <2>4
  <2>6. PICK s \in Box(w).r : \E d \in Box(w).c :
           /\ s \in Int /\ d \in 0..(Registers[w.reg].cols - 1)
           /\ Members(w)[l] = Ref(w.reg, s * Registers[w.reg].cols + d)
      BY <2>3, MembersInBox
  <2>7. PICK d \in Box(w).c :
           /\ s \in Int /\ d \in 0..(Registers[w.reg].cols - 1)
           /\ Members(w)[l] = Ref(w.reg, s * Registers[w.reg].cols + d)
      BY <2>6
  <2>. DEFINE cols == Registers[v.reg].cols
  <2>8. cols \in Nat
      BY RegisterShape DEF IsSelection
  <2>. DEFINE x == r * cols + c
              y == s * cols + d
  <2>9. r * cols + c = s * cols + d
    <3>1. Ref(v.reg, x) = Ref(v.reg, y)
        BY <1>3, <2>1, <2>5, <2>7
    <3>. HIDE DEF x, y
    <3>2. Ref(v.reg, x).index = x /\ Ref(v.reg, y).index = y
        BY DEF Ref
    <3>3. x = y
        BY <3>1, <3>2
    <3>. QED BY <3>3 DEF x, y
  <2>. HIDE DEF x, y
  <2>10. d \in 0..(cols - 1)
      BY <2>1, <2>7
  <2>. HIDE DEF cols
  <2>11. c \in 0..(cols - 1)
      BY <2>5 DEF cols
  <2>12. r = s /\ c = d
      BY <2>5, <2>7, <2>8, <2>9, <2>10, <2>11, CellIsUnique
  <2>13. CASE v.kind = "row"
      BY <2>2, <2>12, <2>13 DEF Box, Overlap
  <2>14. CASE v.kind = "column"
      BY <2>2, <2>12, <2>14 DEF Box, Overlap
  <2>15. CASE v.kind = "block"
    <3>1. /\ r \in v.at[1]..(v.at[2] - 1) /\ c \in v.at[3]..(v.at[4] - 1)
          /\ r \in w.at[1]..(w.at[2] - 1) /\ c \in w.at[3]..(w.at[4] - 1)
        BY <2>2, <2>12, <2>15 DEF Box
    <3>2. \A i \in 1..4 : v.at[i] \in Int /\ w.at[i] \in Int
        BY <2>2, <2>15 DEF IsSelection
    <3>3. /\ v.at[1] < w.at[2] /\ w.at[1] < v.at[2]
          /\ v.at[3] < w.at[4] /\ w.at[3] < v.at[4]
        BY <3>1, <3>2
    <3>. QED BY <2>2, <2>15, <3>3 DEF Overlap
  <2>. QED BY <2>3, <2>13, <2>14, <2>15 DEF IsSelection, ViewExists
<1>. QED BY <1>2, <1>3
----------------------------------------------------------------------------
(* Instructions.                                                           *)

\* A slot of the program.
IsSlot(t) == ~ IsView(t) /\ Owned(layout.q, t.reg) /\ t.index \in 0..(Size(t.reg) - 1)
IsOwnView(t) == IsView(t) /\ IsSelection(t) /\ Owned(layout.q, t.reg)

LEMMA OwnedRegister ==
    ASSUME layout \in Layouts, NEW reg, Owned(layout.q, reg)
    PROVE  reg \in DOMAIN Registers
BY AuthoringAssumption DEF Owned

\* What an accepted operand resolves to.
LEMMA OperandMeaning ==
    ASSUME layout \in Layouts, NEW call \in Adds, NEW k \in DOMAIN call.operands,
           Resolvable(layout.q, call.operands[k])
    PROVE  \/ IsSlot(Resolved(layout.q, call.operands[k]))
           \/ IsOwnView(Resolved(layout.q, call.operands[k]))
<1>. DEFINE o == call.operands[k]
            t == Resolved(layout.q, o)
<1>1. /\ o.form = "ref" => o = Ref(o.reg, o.index) /\ o.index \in 0..(Size(o.reg) - 1)
      /\ o.form = "view" /\ o.kind = "block" => \A i \in 1..4 : o.at[i] \in Int
    BY AuthoringAssumption
<1>2. Resolvable(layout.q, o)
    OBVIOUS
<1>3. IsList(layout.q)
    BY AuthoringAssumption
<1>. HIDE DEF o
<1>4. CASE o.form = "int"
  <2>1. t = Ref(layout.q[1], o.index)
      BY <1>4 DEF Resolved
  <2>2. Len(layout.q) = 1 /\ o.index \in 0..(Size(layout.q[1]) - 1)
      BY <1>2, <1>4 DEF Resolvable
  <2>3. 1 \in DOMAIN layout.q
      BY <1>3, <2>2 DEF IsList
  <2>. HIDE DEF t
  <2>4. t.reg = layout.q[1] /\ t.index = o.index /\ t.form = "ref"
      BY <2>1 DEF Ref
  <2>. QED BY <2>2, <2>3, <2>4 DEF IsSlot, IsView, Owned, t, o
<1>5. CASE o.form = "ref"
  <2>1. t = o
      BY <1>5 DEF Resolved
  <2>. QED BY <1>1, <1>2, <1>5, <2>1 DEF Resolvable, IsSlot, IsView, o
<1>6. CASE o.form = "view"
  <2>1. t = o
      BY <1>6 DEF Resolved
  <2>2. ViewExists(o) /\ Owned(layout.q, o.reg)
      BY <1>2, <1>6 DEF Resolvable
  <2>3. o.reg \in DOMAIN Registers
      BY <2>2, OwnedRegister
  <2>. QED BY <1>1, <1>6, <2>1, <2>2, <2>3 DEF IsOwnView, IsView, IsSelection, o
<1>. QED BY <1>2, <1>4, <1>5, <1>6 DEF Resolvable

\* Different slots make one application.
LEMMA ScalarsAreApart ==
    ASSUME NEW targets, \A k \in DOMAIN targets : IsSlot(targets[k]),
           \A j, k \in DOMAIN targets : j # k => targets[j] # targets[k]
    PROVE  AppliesApart(layout.q, targets)
<1>. DEFINE groups == <<targets>>
<1>1. Occurrences(targets) = groups
    BY DEF Occurrences, IsSlot
<1>2. DOMAIN groups = {1} /\ groups[1] = targets
    OBVIOUS
<1>. HIDE DEF groups
<1>. QED BY <1>1, <1>2 DEF AppliesApart, IsSlot

\* Members of compatible views, zipped, make applications that share no slot.
LEMMA ViewsAreApart ==
    ASSUME layout \in Layouts, NEW targets, DOMAIN targets \subseteq Nat, 1 \in DOMAIN targets,
           \A k \in DOMAIN targets : IsOwnView(targets[k]),
           \A j, k \in DOMAIN targets : j < k => PairOf(targets[j], targets[k])
    PROVE  AppliesApart(layout.q, targets)
<1>. DEFINE groups == [j \in DOMAIN Members(targets[1]) |->
                         [k \in DOMAIN targets |-> Members(targets[k])[j]]]
            D == DOMAIN Members(targets[1])
<1>1. Occurrences(targets) = groups
    BY DEF Occurrences, IsOwnView
<1>2. ASSUME NEW j \in DOMAIN targets, NEW k \in DOMAIN targets, j # k
      PROVE  /\ DOMAIN Members(targets[j]) = DOMAIN Members(targets[k])
             /\ \A i \in DOMAIN Members(targets[j]), l \in DOMAIN Members(targets[k]) :
                   Members(targets[j])[i] # Members(targets[k])[l]
  <2>1. j < k \/ k < j
      BY <1>2
  <2>2. IsSelection(targets[j]) /\ IsSelection(targets[k])
      BY DEF IsOwnView
  <2>3. PairOf(targets[j], targets[k]) \/ PairOf(targets[k], targets[j])
      BY <2>1
  <2>. QED BY <2>2, <2>3, PairIsApart
<1>3. \A k \in DOMAIN targets : DOMAIN Members(targets[k]) = D
    BY <1>2
<1>4. \A k \in DOMAIN targets : GoodMembers(targets[k]) /\ Owned(layout.q, targets[k].reg)
    BY MembersAreGood DEF IsOwnView
<1>5. DOMAIN groups = D /\ \A j \in D : DOMAIN groups[j] = DOMAIN targets
    OBVIOUS
<1>6. \A j \in D, k \in DOMAIN targets : groups[j][k] = Members(targets[k])[j]
    OBVIOUS
<1>. HIDE DEF groups, D
<1>7. ASSUME NEW j \in D, NEW k \in DOMAIN targets
      PROVE  Owned(layout.q, groups[j][k].reg)
             /\ groups[j][k].index \in 0..(Size(groups[j][k].reg) - 1)
  <2>. DEFINE slot == Members(targets[k])[j]
              reg == targets[k].reg
  <2>1. slot = Ref(reg, slot.index) /\ slot.index \in 0..(Size(reg) - 1)
      BY <1>3, <1>4 DEF GoodMembers
  <2>2. Owned(layout.q, reg) /\ groups[j][k] = slot
      BY <1>4, <1>6
  <2>. HIDE DEF slot, reg
  <2>3. slot.reg = reg
      BY <2>1 DEF Ref
  <2>. QED BY <2>1, <2>2, <2>3
<1>8. ASSUME NEW j \in D, NEW k \in DOMAIN targets, NEW i \in D, NEW l \in DOMAIN targets,
             i # j \/ l # k
      PROVE  groups[i][l] # groups[j][k]
  <2>1. CASE l = k
      BY <1>3, <1>4, <1>6, <1>8, <2>1 DEF GoodMembers
  <2>2. CASE l # k
      BY <1>2, <1>3, <1>6, <2>2
  <2>. QED BY <2>1, <2>2
<1>. QED BY <1>1, <1>5, <1>7, <1>8 DEF AppliesApart

\* An accepted call makes an instruction whose applications are apart.
LEMMA AddIsApart ==
    ASSUME layout \in Layouts, NEW call \in Adds, AddAccepted(call)
    PROVE  AppliesApart(layout.q, Targets(call))
<1>. DEFINE refs == [k \in DOMAIN call.operands |-> Resolved(layout.q, call.operands[k])]
            n == Len(call.operands)
<1>1. n \in Nat /\ DOMAIN call.operands = 1..n
    BY AuthoringAssumption DEF IsList
<1>2. \A k \in 1..n : IsSlot(refs[k]) \/ IsOwnView(refs[k])
    BY <1>1, OperandMeaning DEF AddAccepted
<1>3. refs = [k \in 1..n |-> refs[k]]
    BY <1>1
<1>4. Targets(call) = IF call.arity = 0 /\ call.views /\ Len(refs) = 1 /\ IsView(refs[1])
                      THEN Members(refs[1]) ELSE refs
    BY DEF Targets
<1>5. Applies(call, Targets(call))
    BY DEF AddAccepted
<1>. HIDE DEF refs, n
<1>6. IsList(refs) /\ Len(refs) = n /\ DOMAIN refs = 1..n
    BY <1>1, <1>3, FunctionIsList
<1>7. CASE call.arity = 0 /\ call.views /\ Len(refs) = 1 /\ IsView(refs[1])
  <2>1. IsOwnView(refs[1])
      BY <1>1, <1>2, <1>6, <1>7 DEF IsSlot
  <2>. DEFINE m == Members(refs[1])
              reg == refs[1].reg
  <2>2. GoodMembers(refs[1]) /\ Owned(layout.q, reg)
      BY <2>1, MembersAreGood DEF IsOwnView
  <2>3. \A k \in DOMAIN m : m[k] = Ref(reg, m[k].index) /\ m[k].index \in 0..(Size(reg) - 1)
      BY <2>2 DEF GoodMembers
  <2>4. \A j, k \in DOMAIN m : j # k => m[j] # m[k]
      BY <2>2 DEF GoodMembers
  <2>5. Targets(call) = m
      BY <1>4, <1>7
  <2>. HIDE DEF m, reg
  <2>6. \A k \in DOMAIN m : m[k].form = "ref" /\ m[k].reg = reg
      BY <2>3 DEF Ref
  <2>7. \A k \in DOMAIN m : IsSlot(m[k])
      BY <2>2, <2>3, <2>6 DEF IsSlot, IsView
  <2>. QED BY <2>4, <2>5, <2>7, ScalarsAreApart
<1>8. CASE ~ (call.arity = 0 /\ call.views /\ Len(refs) = 1 /\ IsView(refs[1]))
  <2>1. Targets(call) = refs
      BY <1>4, <1>8
  <2>2. CASE \E k \in DOMAIN refs : IsView(refs[k])
    <3>1. /\ \A k \in DOMAIN refs : IsView(refs[k])
          /\ \A j, k \in DOMAIN refs : j < k => PairOf(refs[j], refs[k])
        BY <1>5, <2>1, <2>2 DEF Applies
    <3>2. \A k \in DOMAIN refs : IsOwnView(refs[k])
        BY <1>2, <1>6, <3>1 DEF IsSlot
    <3>3. DOMAIN refs \subseteq Nat /\ 1 \in DOMAIN refs
        BY <1>1, <1>6, <2>2
    <3>. QED BY <2>1, <3>1, <3>2, <3>3, ViewsAreApart
  <2>3. CASE \A k \in DOMAIN refs : ~ IsView(refs[k])
    <3>1. \A j, k \in DOMAIN refs : j # k => refs[j] # refs[k]
        BY <1>5, <2>1, <2>3 DEF Applies
    <3>2. \A k \in DOMAIN refs : IsSlot(refs[k])
        BY <1>2, <1>6, <2>3 DEF IsOwnView
    <3>. QED BY <2>1, <3>1, <3>2, ScalarsAreApart
  <2>. QED BY <2>2, <2>3
<1>. QED BY <1>7, <1>8

\* An operation of arity two is applied to two targets.
LEMMA AddOnTwo ==
    ASSUME NEW call \in Adds, AddAccepted(call), call.arity = 2
    PROVE  DOMAIN Targets(call) = {1, 2}
<1>. DEFINE refs == [k \in DOMAIN call.operands |-> Resolved(layout.q, call.operands[k])]
            n == Len(call.operands)
<1>1. n \in Nat /\ DOMAIN call.operands = 1..n
    BY AuthoringAssumption DEF IsList
<1>2. refs = [k \in 1..n |-> refs[k]]
    BY <1>1
<1>3. Targets(call) = refs
    BY DEF Targets
<1>4. Len(Targets(call)) = 2
    BY DEF AddAccepted, Applies
<1>. HIDE DEF refs, n
<1>5. Len(refs) = n /\ DOMAIN refs = 1..n
    BY <1>1, <1>2, FunctionIsList
<1>. QED BY <1>1, <1>3, <1>4, <1>5
----------------------------------------------------------------------------
(* Binding.                                                                *)

\* Numbers that a mapping gives its parameters replace what it asks to replace.
LEMMA BindingIsSubstitution ==
    ASSUME NEW instructions, NEW mapping, NEW numbers, KeysAccepted(instructions, mapping),
           DOMAIN numbers = Bound(mapping),
           \A p \in Bound(mapping) :
              \E k \in DOMAIN mapping : \E i \in DOMAIN mapping[k].elements :
                 mapping[k].elements[i] = p /\ numbers[p] = mapping[k].values[i]
    PROVE  Replace(instructions, numbers) = Substituted(instructions, mapping)
<1>. DEFINE Uses(k, arg) == {x \in DOMAIN mapping[k].elements : mapping[k].elements[x] = arg}
            Given(arg) == UNION {{mapping[k].values[j] : j \in Uses(k, arg)} :
                                 k \in DOMAIN mapping}
            Old(arg) == IF arg \in DOMAIN numbers THEN Number(numbers[arg]) ELSE arg
            New(arg) == IF Given(arg) = {} THEN arg ELSE Number(CHOOSE v \in Given(arg) : TRUE)
<1>1. ASSUME NEW arg PROVE Old(arg) = New(arg)
  <2>1. CASE arg \in Bound(mapping)
    <3>1. PICK k \in DOMAIN mapping : \E i \in DOMAIN mapping[k].elements :
             mapping[k].elements[i] = arg /\ numbers[arg] = mapping[k].values[i]
        BY <2>1
    <3>2. PICK i \in DOMAIN mapping[k].elements :
             mapping[k].elements[i] = arg /\ numbers[arg] = mapping[k].values[i]
        BY <3>1
    <3>3. Uses(k, arg) = {i}
        BY <3>2 DEF KeysAccepted
    <3>4. ASSUME NEW l \in DOMAIN mapping, l # k PROVE Uses(l, arg) = {}
      <4>1. Range(mapping[k].elements) \cap Range(mapping[l].elements) = {}
          BY <3>4 DEF KeysAccepted
      <4>2. arg \in Range(mapping[k].elements)
          BY <3>2 DEF Range
      <4>3. arg \notin Range(mapping[l].elements)
          BY <4>1, <4>2
      <4>. QED BY <4>3 DEF Range
    <3>5. Given(arg) = {mapping[k].values[i]}
        BY <3>3, <3>4
    <3>. HIDE DEF Given
    <3>6. New(arg) = Number(mapping[k].values[i])
        BY <3>5
    <3>. QED BY <2>1, <3>2, <3>6
  <2>2. CASE arg \notin Bound(mapping)
    <3>1. \A k \in DOMAIN mapping : Uses(k, arg) = {}
        BY <2>2 DEF Bound, Range
    <3>2. Given(arg) = {}
        BY <3>1
    <3>. HIDE DEF Given
    <3>. QED BY <2>2, <3>2
  <2>. QED BY <2>1, <2>2
<1>2. Replace(instructions, numbers) =
         [n \in DOMAIN instructions |->
            [instructions[n] EXCEPT !.args =
               [i \in DOMAIN instructions[n].args |-> Old(instructions[n].args[i])]]]
    BY DEF Replace
<1>3. Substituted(instructions, mapping) =
         [n \in DOMAIN instructions |->
            [instructions[n] EXCEPT !.args =
               [i \in DOMAIN instructions[n].args |-> New(instructions[n].args[i])]]]
    BY DEF Substituted
<1>. HIDE DEF Old, New
<1>4. \A n \in DOMAIN instructions :
         [i \in DOMAIN instructions[n].args |-> Old(instructions[n].args[i])] =
         [i \in DOMAIN instructions[n].args |-> New(instructions[n].args[i])]
    BY <1>1
<1>. QED BY <1>2, <1>3, <1>4

\* The column that binds a parameter, and its place in the key.
LEMMA BinderMeaning ==
    ASSUME NEW mapping, NEW p \in Bound(mapping)
    PROVE  /\ Binder(mapping, p) \in DOMAIN mapping
           /\ Place(mapping[Binder(mapping, p)], p) \in DOMAIN mapping[Binder(mapping, p)].elements
           /\ mapping[Binder(mapping, p)].elements[Place(mapping[Binder(mapping, p)], p)] = p
<1>1. \E k \in DOMAIN mapping : p \in Range(mapping[k].elements)
    BY DEF Bound
<1>2. Binder(mapping, p) \in DOMAIN mapping /\ p \in Range(mapping[Binder(mapping, p)].elements)
    BY <1>1 DEF Binder
<1>. DEFINE key == mapping[Binder(mapping, p)]
<1>3. p \in Range(key.elements)
    BY <1>2
<1>. HIDE DEF key
<1>4. \E i \in DOMAIN key.elements : key.elements[i] = p
    BY <1>3 DEF Range
<1>5. Place(key, p) \in DOMAIN key.elements /\ key.elements[Place(key, p)] = p
    BY <1>4 DEF Place
<1>. QED BY <1>2, <1>5 DEF key

\* assign_parameters.
LEMMA AssignIsSubstitution ==
    ASSUME NEW instructions, NEW mapping, MappingAccepted(instructions, mapping)
    PROVE  Replace(instructions, Normalized(mapping)) = Substituted(instructions, mapping)
<1>1. DOMAIN Normalized(mapping) = Bound(mapping)
    BY DEF Normalized
<1>2. ASSUME NEW p \in Bound(mapping)
      PROVE  \E k \in DOMAIN mapping : \E i \in DOMAIN mapping[k].elements :
                mapping[k].elements[i] = p /\ Normalized(mapping)[p] = mapping[k].values[i]
  <2>. DEFINE k == Binder(mapping, p)
              i == Place(mapping[k], p)
  <2>1. k \in DOMAIN mapping /\ i \in DOMAIN mapping[k].elements /\ mapping[k].elements[i] = p
      BY BinderMeaning
  <2>2. Normalized(mapping)[p] = mapping[k].values[i]
      BY DEF Normalized
  <2>. HIDE DEF k, i
  <2>. QED BY <2>1, <2>2
<1>. QED BY <1>1, <1>2, BindingIsSubstitution DEF MappingAccepted

\* The mapping that a row of a sweep stands for.
RowMapping(batch, j) ==
    [k \in DOMAIN batch |-> [elements |-> batch[k].elements, values |-> batch[k].rows[j]]]

LEMMA RowIsSubstitution ==
    ASSUME NEW instructions, NEW batch, BatchAccepted(instructions, batch),
           NEW j \in DOMAIN batch[1].rows
    PROVE  Replace(instructions, Rows(instructions, batch)[j]) =
             Substituted(instructions, RowMapping(batch, j))
<1>. DEFINE mapping == RowMapping(batch, j)
            row == Rows(instructions, batch)[j]
<1>1. /\ DOMAIN mapping = DOMAIN batch
      /\ \A k \in DOMAIN batch : mapping[k].elements = batch[k].elements
                                 /\ mapping[k].values = batch[k].rows[j]
    BY DEF RowMapping
<1>2. KeysAccepted(instructions, batch)
    BY DEF BatchAccepted
<1>3. row = [p \in Present(instructions) |->
               LET key == batch[Binder(batch, p)] IN key.rows[j][Place(key, p)]]
    BY DEF Rows
<1>4. Bound(batch) = Present(instructions)
    BY DEF BatchAccepted, KeysAccepted, Bound
<1>. HIDE DEF mapping, row
<1>5. KeysAccepted(instructions, mapping)
  <2>1. \A k \in DOMAIN mapping : k \in DOMAIN batch /\ mapping[k].elements = batch[k].elements
      BY <1>1
  <2>2. ASSUME NEW k \in DOMAIN mapping
        PROVE  /\ mapping[k].elements # <<>>
               /\ Range(mapping[k].elements) \subseteq Present(instructions)
               /\ \A i, l \in DOMAIN mapping[k].elements :
                     i # l => mapping[k].elements[i] # mapping[k].elements[l]
      BY <1>2, <2>1 DEF KeysAccepted
  <2>3. ASSUME NEW i \in DOMAIN mapping, NEW k \in DOMAIN mapping, i # k
        PROVE  Range(mapping[i].elements) \cap Range(mapping[k].elements) = {}
    <3>1. Range(batch[i].elements) \cap Range(batch[k].elements) = {}
        BY <1>2, <2>1, <2>3 DEF KeysAccepted
    <3>2. mapping[i].elements = batch[i].elements /\ mapping[k].elements = batch[k].elements
        BY <2>1
    <3>. QED BY <3>1, <3>2
  <2>. QED BY <2>2, <2>3 DEF KeysAccepted
<1>6. Bound(mapping) = Bound(batch)
  <2>1. {Range(mapping[k].elements) : k \in DOMAIN mapping} =
        {Range(batch[k].elements) : k \in DOMAIN batch}
      BY <1>1
  <2>. QED BY <2>1 DEF Bound
<1>7. ASSUME NEW p \in Bound(mapping)
      PROVE  \E k \in DOMAIN mapping : \E i \in DOMAIN mapping[k].elements :
                mapping[k].elements[i] = p /\ row[p] = mapping[k].values[i]
  <2>. DEFINE k == Binder(batch, p)
              i == Place(batch[k], p)
  <2>1. k \in DOMAIN batch /\ i \in DOMAIN batch[k].elements /\ batch[k].elements[i] = p
      BY <1>6, BinderMeaning
  <2>2. row[p] = batch[k].rows[j][i]
      BY <1>3, <1>4, <1>6
  <2>. HIDE DEF k, i
  <2>. QED BY <1>1, <2>1, <2>2
<1>8. DOMAIN row = Bound(mapping)
    BY <1>3, <1>4, <1>6
<1>9. Replace(instructions, row) = Substituted(instructions, mapping)
    BY <1>5, <1>7, <1>8, BindingIsSubstitution
<1>. QED BY <1>9 DEF mapping, row

\* Nothing is left of the parameters that numbers are given for.
LEMMA NothingLeft ==
    ASSUME NEW instructions, NEW numbers, DOMAIN numbers = Present(instructions),
           \A n \in DOMAIN instructions :
              instructions[n] = [instructions[n] EXCEPT !.args = instructions[n].args]
              /\ "args" \in DOMAIN instructions[n]
    PROVE  Executable(Replace(instructions, numbers))
<1>. DEFINE replaced == Replace(instructions, numbers)
            new(n) == [i \in DOMAIN instructions[n].args |->
                         LET arg == instructions[n].args[i]
                         IN  IF arg \in DOMAIN numbers THEN Number(numbers[arg]) ELSE arg]
<1>1. /\ DOMAIN replaced = DOMAIN instructions
      /\ \A n \in DOMAIN instructions : replaced[n] = [instructions[n] EXCEPT !.args = new(n)]
    BY DEF Replace
<1>. HIDE DEF replaced
<1>2. \A n \in DOMAIN instructions : replaced[n].args = new(n)
    BY <1>1
<1>3. ASSUME NEW n \in DOMAIN instructions, NEW i \in DOMAIN instructions[n].args
      PROVE  ~ new(n)[i].symbolic
  <2>. DEFINE arg == instructions[n].args[i]
  <2>1. CASE arg \in DOMAIN numbers
      BY <2>1 DEF Number
  <2>2. CASE arg \notin DOMAIN numbers
    <3>1. arg \in UNION {Range(instructions[k].args) : k \in DOMAIN instructions}
        BY DEF Range
    <3>2. ~ arg.symbolic
        BY <2>2, <3>1 DEF Present
    <3>. QED BY <2>2, <3>2
  <2>. QED BY <2>1, <2>2
<1>4. \A n \in DOMAIN replaced : \A i \in DOMAIN replaced[n].args : ~ replaced[n].args[i].symbolic
    BY <1>1, <1>2, <1>3
<1>5. Present(replaced) = {}
    BY <1>4 DEF Present, Range
<1>. QED BY <1>5 DEF Executable, replaced
----------------------------------------------------------------------------
(* The programs and the lists they own.                                    *)

\* The list of a program is its own, of the two that there are.
Own(h) == IF h = "template" THEN 1 ELSE 2

\* What every program, the cached tuple included, has to do with its history.
HandleInv ==
    /\ DOMAIN programs \subseteq Handles /\ "template" \in DOMAIN programs
    /\ programs = [h \in DOMAIN programs |-> [list |-> Own(h), view |-> programs[h].view]]
    /\ lists = [l \in Lists |-> lists[l]]
    /\ authored = [h \in DOMAIN programs |-> authored[h]]
    /\ \A h \in DOMAIN programs : lists[Own(h)] = authored[h]
                                  /\ programs[h].view \in {{}, {authored[h]}}

\* The caches show what the lists hold.
LEMMA InstructionsAreHistory ==
    ASSUME HandleInv, NEW h \in DOMAIN programs
    PROVE  Instructions(h) = authored[h] /\ lists[programs[h].list] = authored[h]
<1>1. programs[h].list = Own(h)
    BY DEF HandleInv
<1>2. lists[Own(h)] = authored[h] /\ programs[h].view \in {{}, {authored[h]}}
    BY DEF HandleInv
<1>. QED BY <1>1, <1>2 DEF Instructions

LEMMA HandleInit ==
    ASSUME Init
    PROVE  HandleInv
BY DEF Init, HandleInv, Own, Handles, Lists

\* One more instruction for one program.
LEMMA HandleRecord ==
    ASSUME HandleInv, NEW h \in DOMAIN programs, NEW x, Record(h, x)
    PROVE  HandleInv'
<1>1. /\ lists' = [lists EXCEPT ![Own(h)] = Append(@, x)]
      /\ programs' = [programs EXCEPT ![h].view = {}]
      /\ authored' = [authored EXCEPT ![h] = Append(@, x)]
  <2>1. programs[h].list = Own(h)
      BY DEF HandleInv
  <2>. QED BY <2>1 DEF Record
<1>2. h \in Handles /\ Own(h) \in Lists
    BY DEF HandleInv, Own, Lists
<1>3. DOMAIN programs' = DOMAIN programs
    BY <1>1
<1>4. programs'[h] = [list |-> Own(h), view |-> {}]
  <2>1. programs[h] = [list |-> Own(h), view |-> programs[h].view]
      BY DEF HandleInv
  <2>2. programs'[h] = [programs[h] EXCEPT !.view = {}]
      BY <1>1
  <2>. QED BY <2>1, <2>2
<1>5. \A g \in DOMAIN programs : g # h => programs'[g] = [list |-> Own(g), view |-> programs[g].view]
    BY <1>1 DEF HandleInv
<1>6. programs' = [g \in DOMAIN programs |-> programs'[g]]
    BY <1>1
<1>7. programs' = [g \in DOMAIN programs' |-> [list |-> Own(g), view |-> programs'[g].view]]
  <2>1. ASSUME NEW g \in DOMAIN programs
        PROVE  programs'[g] = [list |-> Own(g), view |-> programs'[g].view]
    <3>1. PICK view : programs'[g] = [list |-> Own(g), view |-> view]
        BY <1>4, <1>5
    <3>2. programs'[g].view = view
        BY <3>1
    <3>. QED BY <3>1, <3>2
  <2>. QED BY <1>3, <1>6, <2>1
<1>8. lists' = [l \in Lists |-> lists'[l]] /\ authored' = [g \in DOMAIN programs' |-> authored'[g]]
    BY <1>1, <1>3 DEF HandleInv
<1>9. ASSUME NEW g \in DOMAIN programs
      PROVE  lists'[Own(g)] = authored'[g] /\ programs'[g].view \in {{}, {authored'[g]}}
  <2>1. CASE g = h
    <3>1. lists'[Own(h)] = Append(lists[Own(h)], x)
        BY <1>1, <1>2 DEF HandleInv
    <3>2. authored'[h] = Append(authored[h], x)
        BY <1>1 DEF HandleInv
    <3>3. lists[Own(h)] = authored[h]
        BY DEF HandleInv
    <3>. QED BY <1>4, <2>1, <3>1, <3>2, <3>3
  <2>2. CASE g # h
    <3>1. Own(g) # Own(h) /\ Own(g) \in Lists
        BY <1>2, <2>2 DEF HandleInv, Handles, Own, Lists
    <3>2. lists'[Own(g)] = lists[Own(g)]
        BY <1>1, <3>1 DEF HandleInv
    <3>3. authored'[g] = authored[g]
        BY <1>1, <2>2 DEF HandleInv
    <3>. QED BY <1>5, <2>2, <3>2, <3>3 DEF HandleInv
  <2>. QED BY <2>1, <2>2
<1>. QED BY <1>3, <1>7, <1>8, <1>9 DEF HandleInv

\* Reading fills the cache.
LEMMA HandleRead ==
    ASSUME HandleInv, NEW h \in DOMAIN programs, Read(h)
    PROVE  HandleInv'
<1>1. /\ programs' = [programs EXCEPT ![h].view = {authored[h]}]
      /\ lists' = lists /\ authored' = authored
    BY InstructionsAreHistory DEF Read
<1>2. DOMAIN programs' = DOMAIN programs
    BY <1>1
<1>3. programs'[h] = [list |-> Own(h), view |-> {authored[h]}]
  <2>1. programs[h] = [list |-> Own(h), view |-> programs[h].view]
      BY DEF HandleInv
  <2>2. programs'[h] = [programs[h] EXCEPT !.view = {authored[h]}]
      BY <1>1
  <2>. QED BY <2>1, <2>2
<1>4. \A g \in DOMAIN programs : g # h => programs'[g] = [list |-> Own(g), view |-> programs[g].view]
    BY <1>1 DEF HandleInv
<1>5. programs' = [g \in DOMAIN programs |-> programs'[g]]
    BY <1>1
<1>6. programs' = [g \in DOMAIN programs' |-> [list |-> Own(g), view |-> programs'[g].view]]
  <2>1. ASSUME NEW g \in DOMAIN programs
        PROVE  programs'[g] = [list |-> Own(g), view |-> programs'[g].view]
    <3>1. PICK view : programs'[g] = [list |-> Own(g), view |-> view]
        BY <1>3, <1>4
    <3>2. programs'[g].view = view
        BY <3>1
    <3>. QED BY <3>1, <3>2
  <2>. QED BY <1>2, <1>5, <2>1
<1>7. \A g \in DOMAIN programs : lists[Own(g)] = authored[g]
                                 /\ programs'[g].view \in {{}, {authored[g]}}
    BY <1>3, <1>4 DEF HandleInv
<1>. QED BY <1>1, <1>2, <1>6, <1>7 DEF HandleInv

\* Two programs, the second with a list of its own: _copy_with_operations.
LEMMA HandleSecond ==
    ASSUME HandleInv, NEW content, NEW view,
           programs["template"].view = view \/ view = {authored["template"]},
           programs' = [h \in Handles |->
                          IF h = "template" THEN [list |-> 1, view |-> view]
                          ELSE [list |-> 2, view |-> {content}]],
           lists' = [lists EXCEPT ![2] = content],
           authored' = [h \in Handles |-> IF h = "template" THEN authored["template"]
                                          ELSE content]
    PROVE  HandleInv'
<1>1. DOMAIN programs' = Handles /\ "template" \in Handles
    BY DEF Handles
<1>2. programs' = [h \in Handles |-> [list |-> Own(h), view |-> programs'[h].view]]
  <2>1. programs' = [h \in Handles |-> programs'[h]]
      OBVIOUS
  <2>2. \A h \in Handles : programs'[h] = [list |-> Own(h), view |-> programs'[h].view]
      BY DEF Own
  <2>. QED BY <2>1, <2>2
<1>3. lists' = [l \in Lists |-> lists'[l]] /\ authored' = [h \in Handles |-> authored'[h]]
    BY DEF HandleInv
<1>4. \A h \in Handles : lists'[Own(h)] = authored'[h]
  <2>1. lists'[1] = lists[1] /\ lists'[2] = content
      BY DEF HandleInv, Lists
  <2>2. lists[1] = authored["template"]
      BY DEF HandleInv, Own
  <2>. QED BY <2>1, <2>2 DEF Handles, Own
<1>5. \A h \in Handles : programs'[h].view \in {{}, {authored'[h]}}
  <2>1. view \in {{}, {authored["template"]}}
      BY DEF HandleInv
  <2>. QED BY <2>1 DEF Handles
<1>. QED BY <1>1, <1>2, <1>3, <1>4, <1>5 DEF HandleInv

LEMMA HandleCopy ==
    ASSUME HandleInv, Copy
    PROVE  HandleInv'
<1>. DEFINE content == lists[1]
            view == programs["template"].view
<1>1. programs["template"] = [list |-> 1, view |-> view] /\ content = authored["template"]
    BY DEF HandleInv, Own
<1>2. /\ programs' = [h \in Handles |-> IF h = "template" THEN programs["template"]
                                        ELSE [list |-> 2, view |-> {content}]]
      /\ lists' = [lists EXCEPT ![2] = content]
      /\ authored' = [h \in Handles |-> authored["template"]]
  <2>1. programs' = CopyWith(content)
      BY DEF Copy
  <2>2. CopyWith(content) = [h \in Handles |-> IF h = "template" THEN programs["template"]
                                               ELSE [list |-> 2, view |-> {content}]]
      BY DEF CopyWith
  <2>. QED BY <2>1, <2>2 DEF Copy
<1>. HIDE DEF content, view
<1>3. view = programs["template"].view
    BY DEF view
<1>. QED BY <1>1, <1>2, <1>3, HandleSecond

LEMMA HandleAssign ==
    ASSUME HandleInv, Assign
    PROVE  HandleInv'
<1>. DEFINE template == Instructions("template")
<1>1. PICK mapping \in Mappings :
         /\ MappingAccepted(template, mapping)
         /\ programs' = [CopyWith(Replace(template, Normalized(mapping)))
                           EXCEPT !["template"].view = {template}]
         /\ lists' = [lists EXCEPT ![2] = Replace(template, Normalized(mapping))]
         /\ authored' = [h \in Handles |->
              IF h = "template" THEN authored[h]
              ELSE Substituted(authored["template"], mapping)]
    BY DEF Assign
<1>2. template = authored["template"]
    BY InstructionsAreHistory DEF HandleInv
<1>3. programs["template"] = [list |-> 1, view |-> programs["template"].view]
    BY DEF HandleInv, Own
<1>. DEFINE content == Replace(template, Normalized(mapping))
            copy == CopyWith(content)
<1>4. content = Substituted(authored["template"], mapping)
    BY <1>1, <1>2, AssignIsSubstitution
<1>. HIDE DEF template, content
<1>5. /\ copy = [h \in Handles |-> copy[h]]
      /\ copy["template"] = [list |-> 1, view |-> programs["template"].view]
      /\ \A h \in Handles : h # "template" => copy[h] = [list |-> 2, view |-> {content}]
    BY <1>3 DEF CopyWith, Handles
<1>6. programs' = [copy EXCEPT !["template"].view = {template}]
    BY <1>1 DEF content
<1>. HIDE DEF copy
<1>7. programs'["template"] = [list |-> 1, view |-> {template}]
  <2>. DEFINE view == programs["template"].view
  <2>1. programs'["template"] = [copy["template"] EXCEPT !.view = {template}]
      BY <1>5, <1>6 DEF Handles
  <2>2. copy["template"] = [list |-> 1, view |-> view]
      BY <1>5
  <2>. HIDE DEF view
  <2>. QED BY <2>1, <2>2
<1>8. /\ programs' = [h \in Handles |-> programs'[h]]
      /\ \A h \in Handles : h # "template" => programs'[h] = [list |-> 2, view |-> {content}]
    BY <1>5, <1>6
<1>9. programs' = [h \in Handles |->
                     IF h = "template" THEN [list |-> 1, view |-> {template}]
                     ELSE [list |-> 2, view |-> {content}]]
    BY <1>7, <1>8
<1>10. lists' = [lists EXCEPT ![2] = content]
    BY <1>1 DEF content
<1>11. authored' = [h \in Handles |-> IF h = "template" THEN authored["template"] ELSE content]
    BY <1>1, <1>4
<1>. QED BY <1>2, <1>9, <1>10, <1>11, HandleSecond

LEMMA HandleNext ==
    ASSUME HandleInv, [Next]_vars
    PROVE  HandleInv'
<1>1. ASSUME NEW h \in DOMAIN programs, Add(h)
      PROVE  HandleInv'
    BY <1>1, HandleRecord DEF Add
<1>2. ASSUME NEW h \in DOMAIN programs, Measure(h)
      PROVE  HandleInv'
    BY <1>2, HandleRecord DEF Measure
<1>3. ASSUME NEW h \in DOMAIN programs, MeasureAll(h)
      PROVE  HandleInv'
    BY <1>3, HandleRecord DEF MeasureAll
<1>4. ASSUME NEW h \in DOMAIN programs, Read(h) \/ Sweep(h)
      PROVE  HandleInv'
    BY <1>4, HandleRead DEF Sweep
<1>5. CASE UNCHANGED vars
    BY <1>5 DEF vars, HandleInv
<1>. QED BY <1>1, <1>2, <1>3, <1>4, <1>5, HandleCopy, HandleAssign DEF Next

\* Programs show and hold what their calls ask for, whatever calls are made on
\* a template and on the program made of it, and whenever they are read.
THEOREM InstructionsStayCalls == Spec => []InstructionsAreCalls
<1>1. Init => HandleInv
    BY HandleInit
<1>2. HandleInv /\ [Next]_vars => HandleInv'
    BY HandleNext
<1>3. HandleInv => InstructionsAreCalls
    BY InstructionsAreHistory DEF InstructionsAreCalls
<1>. QED BY <1>1, <1>2, <1>3, PTL DEF Spec
----------------------------------------------------------------------------
(* What the instructions of a program are.                                 *)

\* An instruction of add or measure; operations act on slots that are apart,
\* on two targets when they say so.
IsInstruction(names, x) ==
    /\ x = [op |-> x.op, arity |-> x.arity, args |-> x.args, targets |-> x.targets,
            condition |-> x.condition, outputs |-> x.outputs]
    /\ (x.op = "Measurement" /\ x.arity = 0) \/ AppliesApart(names, x.targets)
    /\ x.arity = 2 => DOMAIN x.targets = {1, 2}

IsProgram(names, q) ==
    /\ Len(q) \in Nat /\ q = [k \in 1..Len(q) |-> q[k]]
    /\ \A k \in 1..Len(q) : IsInstruction(names, q[k])

StepsInv ==
    layout \in Layouts /\ \A h \in DOMAIN authored : IsProgram(layout.q, authored[h])

\* One more instruction.
LEMMA ProgramAppend ==
    ASSUME NEW names, NEW q, NEW x, IsProgram(names, q), IsInstruction(names, x)
    PROVE  IsProgram(names, Append(q, x))
<1>. DEFINE S == {q[k] : k \in 1..Len(q)} \cup {x}
            r == Append(q, x)
<1>1. q \in Seq(S) /\ Len(q) \in Nat
  <2>1. q \in [1..Len(q) -> S] /\ Len(q) \in Nat
      BY DEF IsProgram
  <2>. QED BY <2>1 DEF Seq
<1>2. x \in S /\ \A y \in S : IsInstruction(names, y)
    BY DEF IsProgram
<1>. HIDE DEF S
<1>3. r \in Seq(S)
    BY <1>1, <1>2
<1>. HIDE DEF r
<1>4. PICK n \in Nat : r \in [1..n -> S]
    BY <1>3, SeqDef
<1>5. r = [k \in 1..n |-> r[k]] /\ \A k \in 1..n : r[k] \in S
    BY <1>4
<1>6. Len(r) = n
    BY <1>5, FunctionIsList
<1>. QED BY <1>2, <1>4, <1>5, <1>6 DEF IsProgram, r

\* Numbers change neither the operation nor what it acts on.
LEMMA ProgramSubstituted ==
    ASSUME NEW names, NEW q, NEW mapping, IsProgram(names, q)
    PROVE  IsProgram(names, Substituted(q, mapping))
<1>. DEFINE r == Substituted(q, mapping)
<1>1. PICK args : r = [n \in DOMAIN q |-> [q[n] EXCEPT !.args = args[n]]]
  <2>. DEFINE args == [n \in DOMAIN q |->
          [i \in DOMAIN q[n].args |->
             LET arg == q[n].args[i]
                 given == UNION {{mapping[k].values[j] :
                                   j \in {x \in DOMAIN mapping[k].elements :
                                             mapping[k].elements[x] = arg}} :
                                 k \in DOMAIN mapping}
             IN  IF given = {} THEN arg ELSE Number(CHOOSE v \in given : TRUE)]]
  <2>1. r = [n \in DOMAIN q |-> [q[n] EXCEPT !.args = args[n]]]
      BY DEF Substituted
  <2>. HIDE DEF args, r
  <2>. QED BY <2>1
<1>. HIDE DEF r
<1>2. Len(q) \in Nat /\ DOMAIN q = 1..Len(q)
    BY DEF IsProgram
<1>3. r = [n \in 1..Len(q) |-> r[n]]
    BY <1>1, <1>2
<1>4. Len(r) = Len(q)
    BY <1>2, <1>3, FunctionIsList
<1>5. ASSUME NEW n \in 1..Len(q)
      PROVE  IsInstruction(names, r[n])
  <2>1. r[n] = [q[n] EXCEPT !.args = args[n]]
      BY <1>1, <1>2
  <2>2. IsInstruction(names, q[n])
      BY DEF IsProgram
  <2>3. PICK op, arity, old, targets, condition, outputs :
           q[n] = [op |-> op, arity |-> arity, args |-> old, targets |-> targets,
                   condition |-> condition, outputs |-> outputs]
      BY <2>2 DEF IsInstruction
  <2>4. r[n] = [op |-> op, arity |-> arity, args |-> args[n], targets |-> targets,
                condition |-> condition, outputs |-> outputs]
      BY <2>1, <2>3
  <2>5. r[n].op = q[n].op /\ r[n].arity = q[n].arity /\ r[n].targets = q[n].targets
      BY <2>3, <2>4
  <2>6. r[n] = [op |-> r[n].op, arity |-> r[n].arity, args |-> r[n].args,
                targets |-> r[n].targets, condition |-> r[n].condition,
                outputs |-> r[n].outputs]
      BY <2>4
  <2>. QED BY <2>2, <2>5, <2>6 DEF IsInstruction
<1>. QED BY <1>2, <1>3, <1>4, <1>5 DEF IsProgram, r

LEMMA StepsInit ==
    ASSUME Init
    PROVE  StepsInv
<1>1. layout \in Layouts /\ \A h \in DOMAIN authored : authored[h] = <<>>
    BY DEF Init
<1>2. IsProgram(layout.q, <<>>)
  <2>1. Len(<<>>) = 0
      OBVIOUS
  <2>2. <<>> = [k \in 1..0 |-> <<>>[k]]
      OBVIOUS
  <2>. QED BY <2>1, <2>2 DEF IsProgram
<1>. QED BY <1>1, <1>2 DEF StepsInv


LEMMA StepsRecord ==
    ASSUME HandleInv, StepsInv, NEW h \in DOMAIN programs, NEW x, IsInstruction(layout.q, x),
           Record(h, x)
    PROVE  StepsInv'
<1>1. authored' = [authored EXCEPT ![h] = Append(@, x)] /\ UNCHANGED layout
    BY DEF Record
<1>2. h \in DOMAIN authored
    BY DEF HandleInv
<1>3. IsProgram(layout.q, authored[h]) /\ \A g \in DOMAIN authored : IsProgram(layout.q, authored[g])
    BY <1>2 DEF StepsInv
<1>4. IsProgram(layout.q, Append(authored[h], x))
    BY <1>3, ProgramAppend
<1>5. DOMAIN authored' = DOMAIN authored
    BY <1>1
<1>6. ASSUME NEW g \in DOMAIN authored
      PROVE  IsProgram(layout.q, authored'[g])
    BY <1>1, <1>2, <1>3, <1>4
<1>7. \A g \in DOMAIN authored : IsProgram(layout.q, authored[g])'
    BY <1>1, <1>6
<1>8. layout' \in Layouts
    BY <1>1 DEF StepsInv
<1>. QED BY <1>5, <1>7, <1>8 DEF StepsInv

\* A second program whose history is a program.
LEMMA StepsSecond ==
    ASSUME HandleInv, StepsInv, NEW content, IsProgram(layout.q, content), UNCHANGED layout,
           authored' = [h \in Handles |-> IF h = "template" THEN authored[h] ELSE content]
    PROVE  StepsInv'
<1>1. "template" \in DOMAIN authored
    BY DEF HandleInv
<1>2. IsProgram(layout.q, authored["template"])
    BY <1>1 DEF StepsInv
<1>3. DOMAIN authored' = Handles /\ \A h \in Handles : IsProgram(layout.q, authored'[h])
    BY <1>2
<1>4. \A h \in Handles : IsProgram(layout.q, authored[h])'
    BY <1>3
<1>5. layout' \in Layouts
    BY DEF StepsInv
<1>. QED BY <1>3, <1>4, <1>5 DEF StepsInv

LEMMA StepsNext ==
    ASSUME HandleInv, StepsInv, [Next]_vars
    PROVE  StepsInv'
<1>. USE DEF StepsInv
<1>1. ASSUME NEW h \in DOMAIN programs, Add(h)
      PROVE  StepsInv'
  <2>1. PICK call \in Adds : AddAccepted(call) /\ Record(h, Applied(call))
      BY <1>1 DEF Add
  <2>2. AppliesApart(layout.q, Targets(call)) /\ (call.arity = 2 => DOMAIN Targets(call) = {1, 2})
      BY <2>1, AddIsApart, AddOnTwo
  <2>3. IsInstruction(layout.q, Applied(call))
      BY <2>2 DEF IsInstruction, Applied
  <2>. QED BY <2>1, <2>3, StepsRecord
<1>2. ASSUME NEW targets, NEW outputs
      PROVE  IsInstruction(layout.q, Measured(targets, outputs))
    BY DEF IsInstruction, Measured
<1>3. ASSUME NEW h \in DOMAIN programs, Measure(h) \/ MeasureAll(h)
      PROVE  StepsInv'
  <2>1. PICK targets, outputs : Record(h, Measured(targets, outputs))
      BY <1>3 DEF Measure, MeasureAll
  <2>. QED BY <1>2, <2>1, StepsRecord
<1>4. ASSUME UNCHANGED <<layout, authored>>
      PROVE  StepsInv'
    BY <1>4
<1>5. ASSUME NEW h \in DOMAIN programs, Read(h) \/ Sweep(h)
      PROVE  StepsInv'
    BY <1>4, <1>5 DEF Read, Sweep
<1>6. IsProgram(layout.q, authored["template"])
    BY DEF HandleInv
<1>7. CASE Copy
  <2>1. authored' = [h \in Handles |-> IF h = "template" THEN authored[h]
                                       ELSE authored["template"]]
        /\ UNCHANGED layout
      BY <1>7 DEF Copy
  <2>. QED BY <1>6, <2>1, StepsSecond
<1>8. CASE Assign
  <2>1. PICK mapping :
           /\ authored' = [h \in Handles |-> IF h = "template" THEN authored[h]
                                ELSE Substituted(authored["template"], mapping)]
           /\ UNCHANGED layout
      BY <1>8 DEF Assign
  <2>2. IsProgram(layout.q, Substituted(authored["template"], mapping))
      BY <1>6, ProgramSubstituted
  <2>. QED BY <2>1, <2>2, StepsSecond
<1>9. CASE UNCHANGED vars
    BY <1>4, <1>9 DEF vars
<1>. QED BY <1>1, <1>3, <1>5, <1>7, <1>8, <1>9 DEF Next

\* The applications of an instruction act on slots of the program, no two of
\* them on one slot, for registers and views of every size.
THEOREM ApplicationsStayApart == Spec => []OccurrencesDisjoint
<1>. DEFINE Inv == HandleInv /\ StepsInv
<1>1. Init => Inv
    BY HandleInit, StepsInit
<1>2. Inv /\ [Next]_vars => Inv'
    BY HandleNext, StepsNext
<1>3. Inv => OccurrencesDisjoint
  <2>. SUFFICES ASSUME Inv, NEW h \in DOMAIN programs, NEW n \in DOMAIN Instructions(h),
                       Instructions(h)[n].op # "Measurement"
                PROVE  AppliesApart(layout.q, Instructions(h)[n].targets)
      BY DEF OccurrencesDisjoint
  <2>1. Instructions(h) = authored[h]
      BY InstructionsAreHistory
  <2>2. h \in DOMAIN authored
      BY DEF HandleInv
  <2>3. IsProgram(layout.q, authored[h])
      BY <2>2 DEF StepsInv
  <2>4. DOMAIN authored[h] = 1..Len(authored[h])
      BY <2>3 DEF IsProgram
  <2>5. IsInstruction(layout.q, authored[h][n])
      BY <2>1, <2>3, <2>4 DEF IsProgram
  <2>. QED BY <2>1, <2>5 DEF IsInstruction
<1>. QED BY <1>1, <1>2, <1>3, PTL DEF Spec
----------------------------------------------------------------------------
(* Sweeps.                                                                 *)

\* The programs of one sweep.
LEMMA SweepMeaning ==
    ASSUME NEW names, NEW q, IsProgram(names, q), NEW batch \in Batches,
           BatchAccepted(q, batch)
    PROVE  LET swept == SweepPrograms(q, batch) IN
           /\ Len(swept) = Len(batch[1].rows)
           /\ \A j \in DOMAIN swept :
                 /\ Executable(swept[j])
                 /\ swept[j] = Substituted(q, RowMapping(batch, j))
<1>. DEFINE swept == SweepPrograms(q, batch)
            rows == Rows(q, batch)
            n == Len(batch[1].rows)
<1>1. IsList(batch) /\ \A k \in DOMAIN batch : IsList(batch[k].rows)
    BY AuthoringAssumption
<1>2. 1 \in DOMAIN batch
  <2>1. Bound(batch) # {}
      BY DEF BatchAccepted
  <2>2. DOMAIN batch # {}
      BY <2>1 DEF Bound
  <2>. QED BY <1>1, <2>2 DEF IsList
<1>3. n \in Nat /\ DOMAIN batch[1].rows = 1..n
    BY <1>1, <1>2 DEF IsList
<1>4. /\ DOMAIN rows = 1..n
      /\ \A j \in 1..n : DOMAIN rows[j] = Present(q)
    BY <1>3 DEF Rows
<1>5. swept = [j \in 1..n |-> Replace(q, rows[j])]
    BY <1>4 DEF SweepPrograms
<1>6. \A k \in DOMAIN q : q[k] = [q[k] EXCEPT !.args = q[k].args] /\ "args" \in DOMAIN q[k]
  <2>1. ASSUME NEW k \in DOMAIN q
        PROVE  q[k] = [q[k] EXCEPT !.args = q[k].args] /\ "args" \in DOMAIN q[k]
    <3>1. IsInstruction(names, q[k])
        BY DEF IsProgram
    <3>2. PICK op, arity, args, targets, condition, outputs :
             q[k] = [op |-> op, arity |-> arity, args |-> args, targets |-> targets,
                     condition |-> condition, outputs |-> outputs]
        BY <3>1 DEF IsInstruction
    <3>. QED BY <3>2
  <2>. QED BY <2>1
<1>7. ASSUME NEW j \in 1..n
      PROVE  Executable(swept[j]) /\ swept[j] = Substituted(q, RowMapping(batch, j))
  <2>1. swept[j] = Replace(q, rows[j])
      BY <1>5
  <2>2. Executable(Replace(q, rows[j]))
    <3>. HIDE DEF rows
    <3>. QED BY <1>4, <1>6, NothingLeft
  <2>3. Replace(q, rows[j]) = Substituted(q, RowMapping(batch, j))
      BY <1>3, RowIsSubstitution
  <2>. HIDE DEF swept, rows
  <2>. QED BY <2>1, <2>2, <2>3
<1>8. Len(swept) = n /\ DOMAIN swept = 1..n
  <2>1. swept = [j \in 1..n |-> swept[j]]
      BY <1>5
  <2>. HIDE DEF swept
  <2>. QED BY <1>3, <2>1, FunctionIsList
<1>. HIDE DEF swept, n
<1>9. Len(swept) = Len(batch[1].rows)
    BY <1>8 DEF n
<1>. QED BY <1>7, <1>8, <1>9 DEF swept

\* Every program of a sweep is the template with its row's numbers and nothing
\* left to bind, for vectors, tables and programs of every size.
THEOREM SweepsBindColumns == Spec => []SweepRowsBindColumns
<1>. DEFINE Inv == HandleInv /\ StepsInv
<1>1. Init => Inv
    BY HandleInit, StepsInit
<1>2. Inv /\ [Next]_vars => Inv'
    BY HandleNext, StepsNext
<1>3. Inv => SweepRowsBindColumns
  <2>. SUFFICES ASSUME Inv, NEW h \in DOMAIN programs, NEW batch \in Batches,
                       BatchAccepted(Instructions(h), batch)
                PROVE  LET swept == SweepPrograms(Instructions(h), batch) IN
                       /\ Len(swept) = Len(batch[1].rows)
                       /\ \A j \in DOMAIN swept :
                             /\ Executable(swept[j])
                             /\ swept[j] = Substituted(authored[h],
                                  [k \in DOMAIN batch |-> [elements |-> batch[k].elements,
                                                          values |-> batch[k].rows[j]]])
      BY DEF SweepRowsBindColumns
  <2>1. Instructions(h) = authored[h] /\ h \in DOMAIN authored
      BY InstructionsAreHistory DEF HandleInv
  <2>2. IsProgram(layout.q, authored[h])
      BY <2>1 DEF StepsInv
  <2>. QED BY <2>1, <2>2, SweepMeaning DEF RowMapping
<1>. QED BY <1>1, <1>2, <1>3, PTL DEF Spec
----------------------------------------------------------------------------
(* The dependency graph.                                                   *)

\* Some natural numbers have a least.
LEMMA LeastNatural ==
    ASSUME NEW S \in SUBSET Nat, S # {}
    PROVE  \E x \in S : \A y \in S : x <= y
<1>1. PICK R : IsWellFoundedOn(R, Nat) /\ \A a, b \in Nat : a < b => <<a, b>> \in R
  <2>1. \A a, b \in Nat : a < b => <<a, b>> \in OpToRel(<, Nat)
      BY DEF OpToRel
  <2>. QED BY <2>1, NatLessThanWellFounded
<1>2. S \subseteq Nat
    OBVIOUS
<1>3. IsWellFoundedOn(R, Nat)
    BY <1>1
<1>4. \E x \in S : \A y \in S : ~ (<<y, x>> \in R)
    BY <1>2, <1>3, WFMin
<1>5. PICK x \in S : \A y \in S : ~ (<<y, x>> \in R)
    BY <1>4
<1>6. \A y \in S : y \in Nat /\ ~(y < x) /\ x \in Nat
    BY <1>1, <1>5
<1>. QED BY <1>5, <1>6

\* The greatest of some numbers up to n.
LEMMA GreatestOf ==
    ASSUME NEW n \in Nat, NEW T \in SUBSET (0..n), T # {}
    PROVE  Max(T) \in T /\ \A y \in T : Max(T) >= y
<1>. DEFINE S == {d \in Nat : n - d \in T}
<1>1. S \in SUBSET Nat /\ S # {}
  <2>1. PICK t \in T : TRUE
      OBVIOUS
  <2>2. n - t \in Nat /\ n - (n - t) = t
      OBVIOUS
  <2>. QED BY <2>1, <2>2
<1>2. PICK x \in S : \A y \in S : x <= y
  <2>. HIDE DEF S
  <2>. QED BY <1>1, LeastNatural
<1>5. \A y \in S : ~ (y < x)
    BY <1>2
<1>6. n - x \in T /\ x \in Nat
    OBVIOUS
<1>7. ASSUME NEW y \in T PROVE n - x >= y
  <2>1. n - y \in S
      OBVIOUS
  <2>. QED BY <1>5, <1>6, <2>1
<1>8. \E z \in T : \A y \in T : z >= y
    BY <1>6, <1>7
<1>. QED BY <1>8 DEF Max

\* A program's own numbers, which its instructions are nodes by.
LEMMA NodeNumbers ==
    ASSUME NEW names, NEW q, IsProgram(names, q)
    PROVE  Nodes(q) \subseteq 1..Len(q) /\ Len(q) \in Nat
BY DEF IsProgram, Nodes

\* What the builder remembers of a slot: nothing, or the last node that set it.
LEMMA LastOf ==
    ASSUME NEW names, NEW q, IsProgram(names, q), NEW n \in Nodes(q),
           NEW T \in SUBSET {m \in Nodes(q) : m < n}
    PROVE  /\ Max({0} \cup T) \in {0} \cup T
           /\ \A m \in T : m <= Max({0} \cup T)
<1>1. n \in Nat /\ {0} \cup T \in SUBSET (0..n)
    BY NodeNumbers
<1>2. \A m \in T : m \in Nat
    BY NodeNumbers
<1>. QED BY <1>1, <1>2, GreatestOf

LEMMA TouchedIsActedOn ==
    ASSUME NEW step
    PROVE  Touched(step) = ActedOn(step)
BY DEF Touched, ActedOn, Range

\* Every edge leads to a later node, which shares what its reason says.
LEMMA EdgesHaveReasons ==
    ASSUME NEW names, NEW q, IsProgram(names, q), NEW e \in Dag(q)
    PROVE  e.source < e.target /\ Depends(q, e.source, e.target)
<1>1. PICK n \in Nodes(q) : e \in EdgesInto(q, n)
    BY DEF Dag
<1>2. e.source # 0
    BY <1>1 DEF EdgesInto
<1>3. \/ \E s \in Touched(q[n]) : \E r : e = Edge(LastQuantum(q, n, s), n, r)
      \/ \E s \in Touched(q[n]) : e = Edge(LastBarrier(q, n, s), n, "barrier")
      \/ \E s \in ReadSlots(q[n]) \cup WrittenSlots(q[n]) :
            e = Edge(LastWrite(q, n, s), n, "classical")
    BY <1>1 DEF EdgesInto
<1>4. CASE \E s \in Touched(q[n]) : \E r : e = Edge(LastQuantum(q, n, s), n, r)
  <2>1. PICK s \in Touched(q[n]) : \E r : e = Edge(LastQuantum(q, n, s), n, r)
      BY <1>4
  <2>. DEFINE T == {m \in Nodes(q) : m < n /\ s \in Touched(q[m])}
  <2>2. e.source = Max({0} \cup T) /\ e.target = n
      BY <2>1 DEF Edge, LastQuantum
  <2>3. T \in SUBSET {m \in Nodes(q) : m < n}
      OBVIOUS
  <2>. HIDE DEF T
  <2>4. e.source \in T
      BY <1>2, <2>2, <2>3, LastOf
  <2>5. e.source < n /\ s \in Touched(q[e.source])
      BY <2>4 DEF T
  <2>. QED BY <2>2, <2>5, TouchedIsActedOn DEF Depends
<1>5. CASE \E s \in Touched(q[n]) : e = Edge(LastBarrier(q, n, s), n, "barrier")
  <2>1. PICK s \in Touched(q[n]) : e = Edge(LastBarrier(q, n, s), n, "barrier")
      BY <1>5
  <2>. DEFINE T == {m \in Nodes(q) :
                      m < n /\ s \in Touched(q[m]) /\ q[m].op = "Barrier"}
  <2>2. e.source = Max({0} \cup T) /\ e.target = n
      BY <2>1 DEF Edge, LastBarrier
  <2>3. T \in SUBSET {m \in Nodes(q) : m < n}
      OBVIOUS
  <2>. HIDE DEF T
  <2>4. e.source \in T
      BY <1>2, <2>2, <2>3, LastOf
  <2>5. e.source < n /\ s \in Touched(q[e.source])
      BY <2>4 DEF T
  <2>. QED BY <2>2, <2>5, TouchedIsActedOn DEF Depends
<1>6. CASE \E s \in ReadSlots(q[n]) \cup WrittenSlots(q[n]) :
              e = Edge(LastWrite(q, n, s), n, "classical")
  <2>1. PICK s \in ReadSlots(q[n]) \cup WrittenSlots(q[n]) :
           e = Edge(LastWrite(q, n, s), n, "classical")
      BY <1>6
  <2>. DEFINE T == {m \in Nodes(q) : m < n /\ s \in WrittenSlots(q[m])}
  <2>2. e.source = Max({0} \cup T) /\ e.target = n
      BY <2>1 DEF Edge, LastWrite
  <2>3. T \in SUBSET {m \in Nodes(q) : m < n}
      OBVIOUS
  <2>. HIDE DEF T
  <2>4. e.source \in T
      BY <1>2, <2>2, <2>3, LastOf
  <2>5. e.source < n /\ s \in WrittenSlots(q[e.source])
      BY <2>4 DEF T
  <2>. QED BY <2>1, <2>2, <2>5 DEF Depends
<1>. QED BY <1>3, <1>4, <1>5, <1>6
\* The two edges the builder certainly adds.
LEMMA QuantumEdge ==
    ASSUME NEW q, NEW n \in Nodes(q), NEW s \in Touched(q[n]), LastQuantum(q, n, s) # 0
    PROVE  \E e \in Dag(q) : e.source = LastQuantum(q, n, s) /\ e.target = n
<1>. DEFINE e == Edge(LastQuantum(q, n, s), n, "quantum")
<1>1. e.source = LastQuantum(q, n, s) /\ e.target = n
    BY DEF Edge
<1>. HIDE DEF e
<1>2. e \in EdgesInto(q, n)
  <2>. DEFINE reason == IF q[n].op = "Barrier" THEN {"quantum", "barrier"} ELSE {"quantum"}
  <2>1. "quantum" \in reason
      OBVIOUS
  <2>2. e \in {Edge(LastQuantum(q, n, t), n, r) : t \in Touched(q[n]), r \in reason}
      BY <2>1 DEF e
  <2>. QED BY <1>1, <2>2 DEF EdgesInto
<1>. QED BY <1>1, <1>2 DEF Dag

LEMMA ClassicalEdge ==
    ASSUME NEW q, NEW n \in Nodes(q), NEW s \in ReadSlots(q[n]) \cup WrittenSlots(q[n]),
           LastWrite(q, n, s) # 0
    PROVE  \E e \in Dag(q) : e.source = LastWrite(q, n, s) /\ e.target = n
<1>. DEFINE e == Edge(LastWrite(q, n, s), n, "classical")
<1>1. e.source = LastWrite(q, n, s) /\ e.target = n
    BY DEF Edge
<1>. HIDE DEF e
<1>2. e \in EdgesInto(q, n)
  <2>1. e \in {Edge(LastWrite(q, n, t), n, "classical") :
                 t \in ReadSlots(q[n]) \cup WrittenSlots(q[n])}
      BY DEF e
  <2>. QED BY <1>1, <2>1 DEF EdgesInto
<1>. QED BY <1>1, <1>2 DEF Dag

\* A node that depends on m has an edge from m, or from a later node that
\* depends on m as well.
LEMMA EdgeFromDependent ==
    ASSUME NEW names, NEW q, IsProgram(names, q), NEW m \in Nodes(q), NEW n \in Nodes(q),
           m < n, Depends(q, m, n)
    PROVE  \E e \in Dag(q) :
              /\ e.target = n /\ e.source \in Nodes(q)
              /\ e.source = m \/ (m < e.source /\ e.source < n /\ Depends(q, m, e.source))
<1>. USE DEF Depends
<1>1. m \in Nat /\ n \in Nat /\ m # 0 /\ \A k \in Nodes(q) : k \in Nat
    BY NodeNumbers
<1>2. CASE ActedOn(q[m]) \cap ActedOn(q[n]) # {}
  <2>1. PICK s \in Touched(q[m]) : s \in Touched(q[n])
      BY <1>2, TouchedIsActedOn
  <2>. DEFINE T == {k \in Nodes(q) : k < n /\ s \in Touched(q[k])}
              l == LastQuantum(q, n, s)
  <2>2. l = Max({0} \cup T)
      BY DEF LastQuantum
  <2>3. T \in SUBSET {k \in Nodes(q) : k < n} /\ m \in T /\ \A k \in T : k \in Nat
      BY <1>1, <2>1
  <2>. HIDE DEF T, l
  <2>4. l \in {0} \cup T /\ m <= l
      BY <2>2, <2>3, LastOf
  <2>5. l \in T /\ l # 0 /\ (l = m \/ m < l)
      BY <1>1, <2>3, <2>4
  <2>6. l \in Nodes(q) /\ l < n /\ s \in Touched(q[l])
      BY <2>5 DEF T
  <2>7. ActedOn(q[m]) \cap ActedOn(q[l]) # {}
      BY <2>1, <2>6, TouchedIsActedOn
  <2>8. \E e \in Dag(q) : e.source = l /\ e.target = n
      BY <2>1, <2>5, QuantumEdge DEF l
  <2>. QED BY <2>5, <2>6, <2>7, <2>8
<1>3. CASE WrittenSlots(q[m]) \cap (ReadSlots(q[n]) \cup WrittenSlots(q[n])) # {}
  <2>1. PICK s \in WrittenSlots(q[m]) : s \in ReadSlots(q[n]) \cup WrittenSlots(q[n])
      BY <1>3
  <2>. DEFINE T == {k \in Nodes(q) : k < n /\ s \in WrittenSlots(q[k])}
              l == LastWrite(q, n, s)
  <2>2. l = Max({0} \cup T)
      BY DEF LastWrite
  <2>3. T \in SUBSET {k \in Nodes(q) : k < n} /\ m \in T /\ \A k \in T : k \in Nat
      BY <1>1, <2>1
  <2>. HIDE DEF T, l
  <2>4. l \in {0} \cup T /\ m <= l
      BY <2>2, <2>3, LastOf
  <2>5. l \in T /\ l # 0 /\ (l = m \/ m < l)
      BY <1>1, <2>3, <2>4
  <2>6. l \in Nodes(q) /\ l < n /\ s \in WrittenSlots(q[l])
      BY <2>5 DEF T
  <2>7. WrittenSlots(q[m]) \cap (ReadSlots(q[l]) \cup WrittenSlots(q[l])) # {}
      BY <2>1, <2>6
  <2>8. \E e \in Dag(q) : e.source = l /\ e.target = n
      BY <2>1, <2>5, ClassicalEdge DEF l
  <2>. QED BY <2>5, <2>6, <2>7, <2>8
<1>. QED BY <1>2, <1>3

\* The earlier of two nodes precedes the later one that depends on it.
LEMMA DependentsFollow ==
    ASSUME NEW names, NEW q, IsProgram(names, q), NEW m \in Nodes(q), NEW n \in Nodes(q),
           m < n, Depends(q, m, n)
    PROVE  Precedes(q, m, n)
<1>. SUFFICES ASSUME NEW S \in SUBSET Nodes(q), m \in S, n \notin S,
                     \A e \in Dag(q) : e.source \in S => e.target \in S
              PROVE  FALSE
    BY DEF Precedes
<1>. DEFINE Missed == {k \in Nodes(q) : m < k /\ Depends(q, m, k) /\ k \notin S}
<1>1. Missed \in SUBSET Nat /\ Missed # {}
    BY NodeNumbers
<1>2. PICK k \in Missed : \A l \in Missed : k <= l
  <2>. HIDE DEF Missed
  <2>. QED BY <1>1, LeastNatural
<1>3. k \in Nodes(q) /\ m < k /\ Depends(q, m, k) /\ k \notin S
    BY <1>2
<1>4. PICK e \in Dag(q) :
         /\ e.target = k /\ e.source \in Nodes(q)
         /\ e.source = m \/ (m < e.source /\ e.source < k /\ Depends(q, m, e.source))
    BY <1>3, EdgeFromDependent
<1>5. e.source \notin S
    BY <1>3, <1>4
<1>6. e.source \in Missed /\ e.source < k
    BY <1>4, <1>5
<1>7. k \in Nat /\ e.source \in Nat
    BY <1>1, <1>2, <1>6
<1>8. k <= e.source
    BY <1>2, <1>6
<1>. HIDE DEF Missed
<1>. QED BY <1>6, <1>7, <1>8
----------------------------------------------------------------------------
(* The interaction graph.                                                  *)

\* The pairs of a two-target operation are its applications, each with a pair
\* of its own.
LEMMA PairsOfApplications ==
    ASSUME NEW names, NEW x, IsInstruction(names, x), x.arity = 2
    PROVE  LET groups == Occurrences(x.targets) IN
           /\ InteractionPairs(x) = {Range(groups[j]) : j \in DOMAIN groups}
           /\ \A i, j \in DOMAIN groups : Range(groups[i]) = Range(groups[j]) => i = j
<1>. DEFINE groups == Occurrences(x.targets)
<1>1. DOMAIN x.targets = {1, 2} /\ AppliesApart(names, x.targets)
    BY DEF IsInstruction
<1>2. \A j \in DOMAIN groups : DOMAIN groups[j] = {1, 2}
  <2>1. CASE \E k \in DOMAIN x.targets : IsView(x.targets[k])
    <3>1. groups = [j \in DOMAIN Members(x.targets[1]) |->
                      [k \in DOMAIN x.targets |-> Members(x.targets[k])[j]]]
        BY <2>1 DEF Occurrences
    <3>. HIDE DEF groups
    <3>. QED BY <1>1, <3>1
  <2>2. CASE ~ \E k \in DOMAIN x.targets : IsView(x.targets[k])
    <3>1. groups = <<x.targets>>
        BY <2>2 DEF Occurrences
    <3>. HIDE DEF groups
    <3>. QED BY <1>1, <3>1
  <2>. QED BY <2>1, <2>2
<1>3. \A i, j \in DOMAIN groups : \A k \in DOMAIN groups[j], l \in DOMAIN groups[i] :
         i # j => groups[i][l] # groups[j][k]
    BY <1>1 DEF AppliesApart
<1>4. InteractionPairs(x) = {{groups[j][1], groups[j][2]} : j \in DOMAIN groups}
    BY DEF InteractionPairs
<1>. HIDE DEF groups
<1>5. \A j \in DOMAIN groups : Range(groups[j]) = {groups[j][1], groups[j][2]}
    BY <1>2 DEF Range
<1>6. InteractionPairs(x) = {Range(groups[j]) : j \in DOMAIN groups}
    BY <1>4, <1>5
<1>7. ASSUME NEW i \in DOMAIN groups, NEW j \in DOMAIN groups,
             Range(groups[i]) = Range(groups[j])
      PROVE  i = j
  <2>1. 1 \in DOMAIN groups[i] /\ groups[i][1] \in Range(groups[j])
      BY <1>2, <1>5, <1>7
  <2>2. PICK k \in DOMAIN groups[j] : groups[j][k] = groups[i][1]
      BY <2>1 DEF Range
  <2>. QED BY <1>3, <2>1, <2>2
<1>. QED BY <1>6, <1>7 DEF groups

\* Each instruction that acts on a pair acts on it in one application.
LEMMA FrequencyIsExact ==
    ASSUME NEW names, NEW q, IsProgram(names, q), NEW pair
    PROVE  Frequency(q, pair) = Cardinality({at \in PairApplications(q) : PairAt(q, at) = pair})
<1>. DEFINE S == {n \in Nodes(q) : pair \in InteractionPairs(q[n])}
            T == {at \in PairApplications(q) : PairAt(q, at) = pair}
            F == [at \in T |-> at[1]]
<1>1. \A n \in Nodes(q) : n \in 1..Len(q) /\ IsInstruction(names, q[n])
    BY NodeNumbers DEF IsProgram
<1>2. ASSUME NEW at \in T
      PROVE  /\ at = <<at[1], at[2]>> /\ at[1] \in Nodes(q) /\ q[at[1]].arity = 2
             /\ at[2] \in DOMAIN Occurrences(q[at[1]].targets)
             /\ Range(Occurrences(q[at[1]].targets)[at[2]]) = pair
    BY DEF PairApplications, PairAt
<1>3. ASSUME NEW n \in Nodes(q), NEW j, q[n].arity = 2,
             j \in DOMAIN Occurrences(q[n].targets),
             Range(Occurrences(q[n].targets)[j]) = pair
      PROVE  <<n, j>> \in T
    BY <1>3 DEF PairApplications, PairAt
<1>. HIDE DEF T
<1>4. F \in [T -> S]
  <2>1. ASSUME NEW at \in T PROVE at[1] \in S
    <3>1. at[1] \in Nodes(q) /\ q[at[1]].arity = 2 /\ IsInstruction(names, q[at[1]])
        BY <1>1, <1>2
    <3>2. InteractionPairs(q[at[1]]) =
            {Range(Occurrences(q[at[1]].targets)[j]) :
               j \in DOMAIN Occurrences(q[at[1]].targets)}
        BY <3>1, PairsOfApplications
    <3>3. pair \in InteractionPairs(q[at[1]])
        BY <1>2, <3>2
    <3>. QED BY <3>1, <3>3
  <2>. HIDE DEF S
  <2>. QED BY <2>1
<1>5. ASSUME NEW a \in T, NEW b \in T, F[a] = F[b] PROVE a = b
  <2>1. a[1] = b[1]
      BY <1>5
  <2>2. a[1] \in Nodes(q) /\ q[a[1]].arity = 2 /\ IsInstruction(names, q[a[1]])
      BY <1>1, <1>2
  <2>. DEFINE groups == Occurrences(q[a[1]].targets)
  <2>3. \A i, j \in DOMAIN groups : Range(groups[i]) = Range(groups[j]) => i = j
      BY <2>2, PairsOfApplications
  <2>4. /\ a[2] \in DOMAIN groups /\ b[2] \in DOMAIN groups
        /\ Range(groups[a[2]]) = pair /\ Range(groups[b[2]]) = pair
      BY <1>2, <2>1
  <2>. HIDE DEF groups
  <2>5. a[2] = b[2]
      BY <2>3, <2>4
  <2>. QED BY <1>2, <2>1, <2>5
<1>6. ASSUME NEW n \in S PROVE \E at \in T : F[at] = n
  <2>1. n \in Nodes(q) /\ pair \in InteractionPairs(q[n])
      OBVIOUS
  <2>2. q[n].arity = 2
      BY <2>1 DEF InteractionPairs
  <2>3. InteractionPairs(q[n]) = {Range(Occurrences(q[n].targets)[j]) :
                                    j \in DOMAIN Occurrences(q[n].targets)}
      BY <1>1, <2>1, <2>2, PairsOfApplications
  <2>4. PICK j \in DOMAIN Occurrences(q[n].targets) :
           Range(Occurrences(q[n].targets)[j]) = pair
      BY <2>1, <2>3
  <2>5. <<n, j>> \in T
      BY <1>3, <2>1, <2>2, <2>4
  <2>6. F[<<n, j>>] = n
      BY <2>5
  <2>. QED BY <2>5, <2>6
<1>7. IsFiniteSet(S)
  <2>1. Len(q) \in Nat /\ S \in SUBSET (1..Len(q))
      BY NodeNumbers
  <2>. HIDE DEF S
  <2>2. IsFiniteSet(1..Len(q))
      BY <2>1, FS_Interval
  <2>. QED BY <2>1, <2>2, FS_Subset
<1>. HIDE DEF F, S
<1>8. F \in Bijection(T, S)
    BY <1>4, <1>5, <1>6, Fun_IsBij
<1>9. ExistsBijection(S, T)
  <2>1. ExistsBijection(T, S)
      BY <1>8, Fun_ExistsBij
  <2>. QED BY <2>1, Fun_ExistsBijSymmetric
<1>10. Cardinality(T) = Cardinality(S)
    BY <1>7, <1>9, FS_Bijection
<1>. QED BY <1>10 DEF Frequency, S, T

\* The dependency graph orders what depends and nothing else, and the
\* interaction graph counts each pair as often as it is acted on, for programs
\* of any length over views of any size.
THEOREM GraphsAreExact == Spec => []DagOrdersShared
<1>. DEFINE Inv == HandleInv /\ StepsInv
<1>1. Init => Inv
    BY HandleInit, StepsInit
<1>2. Inv /\ [Next]_vars => Inv'
    BY HandleNext, StepsNext
<1>3. Inv => DagOrdersShared
  <2>. SUFFICES ASSUME Inv, NEW h \in DOMAIN programs
                PROVE  LET q == Instructions(h) IN
                       /\ \A e \in Dag(q) : e.source < e.target /\ Depends(q, e.source, e.target)
                       /\ \A m, n \in Nodes(q) : m < n /\ Depends(q, m, n) => Precedes(q, m, n)
                       /\ \A applied \in PairApplications(q) :
                             LET pair == PairAt(q, applied) IN
                             Frequency(q, pair) =
                               Cardinality({at \in PairApplications(q) : PairAt(q, at) = pair})
      BY DEF DagOrdersShared
  <2>1. Instructions(h) = authored[h] /\ h \in DOMAIN authored
      BY InstructionsAreHistory DEF HandleInv
  <2>2. IsProgram(layout.q, Instructions(h))
      BY <2>1 DEF StepsInv
  <2>. QED BY <2>2, EdgesHaveReasons, DependentsFollow, FrequencyIsExact
<1>. QED BY <1>1, <1>2, <1>3, PTL DEF Spec
=============================================================================
