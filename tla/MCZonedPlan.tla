---------------------------- MODULE MCZonedPlan ----------------------------
(* Small instances of ZonedPlan for TLC.                                   *)
EXTENDS ZonedPlan

CONSTANT MaxSeparate   \* bound on the gate lists of asap_separate

Grid(x, y, sx, sy, r, c) == [x |-> x, y |-> y, sx |-> sx, sy |-> sy, r |-> r, c |-> c]

\* r rows and c columns of storage, and as many trap pairs 4 um above it.
Zones(r, c) ==
    [storage |-> <<Grid(0, 0, 6, 6, r, c)>>,
     entangling |-> <<Grid(-4, 6 * r + 4, 12, 6, r, c), Grid(0, 6 * r + 4, 12, 6, r, c)>>]

MCAtoms == 0..5

MCArchitectures == {Zones(2, 3), Zones(3, 2)}

\* Two pairs, in every constellation ...
TwoPairs == {<<{0, 1}, {k, m}>> : k \in 0..3, m \in 1..4} \cup {<<{2, 4}, {k, 3}>> : k \in 0..2}

\* ... and lists that make atoms park, take detours, be lifted twice, stay in
\* the entanglement zone, and move in four batches.
Eventful == {
    <<{0, 1}, {2, 3}, {0, 4}, {2, 5}>>,
    <<{3, 4}, {0, 2}>>,
    <<{0}, {0, 1}, {1, 2}>>,
    <<{3, 4}, {0, 2}, {0, 4}>>,
    <<{1, 4}, {0, 4}, {1, 2}, {2, 3}>>,
    <<{1, 3}, {0, 1}, {1, 3}>>,
    <<{0, 3}, {0, 1}, {2}>>,
    <<{1, 4}, {0, 2}, {0, 3}, {2, 4}>>,
    <<{2, 4}, {3}, {0, 1}>>,
    <<{3, 4}, {1, 3}, {3, 4}>>,
    <<{1, 3}, {2, 4}, {0, 4}, {1}>>,
    <<>>}

Joint(lists) == {[strategy |-> "joint", gates |-> list] : list \in lists}

OnThree == {{a, b} : a, b \in 0..2}

Separate == UNION {[strategy : {"separate"}, gates : [1..n -> OnThree]] : n \in 0..MaxSeparate}

MCInputs == Joint(TwoPairs \cup Eventful) \cup Separate
=============================================================================
