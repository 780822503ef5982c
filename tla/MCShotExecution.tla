-------------------------- MODULE MCShotExecution --------------------------
(* Small instances of ShotExecution for TLC.                               *)
EXTENDS ShotExecution

CONSTANTS sa, sb, ca, cb

Step(kind, targets, condition) ==
    [kind |-> kind, targets |-> targets, clbits |-> <<>>, condition |-> condition,
     confused |-> FALSE, flips |-> FALSE]

Read(targets, clbits) ==
    [kind |-> "measure", targets |-> targets, clbits |-> clbits, condition |-> {},
     confused |-> FALSE, flips |-> FALSE]

Confused(step) == [step EXCEPT !.confused = TRUE]
Flipped(step)  == [step EXCEPT !.flips = TRUE]

\* The two subsystems read different digits in one draw, or the same.
MCDraws == {[s \in {sa, sb} |-> IF s = sa THEN 1 ELSE 0],
            [s \in {sa, sb} |-> IF s = sa THEN 0 ELSE 1]}

GateA  == Step("gate", <<sa>>, {})
GateAB == Step("gate", <<sa, sb>>, {})
IfA    == Step("gate", <<sb>>, {<<ca, 1>>})
Noise  == Step("channel", <<sa>>, {})
Clear  == Step("reset", <<sb>>, {})
ClearIf == Step("reset", <<sa>>, {<<ca, 1>>})
ReadA  == Read(<<sa>>, <<ca>>)
ReadB  == Read(<<sb>>, <<cb>>)
ReadBa == Read(<<sb>>, <<ca>>)
ReadAB == Read(<<sa, sb>>, <<ca, cb>>)

MCPlans == {
    <<GateAB>>,
    <<GateAB, ReadAB>>,
    <<GateA, ReadA, GateAB>>,
    <<ReadA, Step("gate", <<sb>>, {}), ReadB>>,
    <<ReadA, ReadA>>,
    <<Flipped(ReadA), Confused(ReadBa)>>,
    <<Confused(ReadA), Flipped(ReadBa)>>,
    <<Confused(ReadA), IfA, ReadB>>,
    <<Noise, ReadA>>,
    <<ReadA, Noise>>,
    <<Clear, ReadB, IfA>>,
    <<ReadA, ClearIf, ReadBa>>,
    <<IfA, ReadB, Flipped(ReadA)>>}

MCMixedStart == [c \in {ca, cb} |-> IF c = ca THEN 0 ELSE 1]
MCStarts == {MCMixedStart, [c \in {ca, cb} |-> 0], [c \in {ca, cb} |-> 1]}

Wanted(counts, state, register) == [counts |-> counts, state |-> state, register |-> register]

MCCountsOnly == Wanted(TRUE, FALSE, FALSE)
MCAllWants   == {Wanted(TRUE, FALSE, FALSE), Wanted(TRUE, TRUE, FALSE), Wanted(FALSE, TRUE, FALSE),
                 Wanted(TRUE, FALSE, TRUE), Wanted(FALSE, TRUE, TRUE)}

\* Three shots are split among workers for counts; up to two shots of every
\* combination of outputs are asked for from every start.
MCInit ==
    /\ Init
    /\ IF shots = 3 THEN want = MCCountsOnly /\ start = MCMixedStart
                    ELSE workers = 2 /\ start # MCMixedStart

MCSpec == MCInit /\ [][Next]_vars
=============================================================================
