---------------------------- MODULE MCFrameLedger ----------------------------
(* Two transmons with the gates of realization.py: a drive, RZ, iSWAP, CZ. *)
EXTENDS FrameLedger

CONSTANTS q1, q2

Gate(claims, duration, drives, actions) ==
    [claims |-> claims, duration |-> duration, drives |-> drives, actions |-> actions]

ShiftOf(q) == [type |-> "shift", frame |-> q]

RX(q) == Gate({q}, 101, {q}, <<ShiftOf(q)>>)
RZ(q) == Gate({q}, 0, {}, <<ShiftOf(q)>>)
ISwap == Gate({q1, q2}, 131, {}, <<[type |-> "swap", first |-> q1, second |-> q2]>>)
CZ    == Gate({q1, q2}, 147, {}, <<ShiftOf(q1)>>)

MCFrames == {q1, q2}
MCLibrary == {RX(q1), RX(q2), RZ(q1), RZ(q2), ISwap, CZ}

\* With 8 bits, floats are spaced by 2 from 256 on, by 4 from 512, by 8 from 1024.
MCShortClocks == {0, 302, 556}
=============================================================================
