--------------------------- MODULE PulsePlacement ---------------------------
(***************************************************************************)
(* What schedule_pulse_run promises its caller, the engine: one answer     *)
(* per region.  Either the region is refused, which only explicit starts   *)
(* can cause, or every block gets a start inside the region such that two  *)
(* blocks naming one resource claim run one after the other in source      *)
(* order.  How the starts are found is left open; PulseSchedule finds them *)
(* with its ASAP and ALAP loops and implements this specification.         *)
(***************************************************************************)
EXTENDS Integers, Sequences

CONSTANTS NoStart, Epsilon

VARIABLES blocks, boundary, status, starts, end

vars == <<blocks, boundary, status, starts, end>>

Indices == 1..Len(blocks)

Unscheduled == \A i \in Indices : blocks[i].start = NoStart
Prescheduled == \A i \in Indices : blocks[i].start # NoStart

\* Explicit times are compared up to the tolerance, computed ones exactly.
Tolerance == IF Unscheduled THEN 0 ELSE Epsilon

\* Blocks that share a claim follow each other in source order.
Exclusive(s) ==
    \A later \in Indices : \A earlier \in 1..(later - 1) :
       blocks[earlier].claims \cap blocks[later].claims # {} =>
          s[later] >= s[earlier] + blocks[earlier].duration - Tolerance

\* No block leaves the region [boundary, e], and the region is not padded.
Contained(s, e) ==
    /\ \A i \in Indices : /\ s[i] >= boundary - Tolerance
                          /\ s[i] + blocks[i].duration <= e
    /\ \E i \in Indices : s[i] + blocks[i].duration = e

Init ==
    /\ status = "open"
    /\ starts = [i \in Indices |-> 0]
    /\ end = 0

Place ==
    /\ status = "open"
    /\ status' = "done"
    /\ Unscheduled \/ Prescheduled
    /\ starts' \in [Indices -> Nat]
    /\ Prescheduled => \A i \in Indices : starts'[i] = blocks[i].start
    /\ Exclusive(starts')
    /\ Contained(starts', end')
    /\ UNCHANGED <<blocks, boundary>>

Refuse ==
    /\ status = "open"
    /\ ~Unscheduled
    /\ status' = "rejected"
    /\ UNCHANGED <<blocks, boundary, starts, end>>

Next == Place \/ Refuse

Spec == Init /\ [][Next]_vars
=============================================================================
