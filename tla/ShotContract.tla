---------------------------- MODULE ShotContract ----------------------------
(***************************************************************************)
(* What Simulator.run promises of a lowered matrix plan: every row of the  *)
(* result is the classical register after some run of the plan in source   *)
(* order, from the start the caller gave, and the returned state belongs   *)
(* to such a run.                                                          *)
(*                                                                         *)
(* States are symbolic: per subsystem, the steps that touched it and what  *)
(* chance decided in them.  A register cell is a digit together with the   *)
(* history of the subsystem it was read from, so that a digit read from    *)
(* the right subsystem at the wrong moment is a wrong cell.                *)
(***************************************************************************)
EXTENDS Integers, Sequences

CONSTANTS Subsystems, Clbits,
          Draws,   \* outcomes of one random draw: a digit per subsystem
          None     \* an output not asked for, or not there yet

VARIABLES plan, start, want, shots, stochastic, result

vars == <<plan, start, want, shots, stochastic, result>>

Targets(step) == {step.targets[j] : j \in 1..Len(step.targets)}
IsMeasurement(step) == step.kind = "measure"

\* Steps whose effect chance decides; gates leave nothing to chance.
Chancy(step) == IsMeasurement(step) \/ (stochastic /\ step.kind \in {"channel", "reset"})

ConfusedReadings(p) ==
    UNION {{k} \X (1..Len(p[k].targets)) : k \in {i \in 1..Len(p) : p[i].confused}}

\* What is left to chance in one run: what the chancy steps do to each subsystem,
\* and the digit that every reading by a confused measurement reports.
Chances(p) ==
    [decided : [{k \in 1..Len(p) : Chancy(p[k])} -> Draws],
     reported : [ConfusedReadings(p) -> {0, 1}]]

\* What chance does to subsystem s in step k.
Decided(p, chance, k, s) == IF Chancy(p[k]) THEN chance.decided[k][s] ELSE 0

\* The digit position j of measurement k reports.
Reported(p, chance, k, j) ==
    LET digit == chance.decided[k][p[k].targets[j]]
    IN  IF p[k].confused THEN chance.reported[<<k, j>>]
        ELSE IF p[k].flips THEN 1 - digit ELSE digit

\* The positions of a measurement that write c, and the steps before k that do.
Writing(step, c) == {j \in 1..Len(step.clbits) : IsMeasurement(step) /\ step.clbits[j] = c}
Writers(p, c, k) == {m \in 1..(k - 1) : Writing(p[m], c) # {}}

Last(numbers) == CHOOSE m \in numbers : \A i \in numbers : i <= m

\* The last write before step k holds.
DigitBefore(p, chance, c, k) ==
    LET m == Last(Writers(p, c, k))
    IN  IF Writers(p, c, k) = {} THEN start[c]
        ELSE Reported(p, chance, m, Last(Writing(p[m], c)))

Fires(p, chance, k) ==
    \A term \in p[k].condition : DigitBefore(p, chance, term[1], k) = term[2]

\* After each number of steps, those that touched s, with what chance decided.
History(p, chance, s) ==
    LET upTo[k \in 0..Len(p)] ==
          IF k = 0 THEN <<>>
          ELSE IF s \in Targets(p[k]) /\ Fires(p, chance, k)
            THEN Append(upTo[k - 1], <<k, Decided(p, chance, k, s)>>)
            ELSE upTo[k - 1]
    IN  upTo

\* The subsystem that holds c's digit, as it was when it was read.
OriginBefore(p, chance, c, k) ==
    LET m == Last(Writers(p, c, k))
    IN  IF Writers(p, c, k) = {} THEN <<>>
        ELSE History(p, chance, p[m].targets[Last(Writing(p[m], c))])[m - 1]

Row(p, chance) ==
    [c \in Clbits |-> [digit |-> DigitBefore(p, chance, c, Len(p) + 1),
                       of    |-> OriginBefore(p, chance, c, Len(p) + 1)]]

FinalState(p, chance) == [s \in Subsystems |-> History(p, chance, s)[Len(p)]]

\* One row per shot, if counts are wanted; a state and register of one run.
Legal(answer) ==
    /\ IF want.counts
         THEN /\ DOMAIN answer.rows = 1..shots
              /\ \A n \in 1..shots : \E chance \in Chances(plan) : answer.rows[n] = Row(plan, chance)
         ELSE answer.rows = None
    /\ \E chance \in Chances(plan) :
          /\ answer.state = IF want.state THEN FinalState(plan, chance) ELSE None
          /\ answer.register = IF want.register THEN Row(plan, chance) ELSE None
          /\ want.counts /\ (want.state \/ want.register) => answer.rows[shots] = Row(plan, chance)

Init == result = None

\* The call answers once, with all it was asked for.
Answer ==
    /\ result = None
    /\ result' # None
    /\ Legal(result')
    /\ UNCHANGED <<plan, start, want, shots, stochastic>>

Spec == Init /\ [][Answer]_vars
=============================================================================
