--------------------------- MODULE MCPulseEngine ---------------------------
(* Small instances of PulseEngine for TLC.                                 *)
EXTENDS PulseEngine

CONSTANTS q0, q1, c0, NoClbit

Step(kind, targets, clbit, condition) ==
    [kind |-> kind, targets |-> targets, clbit |-> clbit, condition |-> condition]

Guard == {<<c0, 1>>}

Pulses == {Step("pulse", {q0}, NoClbit, {}), Step("pulse", {q1}, NoClbit, {}),
           Step("pulse", {q0, q1}, NoClbit, {})}
GuardedPulses == {Step("pulse", {q1}, NoClbit, Guard)}
Measures == {Step("measure", {q0}, c0, {}), Step("measure", {q1}, c0, {})}
Resets == {Step("reset", {q0}, NoClbit, {}), Step("reset", {q1}, NoClbit, Guard)}

SeqsUpTo(S, n) == UNION {[1..k -> S] : k \in 0..n}

MCPlans == SeqsUpTo(Pulses \cup GuardedPulses \cup Measures \cup Resets, 3)
              \cup SeqsUpTo(Pulses \cup Measures, 4)
\* A coherent runner, driven in place; noisy trajectories, batched if possible.
MCRunners ==
    {[apis |-> {"run", "groups"}, background |-> FALSE, frames |-> TRUE,
      batch |-> FALSE, inPlace |-> TRUE],
     [apis |-> {"trajectories"}, background |-> TRUE, frames |-> FALSE,
      batch |-> TRUE, inPlace |-> FALSE]}

\* A density-matrix runner with background noise.
MCNoisyRunner ==
    {[apis |-> {"run"}, background |-> TRUE, frames |-> TRUE,
      batch |-> FALSE, inPlace |-> FALSE]}

MCGroups == UNION {[1..k -> Measures] : k \in 1..2}
=============================================================================
