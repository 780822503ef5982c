---------------------------- MODULE MCAtomArray ----------------------------
(* Small instances of AtomArray for TLC.                                   *)
EXTENDS AtomArray

CONSTANTS s0, s1, s2, c0

Op(kind, targets, clbit, condition) ==
    [kind |-> kind, targets |-> targets, clbit |-> clbit, condition |-> condition,
     loses |-> FALSE]

\* Loss attached to gates, movement and loading.
Lossy(ops) == {[op EXCEPT !.loses = op.kind \in {"cz", "unpair", "put"}] : op \in ops}

Simple == {Op("put", <<s0, s1>>, NoClbit, {}), Op("rotate", <<s0>>, NoClbit, {}),
           Op("cz", <<s0, s1>>, NoClbit, {}), Op("pair", <<s0, s1>>, NoClbit, {}),
           Op("unpair", <<s1, s0>>, NoClbit, {}), Op("reset", <<s0>>, NoClbit, {}),
           Op("measure", <<s0>>, c0, {})}

\* Reload and feedforward on an erasure, and a guarded pairing.
Guarded == {Op("put", <<s0>>, NoClbit, {<<c0, 2>>}), Op("put", <<s1>>, NoClbit, {<<c0, 0>>}),
            Op("rotate", <<s1>>, NoClbit, {<<c0, 1>>}),
            Op("pair", <<s0, s1>>, NoClbit, {<<c0, 1>>})}

\* Two edges that share an atom.
Chained == {Op("pair", <<s0, s1>>, NoClbit, {}), Op("pair", <<s1, s2>>, NoClbit, {}),
            Op("unpair", <<s1, s0>>, NoClbit, {}), Op("cz", <<s1, s2>>, NoClbit, {})}

SeqsUpTo(S, n) == UNION {[1..k -> S] : k \in 0..n}

MCPrograms == SeqsUpTo(Lossy(Simple \cup Guarded), 3) \cup SeqsUpTo(Lossy(Simple), 4)
                 \cup SeqsUpTo(Lossy(Chained), 4) \cup SeqsUpTo(Simple \cup Guarded, 3)
MCNoisy == {"rotate", "cz", "pair"}
MCOccupancies == {{}, {s0}, {s0, s1}}
MCDigits == {0, 1}
=============================================================================
